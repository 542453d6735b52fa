------------------------------ MODULE InfoFile ------------------------------
(***************************************************************************)
(* parseInfoFile (src/main.c): the first line of the info file is the name *)
(* of the image, the next line its SHA-384 in hex digits.                  *)
(*                                                                         *)
(* A character is a newline ('\r' and '\n' are treated alike), a hex digit *)
(* (its value, in either case of the letters) or something else.           *)
(*                                                                         *)
(* AlsoFull and LowFirst are faulty variants of the definitions that       *)
(* follow them; no action uses them.                                       *)
(***************************************************************************)
EXTENDS Integers, Sequences

CONSTANTS
    InfoFiles, \* the info files
    UriSize,   \* sizeof(acDataUri)
    Digits     \* the hex digits of a hash, 96 in the code

NL == -1
Other == -2
Hex == 0..15
Chars == Hex \cup {NL, Other}
HashSize == Digits \div 2

ASSUME FilesAssumption == InfoFiles \subseteq Seq(Chars)
ASSUME UriAssumption == UriSize \in Nat /\ UriSize >= 2
ASSUME DigitsAssumption == HashSize \in Nat /\ HashSize > 0 /\ Digits = 2 * HashSize

VARIABLES
    file,        \* pcBuffer up to pcInfoEnd
    infoPc,      \* the loop or test the function is at
    pcCnt,       \* the offset of pcCnt
    uiLineSize,
    uri,         \* the file name in acDataUri, behind the slash
    pucHash,     \* the offset of pucHash
    hash,        \* tHash.auc
    iInfoResult  \* iResult = 0

infoVars == <<file, infoPc, pcCnt, uiLineSize, uri, pucHash, hash, iInfoResult>>

InfoInit ==
    /\ file \in InfoFiles
    /\ infoPc = "scan" /\ pcCnt = 0 /\ uiLineSize = 0 /\ iInfoResult = FALSE
    /\ uri = <<>> /\ pucHash = 0 /\ hash = [i \in 0..(HashSize - 1) |-> 0]

AtEnd == pcCnt >= Len(file)
AtText == ~AtEnd /\ file[pcCnt + 1] # NL

AtNewline == ~AtEnd /\ file[pcCnt + 1] = NL

Finish(ok) == infoPc' = "done" /\ iInfoResult' = ok

\* Look for the first newline.
Scan ==
    /\ infoPc = "scan"
    /\ \/ /\ AtText
          /\ pcCnt' = pcCnt + 1 /\ uiLineSize' = uiLineSize + 1 /\ UNCHANGED infoPc
       \/ /\ ~AtText
          /\ infoPc' = "name" /\ UNCHANGED <<pcCnt, uiLineSize>>
    /\ UNCHANGED <<file, uri, pucHash, hash, iInfoResult>>

AlsoFull(n) == n <= UriSize - 1

\* Slash, name and terminator fit into acDataUri.
NameFits(n) == n < UriSize - 1

Name ==
    /\ infoPc = "name"
    /\ \/ /\ ~AtEnd /\ NameFits(uiLineSize)
          /\ uri' = SubSeq(file, 1, uiLineSize) /\ infoPc' = "skip" /\ UNCHANGED iInfoResult
       \/ /\ AtEnd \/ ~NameFits(uiLineSize)
          /\ Finish(FALSE) /\ UNCHANGED uri
    /\ UNCHANGED <<file, pcCnt, uiLineSize, pucHash, hash>>

\* Skip the newlines.
Skip ==
    /\ infoPc = "skip"
    /\ \/ AtNewline /\ pcCnt' = pcCnt + 1 /\ UNCHANGED infoPc
       \/ ~AtNewline /\ infoPc' = "room" /\ UNCHANGED pcCnt
    /\ UNCHANGED <<file, uiLineSize, uri, pucHash, hash, iInfoResult>>

\* Are there enough characters left?
Room == pcCnt + Digits < Len(file)

Clear ==
    /\ infoPc = "room"
    /\ pucHash' = 0 /\ hash' = [i \in 0..(HashSize - 1) |-> 0]
    /\ \/ Room /\ infoPc' = "digit" /\ uiLineSize' = 0 /\ UNCHANGED iInfoResult
       \/ ~Room /\ Finish(FALSE) /\ UNCHANGED uiLineSize
    /\ UNCHANGED <<file, pcCnt, uri>>

LowFirst(d) == d * (IF uiLineSize % 2 = 0 THEN 1 ELSE 16)

\* The digit at its place in the byte: uiShift alternates between 4 and 0.
Shifted(d) == d * (IF uiLineSize % 2 = 0 THEN 16 ELSE 1)

\* One round of the loop over the digits. The bits that are set were clear, so
\* the or is a sum.
Digit ==
    /\ infoPc = "digit"
    /\ LET c == file[pcCnt + uiLineSize + 1]
       IN  \/ /\ c \in Hex
              /\ hash' = [hash EXCEPT ![pucHash] = @ + Shifted(c)]
              /\ pucHash' = pucHash + (uiLineSize % 2)
              /\ uiLineSize' = uiLineSize + 1
              /\ infoPc' = IF uiLineSize' < Digits THEN "digit" ELSE "end"
           \/ /\ c \notin Hex
              /\ infoPc' = "end" /\ UNCHANGED <<hash, pucHash, uiLineSize>>
    /\ UNCHANGED <<file, pcCnt, uri, iInfoResult>>

\* Was the loop left at its end?
Complete == uiLineSize = Digits

InfoVerdict ==
    /\ infoPc = "end"
    /\ Finish(Complete)
    /\ UNCHANGED <<file, pcCnt, uiLineSize, uri, pucHash, hash>>

InfoNext == Scan \/ Name \/ Skip \/ Clear \/ Digit \/ InfoVerdict

InfoSpec == InfoInit /\ [][InfoNext]_infoVars

-----------------------------------------------------------------------------
\* The variables of parseInfoFile have their types; the bytes are bytes.
InfoTypeOK ==
    /\ file \in Seq(Chars) /\ infoPc \in {"scan", "name", "skip", "room", "digit", "end", "done"}
    /\ pcCnt \in 0..Len(file) /\ uiLineSize \in Nat /\ iInfoResult \in BOOLEAN
    /\ uri \in Seq(Chars) /\ pucHash \in 0..HashSize
    /\ hash \in [0..(HashSize - 1) -> 0..255]

\* parseInfoFile stays inside its buffers: slash, name and terminator inside
\* acDataUri, every digit read inside the file, every byte inside tHash.
InBounds ==
    /\ Len(uri) + 2 <= UriSize
    /\ infoPc = "digit" => pcCnt + uiLineSize < Len(file) /\ pucHash < HashSize

\* The reference: n characters of a name, newlines up to h, the digits.
IsName(f, n) == (\A i \in 1..n : f[i] # NL) /\ n < Len(f) /\ f[n + 1] = NL
IsGap(f, n, h) ==
    /\ n < h /\ \A i \in (n + 1)..h : f[i] = NL
    /\ h < Len(f) => f[h + 1] # NL
HoldsHash(f, h) == h + Digits <= Len(f) /\ \A i \in 1..Digits : f[h + i] \in Hex

\* A file the code accepts: the digits must not be the last characters.
Accepted(f, n, h) ==
    /\ IsName(f, n) /\ IsGap(f, n, h) /\ HoldsHash(f, h)
    /\ n <= UriSize - 2 /\ h + Digits < Len(f)

\* parseInfoFile accepts exactly the files of the reference definition, and
\* then the name is the first line and each byte is made of its two digits.
ParsesRight ==
    infoPc = "done" =>
        /\ iInfoResult <=> \E n, h \in 0..Len(file) : Accepted(file, n, h)
        /\ iInfoResult =>
              \E n, h \in 0..Len(file) :
                 /\ Accepted(file, n, h) /\ uri = SubSeq(file, 1, n)
                 /\ \A i \in 0..(HashSize - 1) :
                       hash[i] = 16 * file[h + 2 * i + 1] + file[h + 2 * i + 2]
=============================================================================
