------------------------------- MODULE MCWfp -------------------------------
(***************************************************************************)
(* Small instances of Wfp: two chip selects of one SPI unit and the SD/MMC *)
(* slot, devices of four bytes with erase blocks of two, images of up to   *)
(* two chunks (three in the chosen ones), whole or cut short anywhere.     *)
(***************************************************************************)
EXTENDS Wfp, Sequences, TLC

Spi0 == [bus |-> "SPI", unit |-> 0, cs |-> 0]
Spi1 == [bus |-> "SPI", unit |-> 0, cs |-> 1]
Sdio == [bus |-> "SDIO", unit |-> 0, cs |-> 0]
Sdi1 == [bus |-> "SDIO", unit |-> 1, cs |-> 0]
Par  == [bus |-> "ParFlash", unit |-> 0, cs |-> 0]

MCDevs == {Spi0, Spi1, Sdio, Sdi1, Par}
\* The second block is not erased, and the first one may be.
MCContents == {[a \in 0 .. 3 |-> IF a = 2 THEN Junk ELSE Erased],
               [a \in 0 .. 3 |-> Junk]}

Chunk(d, o, n) == [dev |-> d, off |-> o, n |-> n]

\* Where the i-th chunk of a list starts.
StartOf(cs, i) ==
    LET at[j \in 1 .. Len(cs) + 1] ==
            IF j = 1 THEN MagicSize ELSE at[j - 1] + HeaderSize + cs[j - 1].n
    IN  at[i]

Image(cs, cut) ==
    [magic |-> TRUE, size |-> StartOf(cs, Len(cs) + 1) - cut,
     hdr |-> [p \in {StartOf(cs, i) : i \in 1 .. Len(cs)} |->
                cs[CHOOSE i \in 1 .. Len(cs) : StartOf(cs, i) = p]]]

Chunks == {Chunk(d, o, n) : d \in {Spi0, Spi1, Sdio}, o \in {0, 1, 2}, n \in {1, 2}}
            \cup {Chunk(Spi0, 1, 0), Chunk(Sdi1, 3, 2), Chunk(Par, 0, 1)}

Cuts == {0, 1, 3, 14}

\* Every image of two chunks, whole; some of three; single chunks cut short;
\* one without the magic and one too small for it.
MCImages ==
    {Image(<<c, d>>, 0) : c \in Chunks, d \in Chunks}
      \cup {Image(<<Chunk(Spi0, 0, 1), c, Chunk(Spi0, 2, 2)>>, k) : c \in Chunks, k \in Cuts}
      \cup {Image(<<c>>, k) : c \in Chunks, k \in {1, 2}}
      \cup {[Image(<<>>, 0) EXCEPT !.magic = FALSE], Image(<<>>, 1), Image(<<>>, 0)}
=============================================================================
