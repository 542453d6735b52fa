-------------------------------- MODULE Wfp --------------------------------
(***************************************************************************)
(* processWfp and flashDataFile (src/wfp.c): the walk over a SWFP image    *)
(* that detects the device each chunk names and writes the chunk to it.    *)
(*                                                                         *)
(* An image is the headers at their byte positions, its size and whether   *)
(* it starts with the magic; the data byte at position k of the image is   *)
(* represented by k itself, so that a flash cell tells which image byte it *)
(* holds.  The flasher library is external: each call may fail, an erase   *)
(* may claim success and leave dirt, a failing write may have written part *)
(* of its range.                                                           *)
(*                                                                         *)
(* SameBusAndUnit, ShortTailIgnored and RecheckErasesAgain are faulty      *)
(* variants of the definitions that follow them; no action uses them.      *)
(***************************************************************************)
EXTENDS Integers

CONSTANTS
    Devs,        \* device names a chunk header can carry: [bus, unit, cs]
    FlashSize,   \* bytes of each flash device
    BlockSize,   \* bytes of an erase block
    Images,      \* the images the run flashes
    Contents     \* what a device may hold before flashing

MagicSize  == 4
HeaderSize == 11     \* bus, unit, cs, 4 bytes offset, 4 bytes size
HeaderNeed == 12     \* what the size check asks for

Erased == -1         \* an erased cell (0xff)
Junk   == -2         \* old data, or a write over something not erased
Cell   == Nat \cup {Erased, Junk}
Addr   == 0 .. FlashSize - 1
NoDev  == [bus |-> "none", unit |-> 0, cs |-> 0]

\* The device the library drives for a name: there is one SD/MMC slot, so
\* sdio_detect_wrap looks at neither unit nor chip select.
Phys(d) == IF d.bus = "SDIO" THEN [d EXCEPT !.unit = 0, !.cs = 0] ELSE d
PhysDevs == {Phys(d) : d \in Devs}

Headers == [dev: Devs, off: Addr, n: Nat]
Range(h) == {a \in Addr : h.off <= a /\ a < h.off + h.n}

\* spi_getEraseArea: the whole erase blocks that hold the range.
EraseArea(h) ==
    {a \in Addr : \E b \in Range(h) : a \div BlockSize = b \div BlockSize}
\* The cells that flashing a chunk may change.
Reach(h) == IF h.dev.bus = "SPI" THEN EraseArea(h) ELSE Range(h)

\* Chunks lie one behind the other from the magic on, a header is readable
\* wherever the walk can look for one, and no data size is so large that the
\* 32 bit pointer arithmetic wraps.
WellFormed(img) ==
    /\ img.size \in Nat /\ img.magic \in BOOLEAN
    /\ DOMAIN img.hdr \subseteq Nat
    /\ \A p \in DOMAIN img.hdr : img.hdr[p] \in Headers
    /\ img.size >= MagicSize + HeaderNeed => MagicSize \in DOMAIN img.hdr
    /\ \A p \in DOMAIN img.hdr :
          LET q == p + HeaderSize + img.hdr[p].n
          IN  /\ p >= MagicSize
              /\ q + HeaderNeed <= img.size => q \in DOMAIN img.hdr
              /\ \A r \in DOMAIN img.hdr : r > p => r >= q

ASSUME GeometryAssumption == FlashSize \in Nat /\ BlockSize \in Nat \ {0}
ASSUME DevAssumption ==
    /\ NoDev \notin Devs
    /\ \A d \in Devs : d = [bus |-> d.bus, unit |-> d.unit, cs |-> d.cs]
ASSUME ImageAssumption == \A img \in Images : WellFormed(img)
ASSUME ContentAssumption == Contents \subseteq [Addr -> {Erased, Junk}]

VARIABLES
    image,      \* pucWfpImage, sizWfpImage
    pc,         \* where the walk stands
    pos,        \* pucDataCnt as an offset into the image
    hdr,        \* the chunk header just read
    last,       \* uiLastBus, uiLastUnit, uiLastCs
    desc,       \* the physical device tDeviceDesc describes
    isff,       \* tReturnMessage.ul = 0xff
    result,     \* iResult
    flash,      \* the cells of every device
    flash0      \* what they held at the start (history)

vars == <<image, pc, pos, hdr, last, desc, isff, result, flash, flash0>>
still == <<image, flash0>>

Pcs == {"start", "loop", "detect", "area", "check", "erase", "recheck",
        "spi_flash", "sdio_write", "done"}

NoHdr == [dev |-> NoDev, off |-> 0, n |-> 0]

Init ==
    /\ image \in Images
    /\ pc = "start" /\ pos = 0 /\ hdr = NoHdr /\ last = NoDev /\ desc = NoDev
    /\ isff = FALSE /\ result = 0
    /\ flash \in [PhysDevs -> Contents] /\ flash0 = flash

Stop(r) == pc' = "done" /\ result' = r
Goto(l) == pc' = l /\ UNCHANGED result

CheckMagic ==
    /\ pc = "start"
    /\ IF image.size < MagicSize \/ ~image.magic
       THEN Stop(-1) /\ UNCHANGED pos
       ELSE Goto("loop") /\ pos' = MagicSize
    /\ UNCHANGED <<hdr, last, desc, isff, flash, still>>

EndOfImage ==
    /\ pc = "loop" /\ pos >= image.size
    /\ Stop(result)
    /\ UNCHANGED <<pos, hdr, last, desc, isff, flash, still>>

ShortTailIgnored ==
    /\ pc = "loop" /\ pos < image.size /\ pos + HeaderNeed > image.size
    /\ Stop(result)
    /\ UNCHANGED <<pos, hdr, last, desc, isff, flash, still>>

HeaderTooShort ==
    /\ pc = "loop" /\ pos < image.size /\ pos + HeaderNeed > image.size
    /\ Stop(-1)
    /\ UNCHANGED <<pos, hdr, last, desc, isff, flash, still>>

\* The first step of flashDataFile, by bus.
FlashEntry(bus) ==
    CASE bus = "SPI"  -> Goto("area")
      [] bus = "SDIO" -> Goto("sdio_write")
      [] OTHER        -> Stop(-1)

SameBusAndUnit(d) == last.bus = d.bus /\ last.unit = d.unit
SameAsLast(d) == last.bus = d.bus /\ last.unit = d.unit /\ last.cs = d.cs

ReadHeader ==
    /\ pc = "loop" /\ pos < image.size /\ pos + HeaderNeed <= image.size
    /\ LET h == image.hdr[pos]
       IN  /\ hdr' = h
           /\ pos' = pos + HeaderSize
           /\ IF pos + HeaderSize + h.n > image.size THEN Stop(-1)
              ELSE IF SameAsLast(h.dev) THEN FlashEntry(h.dev.bus)
              ELSE Goto("detect")
    /\ UNCHANGED <<last, desc, isff, flash, still>>

DetectDevice ==
    /\ pc = "detect"
    /\ \/ /\ hdr.dev.bus \in {"SPI", "SDIO"}
          /\ desc' = Phys(hdr.dev) /\ last' = hdr.dev
          /\ FlashEntry(hdr.dev.bus)
       \/ desc' = NoDev /\ Stop(-1) /\ UNCHANGED last
    /\ UNCHANGED <<pos, hdr, isff, flash, still>>

GetEraseArea ==
    /\ pc = "area"
    /\ \/ hdr.off + hdr.n <= FlashSize /\ Goto("check")
       \/ Stop(-1)
    /\ UNCHANGED <<pos, hdr, last, desc, isff, flash, still>>

\* spi_isErased over the aligned area of the current chunk.
AreaErased == \A a \in EraseArea(hdr) : flash[desc][a] = Erased

CheckErased ==
    /\ pc = "check"
    /\ \/ /\ isff' = AreaErased
          /\ Goto(IF AreaErased THEN "spi_flash" ELSE "erase")
       \/ Stop(-1) /\ UNCHANGED isff
    /\ UNCHANGED <<pos, hdr, last, desc, flash, still>>

\* Whether spi_erase succeeds or not, any part of the area may be left dirty.
EraseFlash ==
    /\ pc = "erase"
    /\ \E S \in SUBSET EraseArea(hdr) :
          flash' = [flash EXCEPT ![desc] =
                      [a \in Addr |-> IF a \in S THEN Erased ELSE @[a]]]
    /\ Goto("recheck") \/ Stop(-1)
    /\ UNCHANGED <<pos, hdr, last, desc, isff, still>>

RecheckErasesAgain ==
    /\ pc = "recheck"
    /\ isff' = AreaErased \/ UNCHANGED isff
    /\ Goto(IF isff' THEN "spi_flash" ELSE "erase")
    /\ UNCHANGED <<pos, hdr, last, desc, flash, still>>

\* The result of the second spi_isErased is not looked at: when the call fails
\* the return message still holds what the first call put there.
RecheckErased ==
    /\ pc = "recheck"
    /\ isff' = AreaErased \/ UNCHANGED isff
    /\ IF isff' THEN Goto("spi_flash") ELSE Stop(-1)
    /\ UNCHANGED <<pos, hdr, last, desc, flash, still>>

\* Image bytes pos.. written to the cells S of a device; programming can only
\* clear bits, so an SPI cell that is not erased turns to junk.
Program(content, S, overwrite) ==
    [a \in Addr |-> IF a \notin S THEN content[a]
                    ELSE IF overwrite \/ content[a] = Erased
                    THEN pos + (a - hdr.off) ELSE Junk]

WriteChunk(here, overwrite) ==
    /\ pc = here
    /\ \/ /\ hdr.off + hdr.n <= FlashSize
          /\ flash' = [flash EXCEPT ![desc] = Program(@, Range(hdr), overwrite)]
          /\ pos' = pos + hdr.n
          /\ pc' = "loop" /\ result' = 0
       \/ /\ \E S \in SUBSET Range(hdr) :
                flash' = [flash EXCEPT ![desc] = Program(@, S, overwrite)]
          /\ Stop(-1) /\ UNCHANGED pos
    /\ UNCHANGED <<hdr, last, desc, isff, still>>

SpiFlash  == WriteChunk("spi_flash", FALSE)
SdioWrite == WriteChunk("sdio_write", TRUE)

Next ==
    \/ CheckMagic \/ EndOfImage \/ HeaderTooShort \/ ReadHeader
    \/ DetectDevice \/ GetEraseArea \/ CheckErased \/ EraseFlash
    \/ RecheckErased \/ SpiFlash \/ SdioWrite

\* A library call returns, so the walk always takes its next step.
Spec == Init /\ [][Next]_vars /\ WF_vars(Next)
-----------------------------------------------------------------------------
\* The state of the walk keeps its type (the locals of processWfp).
TypeOK ==
    /\ WellFormed(image)
    /\ pc \in Pcs /\ pos \in Nat /\ result \in {0, -1} /\ isff \in BOOLEAN
    /\ hdr \in Headers \cup {NoHdr}
    /\ last \in Devs \cup {NoDev} /\ desc \in PhysDevs \cup {NoDev}
    /\ flash \in [PhysDevs -> [Addr -> Cell]]
    /\ flash0 \in [PhysDevs -> [Addr -> Cell]]

\* spi_flash is only ever called on a range that is really erased, although an
\* erase may lie and the result of the second erase check is ignored.
ProgramOnErased ==
    pc = "spi_flash" => \A a \in Range(hdr) : flash[desc][a] = Erased

\* A cell differs from what it held at the start only if a header that has been
\* read names its device and reaches it: reusing the last detected device never
\* sends a chunk to another device.
OnlyNamedCells ==
    \A d \in PhysDevs, a \in Addr : flash[d][a] # flash0[d][a] =>
        \E p \in DOMAIN image.hdr :
            /\ p < pos
            /\ Phys(image.hdr[p].dev) = d /\ a \in Reach(image.hdr[p])

\* No chunk reaches a cell that another chunk writes.
Disjoint(img) ==
    \A p, q \in DOMAIN img.hdr :
        p # q /\ Phys(img.hdr[p].dev) = Phys(img.hdr[q].dev)
          => Reach(img.hdr[p]) \cap Range(img.hdr[q]) = {}

OnDevice(p) ==
    LET h == image.hdr[p]
    IN  \A a \in Range(h) :
            flash[Phys(h.dev)][a] = p + HeaderSize + (a - h.off)

\* Every chunk the walk has passed is on the device its header names, byte for
\* byte, and stays there whatever fails later, when no two chunks share an
\* erase block.
PassedChunksOnDevice ==
    Disjoint(image) =>
        \A p \in DOMAIN image.hdr :
            p + HeaderSize + image.hdr[p].n <= pos => OnDevice(p)

\* Every chunk of the image is on the device its header names.
WholeImageOnDevice ==
    \A p \in DOMAIN image.hdr : p < image.size => OnDevice(p)

\* When processWfp returns 0 the whole image is on the devices, provided no two
\* chunks share an erase block.
DisjointFlashedComplete ==
    Disjoint(image) /\ pc = "done" /\ result = 0 => WholeImageOnDevice

\* processWfp returns.
Terminates == <>(pc = "done")
=============================================================================
