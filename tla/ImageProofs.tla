---------------------------- MODULE ImageProofs ----------------------------
(***************************************************************************)
(* Proofs about a flash image on its way to the devices: its download      *)
(* (HttpDownload, for any buffer size, timeout and response, and any       *)
(* segmentation of it) and its walk by the flasher (Wfp, for any devices,  *)
(* flash geometry and well-formed images of any length). The two share no  *)
(* state.                                                                  *)
(***************************************************************************)
EXTENDS Wfp, HttpDownload, TLAPS

-----------------------------------------------------------------------------
(* The flasher *)


Busy == {"detect", "area", "check", "erase", "recheck", "spi_flash", "sdio_write"}
SpiSteps == {"area", "check", "erase", "recheck", "spi_flash"}

Len(p) == HeaderSize + image.hdr[p].n

\* Every chunk in front of position q ends at q or before it.
PassedUpTo(q) == \A p \in DOMAIN image.hdr : p < q => p + Len(p) <= q

\* Where the walk stands in the image.
WalkInv ==
    /\ pc = "start" => pos = 0
    /\ pc = "loop" => /\ pos >= MagicSize
                      /\ pos + HeaderNeed <= image.size => pos \in DOMAIN image.hdr
                      /\ PassedUpTo(pos)
    /\ pc \in Busy =>
          LET cur == pos - HeaderSize
          IN  /\ cur \in DOMAIN image.hdr /\ hdr = image.hdr[cur]
              /\ PassedUpTo(cur)
    /\ pc # "done" => result = 0
    /\ pc = "done" /\ result = 0 => pos >= image.size /\ PassedUpTo(pos)

\* Which device the cached description stands for.
DeviceInv ==
    /\ pc # "done" /\ last # NoDev => desc = Phys(last)
    /\ pc \in SpiSteps => hdr.dev.bus = "SPI" /\ desc = Phys(hdr.dev)
    /\ pc = "sdio_write" => hdr.dev.bus = "SDIO" /\ desc = Phys(hdr.dev)

\* What the last erase check established.
ErasedInv ==
    /\ pc \in {"erase", "recheck"} => isff = FALSE
    /\ pc = "spi_flash" => AreaErased

IInv == TypeOK /\ WalkInv /\ DeviceInv /\ ErasedInv
-----------------------------------------------------------------------------
\* A chunk's range lies in its erase area.
LEMMA RangeInArea == \A h : Range(h) \subseteq EraseArea(h)
  BY DEF Range, EraseArea

\* Comparing bus, unit and chip select compares the whole device name.
LEMMA SameDev ==
  ASSUME NEW d \in Devs, last \in Devs \cup {NoDev}, SameAsLast(d)
  PROVE  last = d
<1>1. d = [bus |-> d.bus, unit |-> d.unit, cs |-> d.cs]
  BY DevAssumption
<1>2. last = [bus |-> last.bus, unit |-> last.unit, cs |-> last.cs]
  BY DevAssumption DEF NoDev
<1> QED BY <1>1, <1>2 DEF SameAsLast

\* The initial state satisfies the inductive invariant.
LEMMA InitInv == Init => IInv
<1> SUFFICES ASSUME Init PROVE IInv
  OBVIOUS
<1>1. WellFormed(image)
  BY ImageAssumption DEF Init
<1>2. flash \in [PhysDevs -> [Addr -> Cell]]
  BY ContentAssumption DEF Init, Cell
<1>3. flash0 = flash
  BY DEF Init
<1>4. TypeOK
  BY Zenon, <1>1, <1>2, <1>3 DEF Init, TypeOK, Pcs, NoHdr
<1>5. WalkInv /\ DeviceInv /\ ErasedInv
  BY DEF Init, WalkInv, DeviceInv, ErasedInv, Busy, SpiSteps
<1> QED BY <1>4, <1>5 DEF IInv

\* Programming and erasing keep the cells of a device cells.
LEMMA ProgramType ==
  ASSUME TypeOK, NEW c \in [Addr -> Cell], NEW S \in SUBSET Range(hdr),
         NEW ow \in BOOLEAN
  PROVE  Program(c, S, ow) \in [Addr -> Cell]
<1> SUFFICES ASSUME NEW a \in Addr
             PROVE  Program(c, S, ow)[a] \in Cell
  BY DEF Program
<1>1. a \in S => pos + (a - hdr.off) \in Nat
  BY GeometryAssumption DEF TypeOK, Range, Addr, Headers, NoHdr
<1> QED BY <1>1 DEF Program, Cell, Erased, Junk

\* The three steps that neither read a header nor touch a device.
LEMMA WalkSteps ==
  IInv /\ (CheckMagic \/ EndOfImage \/ HeaderTooShort) => IInv'
<1> SUFFICES ASSUME IInv, CheckMagic \/ EndOfImage \/ HeaderTooShort PROVE IInv'
  OBVIOUS
<1> USE DEF CheckMagic, EndOfImage, HeaderTooShort, Stop, Goto, still
<1>1. WellFormed(image) /\ image' = image
  BY DEF IInv, TypeOK
<1>2. image.size \in Nat /\ pos \in Nat
  BY <1>1 DEF IInv, TypeOK, WellFormed
<1>3. TypeOK'
  BY <1>1 DEF IInv, TypeOK, Pcs, MagicSize, WellFormed
<1>4. WalkInv'
  <2>1. CASE CheckMagic
    BY <1>1, <1>2, <2>1 DEF IInv, WalkInv, WellFormed, PassedUpTo, Len, Busy, MagicSize, HeaderNeed
  <2>2. CASE EndOfImage \/ HeaderTooShort
    BY <1>1, <1>2, <2>2 DEF IInv, WalkInv, PassedUpTo, Len, Busy
  <2> QED BY <2>1, <2>2
<1>5. DeviceInv' /\ ErasedInv'
  BY DEF IInv, DeviceInv, ErasedInv, SpiSteps
<1> QED BY <1>3, <1>4, <1>5 DEF IInv

\* Reading a header: the cached device is reused only if it is the one named.
LEMMA HeaderStep == IInv /\ ReadHeader => IInv'
<1> SUFFICES ASSUME IInv, ReadHeader PROVE IInv'
  OBVIOUS
<1> DEFINE h == image.hdr[pos]
<1> USE DEF Stop, Goto, still
<1>1. WellFormed(image) /\ image' = image /\ image.size \in Nat /\ pos \in Nat
  BY DEF IInv, TypeOK, ReadHeader, WellFormed
<1>2. pos \in DOMAIN image.hdr /\ h \in Headers /\ PassedUpTo(pos)
  BY <1>1 DEF IInv, WalkInv, ReadHeader, WellFormed
<1>3. hdr' = h /\ pos' = pos + HeaderSize /\ UNCHANGED <<last, desc, isff, flash, flash0>>
  BY DEF ReadHeader
<1>4. \/ pc' = "done" /\ result' = -1
      \/ /\ result' = result
         /\ \/ pc' = "detect"
            \/ SameAsLast(h.dev) /\ h.dev.bus = "SPI" /\ pc' = "area"
            \/ SameAsLast(h.dev) /\ h.dev.bus = "SDIO" /\ pc' = "sdio_write"
  BY DEF ReadHeader, FlashEntry
<1>5. TypeOK'
  BY <1>1, <1>2, <1>3, <1>4 DEF IInv, TypeOK, Pcs, HeaderSize
<1>6. WalkInv'
  BY <1>1, <1>2, <1>3, <1>4 DEF IInv, WalkInv, PassedUpTo, Len, Busy, ReadHeader, HeaderSize
<1>7. DeviceInv'
  <2>1. SameAsLast(h.dev) => last = h.dev /\ last # NoDev
    BY <1>2, SameDev, DevAssumption DEF IInv, TypeOK, Headers
  <2> QED BY <1>3, <1>4, <2>1 DEF IInv, DeviceInv, SpiSteps, ReadHeader
<1>8. ErasedInv'
  BY <1>4 DEF ErasedInv
<1> QED BY <1>5, <1>6, <1>7, <1>8 DEF IInv

\* The steps of flashDataFile and the device detection that change no cell.
LEMMA CheckSteps ==
  IInv /\ (DetectDevice \/ GetEraseArea \/ CheckErased \/ RecheckErased) => IInv'
<1> SUFFICES ASSUME IInv, DetectDevice \/ GetEraseArea \/ CheckErased \/ RecheckErased
             PROVE  IInv'
  OBVIOUS
<1> USE DEF Stop, Goto, still
<1>1. UNCHANGED <<image, pos, hdr, flash, flash0>> /\ pc \in Busy
  BY DEF DetectDevice, GetEraseArea, CheckErased, RecheckErased, Busy
<1>2. \/ pc' = "done" /\ result' = -1
      \/ pc' \in Busy /\ result' = result
  BY DEF DetectDevice, GetEraseArea, CheckErased, RecheckErased, Busy, FlashEntry
<1>3. hdr \in Headers
  BY <1>1 DEF IInv, TypeOK, WalkInv, WellFormed
<1>4. TypeOK'
  <2>1. last' \in Devs \cup {NoDev} /\ desc' \in PhysDevs \cup {NoDev}
    BY <1>3 DEF IInv, TypeOK, DetectDevice, GetEraseArea, CheckErased, RecheckErased, Headers, PhysDevs
  <2>2. isff' \in BOOLEAN
    BY Zenon DEF IInv, TypeOK, DetectDevice, GetEraseArea, CheckErased, RecheckErased, AreaErased
  <2> QED BY <1>1, <1>2, <2>1, <2>2 DEF IInv, TypeOK, Pcs, Busy
<1>5. WalkInv'
  BY <1>1, <1>2 DEF IInv, WalkInv, Busy, PassedUpTo, Len
<1>6. DeviceInv'
  <2>1. CASE DetectDevice
    BY <2>1, <1>1, <1>2, <1>3 DEF DetectDevice, FlashEntry, DeviceInv, SpiSteps, Busy
  <2>2. CASE GetEraseArea \/ CheckErased \/ RecheckErased
    BY <2>2, <1>1 DEF GetEraseArea, CheckErased, RecheckErased, IInv, DeviceInv, SpiSteps
  <2> QED BY <2>1, <2>2
<1>7. ErasedInv'
  <2>1. CASE DetectDevice \/ GetEraseArea
    BY <2>1 DEF DetectDevice, GetEraseArea, FlashEntry, ErasedInv
  <2>2. CASE CheckErased
    <3>1. AreaErased' = AreaErased
      BY <2>2, <1>1 DEF CheckErased, AreaErased
    <3>2. \/ pc' = "spi_flash" /\ AreaErased
          \/ pc' = "erase" /\ ~AreaErased /\ isff' = AreaErased
          \/ pc' = "done"
      BY <2>2 DEF CheckErased
    <3>3. isff' = AreaErased /\ ~AreaErased => isff' = FALSE
      BY Zenon DEF AreaErased
    <3> QED BY <3>1, <3>2, <3>3 DEF ErasedInv
  <2>3. CASE RecheckErased
    <3>1. AreaErased' = AreaErased
      BY <2>3, <1>1 DEF RecheckErased, AreaErased
    <3>2. isff = FALSE
      BY <2>3 DEF RecheckErased, IInv, ErasedInv
    <3>3. (pc' = "spi_flash" /\ AreaErased) \/ pc' = "done"
      BY <2>3, <3>2 DEF RecheckErased
    <3> QED BY <3>1, <3>3 DEF ErasedInv
  <2> QED BY <2>1, <2>2, <2>3
<1> QED BY <1>4, <1>5, <1>6, <1>7 DEF IInv

\* Erasing changes cells of the current device inside the erase area only.
LEMMA EraseStep == IInv /\ EraseFlash => IInv'
<1> SUFFICES ASSUME IInv, EraseFlash PROVE IInv'
  OBVIOUS
<1> USE DEF Stop, Goto, still
<1>1. UNCHANGED <<image, pos, hdr, last, desc, isff, flash0>> /\ pc = "erase"
  BY DEF EraseFlash
<1>2. (pc' = "recheck" /\ result' = result) \/ (pc' = "done" /\ result' = -1)
  BY DEF EraseFlash
<1>3. TypeOK'
  <2>1. PICK S \in SUBSET EraseArea(hdr) :
           flash' = [flash EXCEPT ![desc] =
                       [a \in Addr |-> IF a \in S THEN Erased ELSE @[a]]]
    BY Zenon DEF EraseFlash
  <2>2. flash' \in [PhysDevs -> [Addr -> Cell]]
    <3>1. flash \in [PhysDevs -> [Addr -> Cell]] /\ Erased \in Cell
      BY DEF IInv, TypeOK, Cell
    <3>2. ASSUME desc \in PhysDevs
          PROVE  [a \in Addr |-> IF a \in S THEN Erased ELSE flash[desc][a]] \in [Addr -> Cell]
      BY <3>1, <3>2
    <3> QED BY Zenon, <2>1, <3>1, <3>2
  <2> QED BY <1>1, <1>2, <2>2 DEF IInv, TypeOK, Pcs
<1>4. WalkInv'
  BY <1>1, <1>2 DEF IInv, WalkInv, Busy, PassedUpTo, Len
<1>5. DeviceInv' /\ ErasedInv'
  BY <1>1, <1>2 DEF IInv, DeviceInv, ErasedInv, SpiSteps
<1> QED BY <1>3, <1>4, <1>5 DEF IInv

\* Writing the chunk: behind it the walk stands in front of the next header.
LEMMA WriteStep == IInv /\ (SpiFlash \/ SdioWrite) => IInv'
<1> SUFFICES ASSUME IInv, NEW here \in {"spi_flash", "sdio_write"},
                    NEW ow \in BOOLEAN, WriteChunk(here, ow)
             PROVE  IInv'
  BY Zenon DEF SpiFlash, SdioWrite
<1> DEFINE cur == pos - HeaderSize
<1>1. UNCHANGED <<image, hdr, last, desc, isff, flash0>> /\ pc = here
  BY DEF WriteChunk, still
<1>2. \/ pc' = "loop" /\ result' = 0 /\ pos' = pos + hdr.n
      \/ pc' = "done" /\ result' = -1 /\ pos' = pos
  BY DEF WriteChunk, Stop
<1>3. /\ WellFormed(image) /\ pos \in Nat /\ image.size \in Nat
      /\ cur \in DOMAIN image.hdr /\ cur \in Nat /\ hdr = image.hdr[cur]
      /\ hdr \in Headers /\ hdr.n \in Nat /\ PassedUpTo(cur)
  BY <1>1 DEF IInv, TypeOK, WalkInv, Busy, WellFormed, Headers
<1>4. TypeOK'
  <2>1. PICK S \in SUBSET Range(hdr) :
           flash' = [flash EXCEPT ![desc] = Program(@, S, ow)]
    BY DEF WriteChunk
  <2>2. desc \in PhysDevs => Program(flash[desc], S, ow) \in [Addr -> Cell]
    BY Zenon, ProgramType DEF IInv, TypeOK
  <2>3. flash' \in [PhysDevs -> [Addr -> Cell]]
    BY Zenon, <2>1, <2>2 DEF IInv, TypeOK
  <2> QED BY <1>1, <1>2, <1>3, <2>3 DEF IInv, TypeOK, Pcs
<1>5. WalkInv'
  <2>1. CASE pc' = "done"
    BY <1>1, <1>2, <2>1 DEF WalkInv, Busy
  <2>2. CASE pc' = "loop"
    <3>1. pos' = cur + HeaderSize + image.hdr[cur].n
      BY <1>2, <1>3, <2>2 DEF HeaderSize
    <3>2. pos' \in Nat /\ pos' >= MagicSize
      BY <3>1, <1>3 DEF WellFormed, HeaderSize, MagicSize
    <3>3. pos' + HeaderNeed <= image.size => pos' \in DOMAIN image.hdr
      BY <3>1, <1>3 DEF WellFormed
    <3>4. ASSUME NEW p \in DOMAIN image.hdr, p < pos'
          PROVE  p + Len(p) <= pos'
      <4>1. p \in Nat /\ image.hdr[p].n \in Nat
        BY <1>3 DEF WellFormed, Headers
      <4>2. CASE p < cur
        <5>1. p + Len(p) <= cur
          BY <1>3, <4>2 DEF PassedUpTo
        <5> QED BY <5>1, <4>1, <3>1, <1>3 DEF Len, HeaderSize
      <4>3. CASE p = cur
        BY <4>1, <4>3, <3>1, <1>3 DEF Len, HeaderSize
      <4>4. ~ p > cur
        BY <3>1, <3>2, <3>4, <4>1, <1>3 DEF WellFormed
      <4>5. cur \in Nat
        BY <1>3
      <4> QED BY <4>1, <4>2, <4>3, <4>4, <4>5
    <3> QED BY <2>2, <3>2, <3>3, <3>4, <1>1, <1>2 DEF WalkInv, Busy, PassedUpTo, Len
  <2> QED BY <1>2, <2>1, <2>2
<1>6. DeviceInv' /\ ErasedInv'
  BY <1>1, <1>2 DEF IInv, DeviceInv, ErasedInv, SpiSteps
<1> QED BY <1>4, <1>5, <1>6 DEF IInv

\* Every step of the walk preserves the inductive invariant.
LEMMA StepInv == IInv /\ [Next]_vars => IInv'
<1>1. IInv /\ UNCHANGED vars => IInv'
  BY DEF vars, IInv, TypeOK, WalkInv, DeviceInv, ErasedInv, PassedUpTo, Len, AreaErased
<1> QED
  BY <1>1, WalkSteps, HeaderStep, CheckSteps, EraseStep, WriteStep DEF Next

\* A step changes cells only while a chunk is being flashed, and then only
\* cells the current chunk reaches, on the device it names.
LEMMA FlashFrame ==
  ASSUME IInv, [Next]_vars, NEW d \in PhysDevs, NEW a \in Addr,
         flash'[d][a] # flash[d][a]
  PROVE  pc \in Busy /\ d = Phys(hdr.dev) /\ a \in Reach(hdr)
<1>1. CASE EraseFlash
  <2>1. PICK S \in SUBSET EraseArea(hdr) :
           flash' = [flash EXCEPT ![desc] =
                       [b \in Addr |-> IF b \in S THEN Erased ELSE @[b]]]
    BY Zenon, <1>1 DEF EraseFlash
  <2>2. d = desc /\ a \in S
    BY <2>1 DEF IInv, TypeOK
  <2> QED BY <1>1, <2>2 DEF EraseFlash, IInv, DeviceInv, SpiSteps, Busy, Reach
<1>2. ASSUME NEW here \in {"spi_flash", "sdio_write"}, NEW ow \in BOOLEAN,
             WriteChunk(here, ow)
      PROVE  pc \in Busy /\ d = Phys(hdr.dev) /\ a \in Reach(hdr)
  <2>1. PICK S \in SUBSET Range(hdr) :
           flash' = [flash EXCEPT ![desc] = Program(@, S, ow)]
    BY <1>2 DEF WriteChunk
  <2>2. d = desc /\ a \in S
    BY <2>1 DEF IInv, TypeOK, Program
  <2> QED
    BY <1>2, <2>2, RangeInArea
    DEF WriteChunk, IInv, DeviceInv, SpiSteps, Busy, Reach
<1>3. flash' = flash \/ EraseFlash \/ SpiFlash \/ SdioWrite
  BY Zenon DEF Next, vars, CheckMagic, EndOfImage, HeaderTooShort, ReadHeader,
         DetectDevice, GetEraseArea, CheckErased, RecheckErased
<1> QED BY Zenon, <1>1, <1>2, <1>3 DEF SpiFlash, SdioWrite

\* The image and the initial contents never change; the walk goes forward.
LEMMA WalkFrame ==
  ASSUME IInv, [Next]_vars
  PROVE  image' = image /\ flash0' = flash0 /\ pos' \in Nat /\ pos' >= pos
<1>1. image' = image /\ flash0' = flash0
  BY Zenon DEF Next, vars, CheckMagic, EndOfImage, HeaderTooShort, ReadHeader, DetectDevice,
         GetEraseArea, CheckErased, EraseFlash, RecheckErased, SpiFlash, SdioWrite,
         WriteChunk, still
<1>2. pos \in Nat /\ pos' \in Nat
  BY StepInv DEF IInv, TypeOK
<1>3. pc \in Busy => hdr.n \in Nat
  BY DEF IInv, TypeOK, WalkInv, WellFormed, Headers
<1>4. \/ pos' = pos
      \/ pos' = pos + HeaderSize
      \/ pc \in Busy /\ pos' = pos + hdr.n
      \/ pc = "start" /\ pos' = MagicSize
  BY Zenon DEF Next, vars, CheckMagic, EndOfImage, HeaderTooShort, ReadHeader, DetectDevice,
         GetEraseArea, CheckErased, EraseFlash, RecheckErased, SpiFlash, SdioWrite,
         WriteChunk, Busy
<1>5. pc = "start" => pos = 0
  BY DEF IInv, WalkInv
<1> QED BY <1>1, <1>2, <1>3, <1>4, <1>5 DEF HeaderSize, MagicSize
-----------------------------------------------------------------------------
\* The walk state of processWfp keeps its type, and the device description is
\* that of a device, whatever the flash geometry, the image and the failures.
THEOREM WalkTyped == Spec => []TypeOK
<1>1. IInv => TypeOK
  BY DEF IInv
<1> QED BY <1>1, InitInv, StepInv, PTL DEF Spec

\* spi_flash is only called on an erased range.
THEOREM Correct == Spec => []ProgramOnErased
<1>1. IInv => ProgramOnErased
  BY RangeInArea DEF IInv, ErasedInv, ProgramOnErased, AreaErased
<1> QED BY <1>1, InitInv, StepInv, PTL DEF Spec

\* processWfp changes no cell that no header it has read reaches.
THEOREM NamedCellsOnly == Spec => []OnlyNamedCells
<1>1. Init => OnlyNamedCells
  BY DEF Init, OnlyNamedCells
<1>2. IInv /\ OnlyNamedCells /\ [Next]_vars => OnlyNamedCells'
  <2> SUFFICES ASSUME IInv, OnlyNamedCells, [Next]_vars,
                      NEW d \in PhysDevs, NEW a \in Addr, flash'[d][a] # flash0'[d][a]
               PROVE  \E p \in DOMAIN image.hdr :
                         /\ p < pos'
                         /\ Phys(image.hdr[p].dev) = d /\ a \in Reach(image.hdr[p])
    BY WalkFrame DEF OnlyNamedCells
  <2>1. flash0' = flash0 /\ pos' \in Nat /\ pos' >= pos /\ pos \in Nat
    BY WalkFrame DEF IInv, TypeOK
  <2>2. CASE flash'[d][a] = flash[d][a]
    <3>1. PICK p \in DOMAIN image.hdr :
             p < pos /\ Phys(image.hdr[p].dev) = d /\ a \in Reach(image.hdr[p])
      BY <2>1, <2>2 DEF OnlyNamedCells
    <3>2. p \in Nat
      BY DEF IInv, TypeOK, WellFormed
    <3> QED BY <2>1, <3>1, <3>2
  <2>3. CASE flash'[d][a] # flash[d][a]
    <3>1. pc \in Busy /\ d = Phys(hdr.dev) /\ a \in Reach(hdr)
      BY <2>3, FlashFrame
    <3>2. pos - HeaderSize \in DOMAIN image.hdr /\ hdr = image.hdr[pos - HeaderSize]
      BY <3>1 DEF IInv, WalkInv
    <3>3. pos - HeaderSize < pos'
      BY <2>1 DEF HeaderSize
    <3> QED BY <3>1, <3>2, <3>3
  <2> QED BY <2>2, <2>3
<1> QED BY <1>1, <1>2, InitInv, StepInv, PTL DEF Spec

\* A chunk that a step passes is on the device after the step.
LEMMA PassingStep ==
  ASSUME IInv, Next, NEW p \in DOMAIN image.hdr,
         p + Len(p) <= pos', ~ p + Len(p) <= pos
  PROVE  OnDevice(p)'
<1> DEFINE cur == pos - HeaderSize
<1>1. /\ WellFormed(image) /\ pos \in Nat /\ image' = image
      /\ p \in Nat /\ p >= MagicSize /\ image.hdr[p].n \in Nat
  BY WalkFrame DEF IInv, TypeOK, WellFormed, Headers
<1>2. ASSUME image.hdr[p].n = 0 PROVE OnDevice(p)'
  <2>1. Range(image.hdr[p]) = {}
    BY <1>1, <1>2, GeometryAssumption DEF Range, Addr, WellFormed, Headers
  <2> QED BY <1>1, <2>1 DEF OnDevice
<1>3. CASE CheckMagic
  BY <1>1, <1>3 DEF CheckMagic, IInv, WalkInv, Len, HeaderSize, MagicSize
<1>4. CASE ReadHeader
  <2>1. PassedUpTo(pos) /\ pos' = pos + HeaderSize
    BY <1>4 DEF ReadHeader, IInv, WalkInv
  <2>2. ~ p < pos
    BY <2>1 DEF PassedUpTo
  <2>3. image.hdr[p].n = 0
    BY <1>1, <2>1, <2>2 DEF Len, HeaderSize
  <2> QED BY <1>2, <2>3
<1>5. ASSUME NEW here \in {"spi_flash", "sdio_write"}, NEW ow \in BOOLEAN,
             WriteChunk(here, ow), here = "spi_flash" \/ ow
      PROVE  OnDevice(p)'
  <2>1. pc = here /\ hdr.off + hdr.n <= FlashSize /\ pos' = pos + hdr.n
        /\ flash' = [flash EXCEPT ![desc] = Program(@, Range(hdr), ow)]
    BY <1>1, <1>5 DEF WriteChunk
  <2>2. cur \in DOMAIN image.hdr /\ cur \in Nat /\ hdr = image.hdr[cur]
        /\ PassedUpTo(cur) /\ hdr \in Headers /\ desc = Phys(hdr.dev)
    BY <1>1, <2>1 DEF IInv, WalkInv, Busy, DeviceInv, SpiSteps, WellFormed
  <2>3. pos' = cur + Len(cur) /\ hdr.n \in Nat
    BY <1>1, <2>1, <2>2 DEF Len, Headers, HeaderSize
  <2>4. ~ p < cur
    BY <1>1, <2>2 DEF PassedUpTo, Len, HeaderSize
  <2>5. ~ p > cur
    BY <1>1, <2>2, <2>3 DEF WellFormed, Len, HeaderSize
  <2>6. p = cur
    BY <1>1, <2>2, <2>4, <2>5
  <2>7. ASSUME NEW a \in Range(hdr)
        PROVE  flash'[Phys(hdr.dev)][a] = p + HeaderSize + (a - hdr.off)
    <3>1. desc \in PhysDevs /\ a \in Addr
      BY <2>2 DEF Headers, PhysDevs, Range
    <3>2. ow \/ flash[desc][a] = Erased
      BY <1>5, <2>1, RangeInArea DEF IInv, ErasedInv, AreaErased
    <3>3. flash'[desc] = Program(flash[desc], Range(hdr), ow)
      BY <2>1, <3>1 DEF IInv, TypeOK
    <3>4. flash'[desc][a] = pos + (a - hdr.off)
      BY <3>1, <3>2, <3>3 DEF Program
    <3>5. pos = p + HeaderSize
      BY <1>1, <2>6 DEF HeaderSize
    <3> QED BY <3>4, <3>5, <2>2
  <2> QED BY <1>1, <2>2, <2>6, <2>7 DEF OnDevice
<1>6. CheckMagic \/ ReadHeader \/ SpiFlash \/ SdioWrite
  BY DEF Next, EndOfImage, HeaderTooShort, DetectDevice, GetEraseArea, CheckErased,
         EraseFlash, RecheckErased
<1> QED BY Zenon, <1>3, <1>4, <1>5, <1>6 DEF SpiFlash, SdioWrite

\* A chunk the walk has passed stays on the device.
LEMMA PassedStays ==
  ASSUME IInv, [Next]_vars, Disjoint(image), NEW p \in DOMAIN image.hdr,
         p + Len(p) <= pos, OnDevice(p)
  PROVE  OnDevice(p)'
<1> DEFINE h == image.hdr[p]
<1>1. /\ WellFormed(image) /\ pos \in Nat /\ image' = image
      /\ p \in Nat /\ h \in Headers /\ h.n \in Nat
  BY WalkFrame DEF IInv, TypeOK, WellFormed, Headers
<1>2. ASSUME NEW a \in Range(h)
      PROVE  flash'[Phys(h.dev)][a] = flash[Phys(h.dev)][a]
  <2>1. Phys(h.dev) \in PhysDevs /\ a \in Addr
    BY <1>1 DEF Headers, PhysDevs, Range
  <2> SUFFICES ASSUME flash'[Phys(h.dev)][a] # flash[Phys(h.dev)][a]
               PROVE  FALSE
    OBVIOUS
  <2>2. pc \in Busy /\ Phys(h.dev) = Phys(hdr.dev) /\ a \in Reach(hdr)
    BY <2>1, FlashFrame
  <2>3. pos - HeaderSize \in DOMAIN image.hdr /\ hdr = image.hdr[pos - HeaderSize]
    BY <2>2 DEF IInv, WalkInv
  <2>4. p = pos - HeaderSize
    BY Zenon, <2>2, <2>3, <1>2 DEF Disjoint
  <2>5. h.n = 0
    BY <1>1, <2>4 DEF Len, HeaderSize
  <2>6. h.off <= a /\ a < h.off + h.n
    BY Zenon, <1>2 DEF Range
  <2>7. h.off \in Int /\ a \in Int
    <3>1. h.off \in Addr /\ Addr \subseteq Int
      BY <1>1, GeometryAssumption DEF Headers, Addr
    <3> QED BY <2>1, <3>1, Zenon
  <2> HIDE DEF h
  <2> QED BY <2>5, <2>6, <2>7
<1> QED BY <1>1, <1>2 DEF OnDevice

\* Every chunk processWfp has passed is on the device its header names, byte
\* for byte, and stays there, when no two chunks share an erase block.
THEOREM PassedStayOnDevice == Spec => []PassedChunksOnDevice
<1>1. Init => PassedChunksOnDevice
  BY InitInv DEF Init, PassedChunksOnDevice, IInv, TypeOK, WellFormed, Headers, HeaderSize
<1>2. IInv /\ PassedChunksOnDevice /\ [Next]_vars => PassedChunksOnDevice'
  <2> SUFFICES ASSUME IInv, PassedChunksOnDevice, [Next]_vars, Disjoint(image),
                      NEW p \in DOMAIN image.hdr, p + Len(p) <= pos'
               PROVE  OnDevice(p)'
    <3> SUFFICES ASSUME IInv, PassedChunksOnDevice, [Next]_vars, Disjoint(image)',
                        NEW p \in DOMAIN image'.hdr,
                        p + HeaderSize + image'.hdr[p].n <= pos'
                 PROVE  OnDevice(p)'
      BY DEF PassedChunksOnDevice
    <3>1. image' = image
      BY WalkFrame
    <3>2. p \in Nat /\ image.hdr[p].n \in Nat
      BY <3>1 DEF IInv, TypeOK, WellFormed, Headers
    <3>3. p + Len(p) <= pos'
      BY <3>1, <3>2 DEF Len, HeaderSize
    <3>4. Disjoint(image)
      BY Zenon, <3>1 DEF Disjoint
    <3> QED BY <3>1, <3>3, <3>4
  <2>1. p \in Nat /\ image.hdr[p].n \in Nat /\ pos \in Nat
    BY DEF IInv, TypeOK, WellFormed, Headers
  <2>2. CASE p + Len(p) <= pos
    BY <2>1, <2>2, PassedStays DEF PassedChunksOnDevice, Len, HeaderSize
  <2>3. CASE ~ p + Len(p) <= pos
    <3>1. Next
      BY <2>3 DEF vars
    <3> QED BY <2>3, <3>1, PassingStep
  <2> QED BY <2>2, <2>3
<1> QED BY <1>1, <1>2, InitInv, StepInv, PTL DEF Spec

\* When processWfp returns 0 the whole image is on the devices.
THEOREM ImageOnDevice == Spec => []DisjointFlashedComplete
<1>1. IInv /\ PassedChunksOnDevice => DisjointFlashedComplete
  <2> SUFFICES ASSUME IInv, PassedChunksOnDevice, Disjoint(image), pc = "done",
                      result = 0, NEW p \in DOMAIN image.hdr, p < image.size
               PROVE  OnDevice(p)
    BY DEF DisjointFlashedComplete, WholeImageOnDevice
  <2>1. p \in Nat /\ image.hdr[p].n \in Nat /\ pos \in Nat /\ image.size \in Nat
    BY DEF IInv, TypeOK, WellFormed, Headers
  <2>2. p + Len(p) <= pos
    BY <2>1 DEF IInv, WalkInv, PassedUpTo
  <2> QED BY <2>1, <2>2 DEF PassedChunksOnDevice, Len, HeaderSize
<1> QED BY <1>1, PassedStayOnDevice, InitInv, StepInv, PTL DEF Spec

-----------------------------------------------------------------------------
(* The download *)

Good == dl.res = "OK" /\ dl.srv = OK

\* Who may still call whom.
FrameInv ==
    /\ app = "call" => /\ req = NoReq /\ pcb = "none" /\ ~dl.fin /\ idle = 0
                       /\ sent = 0 /\ iResult = -1 /\ ~refused /\ ~eof
    /\ req.alive => ~dl.fin /\ app \in {"wait", "hang"}
    /\ ~req.alive => pcb = "none"
    /\ dl.calls = IF dl.fin THEN 1 ELSE 0
    /\ refused => req.alive
    /\ eof => dl.fin
    /\ app # "return" => iResult = -1
    /\ app = "return" /\ dl.fin => (iResult = 0 <=> Good)
    /\ app = "return" /\ ~dl.fin => iResult = -1

\* What has been received, stored and hashed.
DataInv ==
    /\ ~refused => dl.cnt = sent /\ sha.fed = sent
    /\ req.alive => /\ req.rx = sent
                    /\ req.parse # "first_line" => req.status = resp.status
                    /\ req.parse = "rx_data" => req.clen = resp.clen
    /\ dl.fin /\ Good => resp.status = OK /\ resp.clen \in {NoLen, sent}
    /\ eof /\ resp.status = OK /\ resp.clen \in {NoLen, resp.len} => Good

\* The ticks left and the idle ticks make up the timeout.
TickInv ==
    /\ req.alive => idle + req.ticks >= PollTimeout
    /\ dl.fin /\ dl.res = "ERR_TIMEOUT" => idle >= PollTimeout

HttpInv == HttpTypeOK /\ resp \in Responses /\ FrameInv /\ DataInv /\ TickInv
-----------------------------------------------------------------------------
\* The two constant request states have the type of a request state.
LEMMA ReqTypes == NewReq \in ReqType /\ NoReq \in ReqType
<1>1. NewReq \in ReqType
  BY SizeAssumption DEF NewReq, ReqType, Parses
<1>2. NoReq \in ReqType
  BY Zenon, <1>1 DEF NoReq, ReqType
<1> QED BY <1>1, <1>2

\* The initial state satisfies the inductive invariant.
LEMMA HttpInitInv == HttpInit => HttpInv
<1> SUFFICES ASSUME HttpInit PROVE HttpInv
  OBVIOUS
<1>1. dl \in DlType
  BY SizeAssumption DEF HttpInit, DlType, Results
<1>2. HttpTypeOK
  BY Zenon, <1>1, ReqTypes DEF HttpInit, HttpTypeOK
<1>3. ~req.alive /\ ~dl.fin /\ dl.calls = 0 /\ dl.cnt = 0 /\ sha.fed = 0
  BY DEF HttpInit, NoReq, NewReq
<1>4. FrameInv
  BY <1>3 DEF HttpInit, FrameInv
<1>5. DataInv /\ TickInv
  BY <1>3 DEF HttpInit, DataInv, TickInv
<1> QED BY <1>2, <1>4, <1>5 DEF HttpInit, HttpInv

\* Starting the request.
LEMMA GetFileStep == HttpInv /\ GetFile => HttpInv'
<1> SUFFICES ASSUME HttpInv, GetFile PROVE HttpInv'
  OBVIOUS
<1>1. /\ app = "call" /\ UNCHANGED <<iResult, dl, sha, refused, resp, sent, idle, eof>>
      /\ \/ app' = "wait" /\ pcb' = "syn_sent" /\ req' = NewReq
         \/ app' = "return" /\ pcb' = pcb /\ req' = req
  BY DEF GetFile
<1>2. HttpTypeOK'
  BY <1>1, ReqTypes DEF HttpInv, HttpTypeOK
<1>3. /\ NewReq.alive /\ NewReq.rx = 0 /\ NewReq.parse = "first_line"
      /\ NewReq.ticks = PollTimeout /\ ~NoReq.alive
  BY DEF NewReq, NoReq
<1>4. FrameInv'
  BY <1>1, <1>3 DEF HttpInv, FrameInv, Good
<1>5. DataInv'
  BY <1>1, <1>3 DEF HttpInv, FrameInv, DataInv, Good
<1>6. TickInv'
  BY <1>1, <1>3, SizeAssumption DEF HttpInv, FrameInv, TickInv
<1> QED BY <1>1, <1>2, <1>4, <1>5, <1>6 DEF HttpInv

\* httpc_close from any callback, with a result r that is good only for a
\* complete response.
LEMMA CloseStep ==
  ASSUME HttpInv, Callback, NEW r \in Results, NEW srv \in Nat, Close(r, srv),
         UNCHANGED <<app, iResult, sha, refused, resp, sent>>,
         idle' \in Nat, eof' \in BOOLEAN,
         r = "OK" /\ srv = OK => resp.status = OK /\ resp.clen \in {NoLen, sent},
         eof' /\ resp.status = OK /\ resp.clen \in {NoLen, resp.len} => r = "OK" /\ srv = OK,
         r = "ERR_TIMEOUT" => idle' >= PollTimeout
  PROVE  HttpInv'
<1> USE DEF Close, ResultCallback, Callback
<1>0. dl' \in DlType
  <2>1. dl \in DlType /\ dl.cnt \in 0 .. BufferSize - 1 /\ dl.calls + 1 \in Nat
    BY DEF HttpInv, HttpTypeOK, DlType
  <2>2. dl' = [cnt |-> dl.cnt, fin |-> TRUE, res |-> r, srv |-> srv, calls |-> dl.calls + 1]
    BY Zenon, <2>1 DEF DlType
  <2> QED BY Zenon, <2>1, <2>2 DEF DlType
<1>1. HttpTypeOK'
  BY <1>0, ReqTypes DEF HttpInv, HttpTypeOK
<1>2. /\ dl'.fin /\ dl'.res = r /\ dl'.srv = srv /\ dl'.calls = dl.calls + 1 /\ dl'.cnt = dl.cnt
      /\ ~req'.alive /\ pcb' = "none"
  BY DEF HttpInv, HttpTypeOK, DlType, NoReq, NewReq
<1>3. FrameInv'
  BY <1>2 DEF HttpInv, FrameInv
<1>4. DataInv'
  BY <1>2 DEF HttpInv, DataInv, FrameInv, Good
<1>5. TickInv'
  BY <1>2 DEF TickInv
<1> QED BY <1>1, <1>3, <1>4, <1>5 DEF HttpInv

\* What one call of httpDownloadDataCallback does to the buffer and the hash.
LEMMA RecvCopies ==
  ASSUME HttpInv, NEW stage \in Parses, NEW n \in 0 .. resp.len, Recv(stage, n)
  PROVE  /\ dl' \in DlType
         /\ sha' \in [fed: Nat, dirty: BOOLEAN] /\ refused' \in BOOLEAN
         /\ dl'.fin = dl.fin /\ dl'.res = dl.res /\ dl'.srv = dl.srv /\ dl'.calls = dl.calls
         /\ ~refused' => dl'.cnt = dl.cnt + n /\ sha'.fed = sha.fed + n
         /\ dl'.cnt >= dl.cnt
<1>0. /\ dl \in DlType /\ dl.cnt \in 0 .. BufferSize - 1 /\ sha.fed \in Nat
      /\ sha.dirty \in BOOLEAN /\ n \in Nat /\ ~refused
  BY ResponseAssumption DEF HttpInv, HttpTypeOK, DlType, Recv, Callback
<1>1. CASE n = 0
  BY <1>0, <1>1, SizeAssumption DEF HttpInv, HttpTypeOK, Recv
<1>2. CASE n # 0
  <2> DEFINE Copy(cuts, al0, al, c) ==
           /\ dl' = [dl EXCEPT !.cnt = @ + c.copied]
           /\ sha' = [fed |-> sha.fed + c.hashed,
                      dirty |-> sha.dirty \/ AnyReadsPast(
                           {e \in cuts \cup {n} : e <= c.hashed}, al0, al)]
           /\ refused' = ~c.ok
  <2>1. PICK cuts \in SUBSET (1 .. n - 1), al \in Aligns, al0 \in 0 .. 3 :
           \E c \in CopyChunks(n, cuts \cup {n}) : Copy(cuts, al0, al, c)
    BY Zenon, <1>2, AlignAssumption DEF Recv
  <2>2. PICK c \in CopyChunks(n, cuts \cup {n}) : Copy(cuts, al0, al, c)
    BY Zenon, <2>1
  <2>3. /\ c.copied \in Nat /\ c.hashed \in Nat /\ dl.cnt + c.copied < BufferSize
        /\ c.ok \in BOOLEAN /\ (c.ok => c.copied = n /\ c.hashed = n)
    <3> HIDE DEF Copy
    <3>1. CASE n < BufferSize - dl.cnt
      <4>1. c = [copied |-> n, hashed |-> n, ok |-> TRUE]
        BY <3>1 DEF CopyChunks
      <4> QED BY <1>0, <3>1, <4>1, SizeAssumption
    <3>2. CASE ~(n < BufferSize - dl.cnt)
      <4>1. /\ c \in [copied: {0} \cup (cuts \cup {n}), hashed: cuts \cup {n}, ok: BOOLEAN]
            /\ ~c.ok /\ c.copied < BufferSize - dl.cnt
        BY <3>2 DEF CopyChunks
      <4>2. cuts \cup {n} \subseteq Nat /\ {0} \cup (cuts \cup {n}) \subseteq Nat
        BY <1>0
      <4>3. c.copied \in {0} \cup (cuts \cup {n}) /\ c.hashed \in cuts \cup {n}
        BY <4>1
      <4>4. c.copied \in Nat /\ c.hashed \in Nat
        BY <4>2, <4>3, Zenon
      <4> QED BY <4>1, <4>4, <1>0, SizeAssumption
    <3> QED BY <3>1, <3>2
  <2>4. (sha.dirty \/ AnyReadsPast({e \in cuts \cup {n} : e <= c.hashed}, al0, al)) \in BOOLEAN
    BY Zenon
  <2>5. /\ dl' \in DlType /\ dl'.cnt = dl.cnt + c.copied
        /\ dl'.fin = dl.fin /\ dl'.res = dl.res /\ dl'.srv = dl.srv /\ dl'.calls = dl.calls
    <3>1. dl' = [dl EXCEPT !.cnt = @ + c.copied]
      BY <2>2
    <3>2. dl.cnt + c.copied \in 0 .. BufferSize - 1
      BY <1>0, <2>3, SizeAssumption
    <3> QED BY <1>0, <3>1, <3>2 DEF DlType
  <2>6. sha' \in [fed: Nat, dirty: BOOLEAN] /\ sha'.fed = sha.fed + c.hashed
    BY <1>0, <2>2, <2>3, <2>4
  <2>7. refused' = ~c.ok
    BY <2>2
  <2>8. dl'.cnt >= dl.cnt
    BY <1>0, <2>3, <2>5, SizeAssumption
  <2> QED BY Zenon, <2>3, <2>5, <2>6, <2>7, <2>8
<1> QED BY <1>1, <1>2
\* Data arrives, in the headers or in the body.
LEMMA RecvStep ==
  ASSUME HttpInv, NEW stage \in Parses, NEW n \in 0 .. resp.len, Recv(stage, n)
  PROVE  HttpInv'
<1>1. /\ req.alive /\ ~dl.fin /\ ~refused /\ pcb = "established" /\ n \in Nat /\ ~eof
      /\ UNCHANGED <<app, iResult, pcb, resp, eof>> /\ req' = Parse(req, stage, n)
      /\ sent' = sent + n /\ idle' = (IF n > 0 THEN 0 ELSE idle)
  BY ResponseAssumption DEF HttpInv, FrameInv, Recv, Callback
<1>2. resp.status \in Nat /\ resp.clen \in Nat \cup {NoLen}
  BY ResponseAssumption DEF HttpInv
<1>3. req' = [alive |-> TRUE, parse |-> stage,
              status |-> IF stage # "first_line" THEN resp.status ELSE req.status,
              clen |-> IF stage = "rx_data" THEN resp.clen ELSE req.clen,
              rx |-> req.rx + n, ticks |-> IF n > 0 THEN PollTimeout ELSE req.ticks]
  BY Zenon, <1>1 DEF HttpInv, HttpTypeOK, ReqType, Parse
<1>4. req' \in ReqType
  <2>1. /\ req.status \in Nat /\ req.clen \in Nat \cup {NoLen} /\ req.rx + n \in Nat
        /\ req.ticks \in 1 .. PollTimeout /\ PollTimeout \in 1 .. PollTimeout
    BY <1>1, SizeAssumption DEF HttpInv, HttpTypeOK, ReqType
  <2> HIDE DEF NoLen
  <2> QED BY Zenon, <1>2, <1>3, <2>1 DEF ReqType
<1>5. /\ dl' \in DlType
      /\ sha' \in [fed: Nat, dirty: BOOLEAN] /\ refused' \in BOOLEAN
      /\ dl'.fin = dl.fin /\ dl'.res = dl.res /\ dl'.srv = dl.srv /\ dl'.calls = dl.calls
      /\ ~refused' => dl'.cnt = dl.cnt + n /\ sha'.fed = sha.fed + n
  BY Zenon, RecvCopies
<1>6. HttpTypeOK'
  BY <1>1, <1>4, <1>5 DEF HttpInv, HttpTypeOK
<1>7. FrameInv'
  <2>1. app \in {"wait", "hang"} /\ iResult = -1 /\ dl.calls = 0
    BY <1>1 DEF HttpInv, FrameInv
  <2>2. app' = app /\ iResult' = iResult /\ ~dl'.fin /\ dl'.calls = dl.calls /\ ~eof'
    BY Zenon, <1>1, <1>5
  <2>3. req'.alive
    BY <1>3
  <2> QED BY <2>1, <2>2, <2>3 DEF FrameInv
<1>8. DataInv'
  <2>1. ~dl'.fin /\ ~eof' /\ resp' = resp /\ sent' = sent + n
    BY Zenon, <1>1, <1>5
  <2>2. dl.cnt = sent /\ sha.fed = sent /\ req.rx = sent
    BY Zenon, <1>1 DEF HttpInv, DataInv
  <2>3. /\ req'.rx = sent + n /\ req'.parse = stage
        /\ stage # "first_line" => req'.status = resp.status
        /\ stage = "rx_data" => req'.clen = resp.clen
    BY <1>3, <2>2
  <2>4. ~refused' => dl'.cnt = sent + n /\ sha'.fed = sent + n
    BY Zenon, <1>5, <2>2
  <2> QED BY Zenon, <2>1, <2>3, <2>4 DEF DataInv
<1>9. TickInv'
  BY <1>1, <1>3, <1>5, SizeAssumption DEF HttpInv, HttpTypeOK, ReqType, TickInv
<1> QED BY <1>1, <1>6, <1>7, <1>8, <1>9 DEF HttpInv

\* Every other callback ends in httpc_close or changes little.
LEMMA CallbackStep ==
  HttpInv /\ (Connected \/ RecvFin \/ HashNeverReady \/ TcpErr \/ Tick) => HttpInv'
<1>1. ASSUME HttpInv, Connected PROVE HttpInv'
  <2>1. CASE Close("ERR_MEM", 0)
    BY Zenon, <1>1, <2>1, CloseStep DEF Connected, Results, HttpInv, HttpTypeOK, DataInv, OK, FrameInv,
                                 Callback
  <2>2. CASE ~Close("ERR_MEM", 0)
    <3>1. pcb' = "established" /\ req.alive
          /\ UNCHANGED <<app, req, dl, iResult, sha, refused, resp, sent, idle, eof>>
      BY <1>1, <2>2 DEF Connected, Callback
    <3> QED BY Zenon, <1>1, <3>1 DEF HttpInv, HttpTypeOK, FrameInv, DataInv, TickInv, Good
  <2> QED BY <2>1, <2>2
<1>2. ASSUME HttpInv, RecvFin PROVE HttpInv'
  <2>1. /\ Callback /\ req.alive /\ Close(ClosedResult(req), req.status)
        /\ UNCHANGED <<app, iResult, sha, refused, resp, sent, idle>>
        /\ eof' = (req.parse = "rx_data" /\ sent = resp.len)
    BY <1>2 DEF RecvFin, Callback
  <2>2. /\ ClosedResult(req) \in Results /\ ClosedResult(req) # "ERR_TIMEOUT"
        /\ req.status \in Nat /\ idle' \in Nat /\ eof' \in BOOLEAN
    BY <1>2, <2>1 DEF ClosedResult, Results, HttpInv, HttpTypeOK, ReqType
  <2>3. ClosedResult(req) = "OK" <=> req.parse = "rx_data" /\ req.clen \in {NoLen, req.rx}
    BY DEF ClosedResult
  <2>4. /\ req.rx = sent
        /\ req.parse = "rx_data" => req.clen = resp.clen /\ req.status = resp.status
    BY Zenon, <1>2, <2>1 DEF HttpInv, DataInv
  <2> QED BY Zenon, <1>2, <2>1, <2>2, <2>3, <2>4, CloseStep
<1>3. ASSUME HttpInv, HashNeverReady PROVE HttpInv'
  <2>1. app' = "hang" /\ req.alive
        /\ UNCHANGED <<iResult, pcb, req, dl, sha, refused, resp, sent, idle, eof>>
    BY <1>3 DEF HashNeverReady, Callback
  <2> QED BY Zenon, <1>3, <2>1 DEF HttpInv, HttpTypeOK, FrameInv, DataInv, TickInv, Good
<1>4. ASSUME HttpInv, TcpErr PROVE HttpInv'
  BY Zenon, <1>4, CloseStep DEF TcpErr, Results, HttpInv, HttpTypeOK, DataInv, OK, FrameInv, Callback
<1>5. ASSUME HttpInv, Tick PROVE HttpInv'
  <2>1. /\ Callback /\ req.alive /\ ~dl.fin /\ ~eof /\ idle' = idle + 1 /\ idle \in Nat
        /\ req.ticks \in 1 .. PollTimeout /\ idle + req.ticks >= PollTimeout
        /\ UNCHANGED <<app, iResult, sha, refused, resp, sent, eof>>
    BY <1>5 DEF Tick, Callback, HttpInv, HttpTypeOK, ReqType, TickInv, FrameInv
  <2>2. CASE req.ticks - 1 = 0
    <3>1. Close("ERR_TIMEOUT", 0) /\ "ERR_TIMEOUT" \in Results
      BY <1>5, <2>2 DEF Tick, Poll, Results
    <3>2. idle' \in Nat /\ idle' >= PollTimeout /\ eof' \in BOOLEAN /\ ~eof'
      BY <1>5, <2>1, <2>2, SizeAssumption DEF HttpInv, HttpTypeOK
    <3> QED BY <1>5, <2>1, <3>1, <3>2, CloseStep
  <2>3. CASE req.ticks - 1 # 0
    <3>1. req' = [req EXCEPT !.ticks = req.ticks - 1] /\ UNCHANGED <<pcb, dl>>
      BY <1>5, <2>3 DEF Tick, Poll
    <3>2. /\ req' \in ReqType /\ req'.ticks = req.ticks - 1 /\ req'.alive = req.alive
          /\ req'.rx = req.rx /\ req'.parse = req.parse /\ req'.status = req.status
          /\ req'.clen = req.clen
      <4>1. req.ticks - 1 \in 1 .. PollTimeout /\ req \in ReqType
        BY <1>5, <2>1, <2>3, SizeAssumption DEF HttpInv, HttpTypeOK
      <4> QED BY <3>1, <4>1 DEF ReqType
    <3>3. HttpTypeOK'
      BY <1>5, <2>1, <3>1, <3>2 DEF HttpInv, HttpTypeOK
    <3>4. FrameInv' /\ DataInv'
      BY <1>5, <2>1, <3>1, <3>2 DEF HttpInv, FrameInv, DataInv, Good
    <3>5. TickInv'
      BY <1>5, <2>1, <3>1, <3>2, SizeAssumption DEF TickInv
    <3> QED BY <1>5, <2>1, <3>3, <3>4, <3>5 DEF HttpInv
  <2> QED BY <2>2, <2>3
<1> QED BY <1>1, <1>2, <1>3, <1>4, <1>5

\* What the data and the ticks depend on.
LEMMA KeepData ==
  ASSUME DataInv, TickInv, UNCHANGED <<req, dl, sha, refused, resp, sent, idle, eof>>
  PROVE  DataInv' /\ TickInv'
<1>1. Good' = Good
  BY Zenon DEF Good
<1>2. DataInv'
  BY <1>1 DEF DataInv
<1>3. TickInv'
  BY Zenon DEF TickInv
<1> QED BY <1>2, <1>3

\* The assertion in pbuf_free, and the return of httpDownload.
LEMMA EndStep == HttpInv /\ (RedeliverRefused \/ Return) => HttpInv'
<1>1. ASSUME HttpInv, RedeliverRefused PROVE HttpInv'
  <2>1. app' = "hang" /\ req.alive
        /\ UNCHANGED <<iResult, pcb, req, dl, sha, refused, resp, sent, idle, eof>>
    BY <1>1 DEF RedeliverRefused, HttpInv, FrameInv
  <2>2. HttpTypeOK'
    BY <1>1, <2>1 DEF HttpInv, HttpTypeOK
  <2>3. FrameInv'
    BY <1>1, <2>1 DEF HttpInv, FrameInv
  <2>4. DataInv' /\ TickInv'
    BY <1>1, <2>1, KeepData DEF HttpInv
  <2> QED BY <1>1, <2>1, <2>2, <2>3, <2>4 DEF HttpInv
<1>2. ASSUME HttpInv, Return PROVE HttpInv'
  <2>1. /\ app' = "return" /\ dl.fin /\ ~req.alive
        /\ iResult' = IF Good THEN 0 ELSE -1
        /\ UNCHANGED <<pcb, req, dl, sha, refused, resp, sent, idle, eof>>
    BY <1>2 DEF Return, Good, HttpInv, FrameInv
  <2>2. HttpTypeOK'
    BY <1>2, <2>1 DEF HttpInv, HttpTypeOK
  <2>3. Good' = Good
    BY <2>1 DEF Good
  <2>4. FrameInv'
    BY <1>2, <2>1, <2>3 DEF HttpInv, FrameInv
  <2>5. DataInv' /\ TickInv'
    BY <1>2, <2>1, KeepData DEF HttpInv
  <2> QED BY <1>2, <2>1, <2>2, <2>4, <2>5 DEF HttpInv
<1> QED BY <1>1, <1>2

\* Every step preserves the inductive invariant.
LEMMA HttpStepInv == HttpInv /\ [HttpNext]_httpVars => HttpInv'
<1>1. ASSUME HttpInv, UNCHANGED httpVars PROVE HttpInv'
  <2>1. UNCHANGED <<app, iResult, pcb, req, dl, sha, refused, resp, sent, idle, eof>>
    BY <1>1 DEF httpVars
  <2>2. HttpTypeOK'
    BY <1>1, <2>1 DEF HttpInv, HttpTypeOK
  <2>3. FrameInv'
    <3>1. Good' = Good
      BY <2>1 DEF Good
    <3> QED BY <1>1, <2>1, <3>1 DEF HttpInv, FrameInv
  <2>4. DataInv' /\ TickInv'
    BY <1>1, <2>1, KeepData DEF HttpInv
  <2> QED BY <1>1, <2>1, <2>2, <2>3, <2>4 DEF HttpInv
<1>2. ASSUME HttpInv, \E stage \in Parses, n \in 0 .. resp.len : Recv(stage, n)
      PROVE  HttpInv'
  BY <1>2, RecvStep
<1> QED BY <1>1, <1>2, GetFileStep, CallbackStep, EndStep DEF HttpNext
-----------------------------------------------------------------------------
\* httpDownload never writes at or behind the end of its buffer.
THEOREM BufferBound == HttpSpec => []HttpTypeOK
<1>1. HttpInv => HttpTypeOK
  BY DEF HttpInv
<1> QED BY <1>1, HttpInitInv, HttpStepInv, PTL DEF HttpSpec

\* httpDownload never gets a callback once its result is there, whatever the
\* peer does.
THEOREM Frame == HttpSpec => []CallbacksFindFrame
<1>1. HttpInv => CallbacksFindFrame
  BY DEF HttpInv, FrameInv, CallbacksFindFrame
<1> QED BY <1>1, HttpInitInv, HttpStepInv, PTL DEF HttpSpec

\* httpDownload times out only after PollTimeout ticks without body data.
THEOREM Patience == HttpSpec => []TimeoutOnlyIfIdle
<1>1. HttpInv => TimeoutOnlyIfIdle
  BY DEF HttpInv, TickInv, TimeoutOnlyIfIdle
<1> QED BY <1>1, HttpInitInv, HttpStepInv, PTL DEF HttpSpec

\* httpDownload returns 0 only if everything it received is in the buffer and in
\* the hash.
THEOREM Outcome == HttpSpec => []SuccessIsComplete
<1>1. HttpInv => SuccessIsComplete
  BY DEF HttpInv, FrameInv, DataInv, SuccessIsComplete, Good
<1> QED BY <1>1, HttpInitInv, HttpStepInv, PTL DEF HttpSpec

\* httpDownload returns 0 for every complete response.
THEOREM NoFalseFailure == HttpSpec => []CompleteSucceeds
<1>1. HttpInv => CompleteSucceeds
  BY DEF HttpInv, FrameInv, DataInv, CompleteSucceeds, Good
<1> QED BY <1>1, HttpInitInv, HttpStepInv, PTL DEF HttpSpec

\* httpDownload is a Transfer: it starts as one, and each of its steps is one of
\* a Transfer or changes nothing that its caller sees.
THEOREM Implements == HttpSpec => IsTransfer
<1> USE DEF Status
<1>1. HttpInit => Download!Init
  BY DEF HttpInit, Download!Init
<1>2. ASSUME HttpInv, [HttpNext]_httpVars
      PROVE  [Download!Next]_<<Status, resp.clen, dl.cnt>>
  <2>1. CASE GetFile
    <3>1. /\ app = "call" /\ app' \in {"wait", "return"} /\ dl' = dl /\ resp' = resp
          /\ iResult' = iResult /\ iResult = -1 /\ resp.clen \in {r.clen : r \in Responses}
          /\ dl.cnt = 0
      BY <1>2, <2>1 DEF GetFile, HttpInv, FrameInv, DataInv
    <3> QED BY <3>1 DEF Download!Next, Download!Start
  <2>2. CASE Connected \/ RecvFin \/ TcpErr \/ Tick \/ UNCHANGED httpVars
    <3>1. app' = app /\ iResult' = iResult /\ resp' = resp
      BY <2>2 DEF Connected, RecvFin, TcpErr, Tick, httpVars
    <3>2. dl'.cnt = dl.cnt
      BY Zenon, <1>2, <2>2 DEF HttpInv, HttpTypeOK, DlType, Connected, RecvFin, TcpErr, Tick, Poll, Close,
                        ResultCallback, httpVars
    <3> QED BY <3>1, <3>2
  <2>3. CASE HashNeverReady \/ RedeliverRefused
    <3>1. app = "wait" /\ app' = "hang" /\ dl' = dl /\ resp' = resp
      BY <1>2, <2>3 DEF HashNeverReady, RedeliverRefused, Callback, HttpInv, FrameInv
    <3> QED BY <3>1
  <2>4. CASE Return
    <3>1. /\ app = "wait" /\ app' = "return" /\ dl.fin /\ dl' = dl /\ resp' = resp
          /\ iResult' = IF Good THEN 0 ELSE -1
      BY <2>4 DEF Return, Good
    <3>2. Good => resp.clen \in {NoLen, dl.cnt}
      BY <1>2, <3>1 DEF HttpInv, FrameInv, DataInv
    <3> QED BY <3>1, <3>2 DEF Download!Next, Download!Finish, Download!Unannounced, NoLen
  <2>5. ASSUME NEW stage \in Parses, NEW n \in 0 .. resp.len, Recv(stage, n)
        PROVE  [Download!Next]_<<Status, resp.clen, dl.cnt>>
    <3>1. app' = app /\ app = "wait" /\ iResult' = iResult /\ resp' = resp
      BY <1>2, <2>5 DEF Recv, Callback, HttpInv, FrameInv
    <3>2. dl.cnt \in Nat /\ dl'.cnt \in Nat /\ dl'.cnt >= dl.cnt
      BY <1>2, <2>5, RecvCopies, SizeAssumption DEF DlType, HttpInv, HttpTypeOK
    <3> QED BY <3>1, <3>2 DEF Download!Next, Download!Receive
  <2> QED BY <1>2, <2>1, <2>2, <2>3, <2>4, <2>5 DEF HttpNext
<1> QED BY <1>1, <1>2, HttpInitInv, HttpStepInv, PTL DEF HttpSpec, IsTransfer, Download!Spec
=============================================================================
