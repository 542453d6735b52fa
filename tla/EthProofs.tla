----------------------------- MODULE EthProofs -----------------------------
(***************************************************************************)
(* For every set of frame buffers the ROM may have set up, every address   *)
(* of the RAM and any number of frames: the conversions between addresses  *)
(* and FIFO elements are inverse to each other, the FIFOs only hold        *)
(* elements of the ROM's buffers, the program never reads an empty FIFO,   *)
(* no frame buffer is lost, and frames pass unchanged and in order.        *)
(***************************************************************************)
EXTENDS EthDriver, TLAPS

\* Quotient and remainder.
LEMMA DivMod ==
    ASSUME NEW d \in Nat, d > 0, NEW q \in Nat, NEW r \in 0..(d - 1)
    PROVE  (q * d + r) \div d = q /\ (q * d + r) % d = r
OBVIOUS

LEMMA Bits == Bit16 \in Nat /\ Bit16 > 0 /\ Bit22 = 64 * Bit16
<1>1. Bit22 = 64 * Bit16
  BY DEF Bit22
<1>2. Bit16 \in Nat /\ Bit16 > 0
  BY DEF Bit16
<1>3. QED
  BY <1>1, <1>2

\* The fields below the frame number do not disturb it.
LEMMA FrameOfElement ==
    ASSUME NEW f \in Segments \X Numbers, NEW k \in 0..(Bit16 - 1)
    PROVE  FrameOf(Element(f) + k) = f
<1> DEFINE s == f[1]
           n == f[2]
<1>1. s \in 0..3 /\ n \in 0..63 /\ f = <<s, n>>
  BY DEF Segments, Numbers
<1> HIDE DEF s, n
<1>2. /\ (s * Bit22 + n * Bit16 + k) \div Bit22 = s
      /\ (s * Bit22 + n * Bit16 + k) \div Bit16 = s * 64 + n
  <2>1. Bit16 \in Nat /\ Bit16 > 0 /\ Bit22 = 64 * Bit16
    BY Bits
  <2>2. k \in Nat /\ k <= Bit16 - 1
    BY <2>1
  <2>3. n * Bit16 <= 63 * Bit16 /\ n * Bit16 \in Nat
    BY <1>1, <2>1
  <2>4. n * Bit16 + k \in 0..(Bit22 - 1) /\ Bit22 \in Nat /\ Bit22 > 0
    BY <2>1, <2>2, <2>3
  <2>5. s * Bit22 + (n * Bit16 + k) = s * Bit22 + n * Bit16 + k
    BY <1>1, <2>1, <2>2
  <2>6. (s * Bit22 + (n * Bit16 + k)) \div Bit22 = s
    BY <1>1, <2>4, DivMod
  <2>7. (s * 64 + n) * Bit16 + k = s * Bit22 + n * Bit16 + k
    BY <1>1, <2>1, <2>2
  <2>8. ((s * 64 + n) * Bit16 + k) \div Bit16 = s * 64 + n
    <3>1. s * 64 + n \in Nat
      BY <1>1
    <3>2. QED
      BY Zenon, <2>1, <3>1, DivMod
  <2>9. QED
    BY <2>5, <2>6, <2>7, <2>8
<1>4. s % 16 = s /\ (s * 64 + n) % 64 = n
  BY <1>1
<1>5. QED
  BY <1>1, <1>2, <1>4 DEF FrameOf, Element, s, n

\* convert_packet_pointer_to_fifo_value finds the frame again that
\* convert_fifo_value_to_packet_pointer has turned into an address, without
\* the length and the flags.
THEOREM RoundTrip ==
    ASSUME NEW f \in Segments \X Numbers, NEW k \in 0..(Bit16 - 1)
    PROVE  FifoValue(Pointer(Element(f) + k)) = Element(f)
<1> DEFINE s == f[1]
           n == f[2]
           q == IntRam0 \div (4 * SegmentSize)
<1>1. s \in 0..3 /\ n \in 0..63
  BY DEF Segments, Numbers
<1>2. SegmentSize \in Nat /\ SegmentSize > 0 /\ 1560 * n \in 0..(SegmentSize - 1)
  <2>1. 1560 * n \in Nat /\ 1560 * n <= 1560 * 63
    BY <1>1
  <2>2. SegmentSize \in Nat /\ 1560 * 63 < SegmentSize
    BY DEF SegmentSize
  <2>3. QED
    BY <2>1, <2>2
<1>3. q \in Nat /\ IntRam0 = (4 * q) * SegmentSize
  BY RamAssumption DEF SegmentSize
<1> DEFINE p == (4 * q + s) * SegmentSize + 1560 * n
<1> HIDE DEF s, n, q
<1>4. Pointer(Element(f) + k) = p
  <2>1. IntRam0 + s * SegmentSize = (4 * q + s) * SegmentSize
    BY <1>1, <1>3 DEF SegmentSize
  <2>2. QED
    BY <2>1, FrameOfElement DEF Pointer, FrameBufSize, s, n
<1>5. p \div SegmentSize = 4 * q + s /\ p % SegmentSize = 1560 * n
  <2>1. 4 * q + s \in Nat
    BY <1>1, <1>3
  <2>2. QED
    BY <1>2, <2>1, DivMod
<1>6. (4 * q + s) % 4 = s
  BY <1>1, <1>3
<1>7. (1560 * n) \div 1560 = n
  BY <1>1
<1> HIDE DEF p
<1>8. QED
  BY <1>4, <1>5, <1>6, <1>7 DEF FifoValue, FrameBufSize, Element, s, n

-----------------------------------------------------------------------------
Indications == {v + RxLen : v \in Elements}
Requests == {v + SuppressCon + SendSize(TxLen) : v \in Elements}

LEMMA Offsets ==
    /\ RxLen \in 0..(Bit16 - 1)
    /\ SuppressCon + SendSize(TxLen) \in 0..(Bit16 - 1)
    /\ 0 \in 0..(Bit16 - 1)
<1>1. SendSize(TxLen) = 60
  BY DEF SendSize, TxLen
<1>2. SuppressCon \in Nat /\ SuppressCon + 60 <= Bit16 - 1 /\ 64 <= Bit16 - 1
  BY DEF SuppressCon, Bit16
<1>3. QED
  BY <1>1, <1>2, Bits DEF RxLen

LEMMA FramesOfRom == Frames \subseteq Segments \X Numbers
BY RomAssumption DEF Frames

LEMMA ElementsNat == \A f \in Segments \X Numbers : Element(f) \in Nat
<1> TAKE f \in Segments \X Numbers
<1>1. f[1] \in Nat /\ f[2] \in Nat
  BY DEF Segments, Numbers
<1>2. Bit22 \in Nat /\ Bit16 \in Nat
  BY Bits
<1>3. QED
  BY <1>1, <1>2 DEF Element

\* Whatever the flags and the length, an element of a FIFO leads to a buffer
\* and back to its element in the EMPTY FIFO.
LEMMA Elems ==
    ASSUME NEW v \in Elements, NEW k \in 0..(Bit16 - 1)
    PROVE  /\ Pointer(v + k) = Pointer(v) /\ Pointer(v) \in Buffers
           /\ Element(FrameOf(v + k)) = v
           /\ FifoValue(Pointer(v)) = v
<1>1. PICK f \in Segments \X Numbers : v = Element(f)
  BY FramesOfRom DEF Elements
<1>2. v + 0 = v
  BY <1>1, ElementsNat
<1>3. FrameOf(v + k) = f /\ FrameOf(v) = f
  BY <1>1, <1>2, FrameOfElement, Offsets
<1>4. FifoValue(Pointer(v)) = v
  BY <1>1, <1>2, RoundTrip, Offsets
<1>5. QED
  BY <1>1, <1>3, <1>4 DEF Pointer, Buffers

LEMMA Conversions ==
    /\ \A v \in Elements : Pointer(v) \in Buffers
    /\ \A v \in Indications : Pointer(v) \in Buffers
    /\ \A v \in Requests : Pointer(v) \in Buffers /\ Element(FrameOf(v)) \in Elements
    /\ \A v \in Elements : Element(FrameOf(v)) + RxLen \in Indications
    /\ \A b \in Buffers : /\ FifoValue(b) \in Elements
                         /\ FifoValue(b) + SuppressCon + SendSize(TxLen) \in Requests
<1>1. \A v \in Elements : Pointer(v) \in Buffers
  BY DEF Buffers
<1>2. \A v \in Indications : Pointer(v) \in Buffers
  BY Elems, Offsets DEF Indications
<1>3. ASSUME NEW v \in Requests
      PROVE  Pointer(v) \in Buffers /\ Element(FrameOf(v)) \in Elements
  <2>1. PICK e \in Elements : v = e + SuppressCon + SendSize(TxLen)
    BY DEF Requests
  <2>2. e \in Nat /\ SuppressCon \in Nat /\ SendSize(TxLen) \in Nat
    BY FramesOfRom, ElementsNat DEF Elements, SuppressCon, SendSize, TxLen
  <2>3. v = e + (SuppressCon + SendSize(TxLen))
    BY <2>1, <2>2
  <2>4. QED
    BY <2>3, Elems, Offsets
<1>4. \A v \in Elements : Element(FrameOf(v)) + RxLen \in Indications
  <2> TAKE v \in Elements
  <2>1. v + 0 = v
    BY FramesOfRom, ElementsNat DEF Elements
  <2>2. Element(FrameOf(v)) = v
    BY <2>1, Elems, Offsets
  <2>3. QED
    BY <2>2 DEF Indications
<1>5. \A b \in Buffers : FifoValue(b) \in Elements
  BY Elems, Offsets DEF Buffers
<1>6. QED
  BY <1>1, <1>2, <1>3, <1>4, <1>5 DEF Requests

-----------------------------------------------------------------------------
\* pvFrame is a buffer while the program holds it, netif_output runs below the
\* bound, and the pointers that were spare are still there but for the ones
\* the XC unit has taken since.
Running ==
    /\ pc \in {"alloc", "take", "release", "input", "out_copy", "out_send"} => pkt \in Buffers
    /\ pc \in {"out_check", "out_pop", "out_copy", "out_send"} => sent < MaxOut
    /\ pc = "out_pop" => Len(empty) + taken >= 2

\* TypeOK with names for the sets of elements.
Types ==
    /\ pc \in Pcs /\ ret \in {"idle", "timers"}
    /\ pkt \in Buffers \cup {None} /\ buf \in Int
    /\ linkUp \in BOOLEAN /\ phy \in BOOLEAN
    /\ empty \in Seq(Elements) /\ ind \in Seq(Indications) /\ req \in Seq(Requests)
    /\ taken \in 0..XcBurst
    /\ rx \in Elements \cup {None} /\ tx \in Requests \cup {None}
    /\ mem \in [Buffers -> Int]
    /\ arrived \in 0..MaxIn /\ got \in Int /\ sent \in 0..MaxOut /\ wire \in Int

IInv == Types /\ Running

LEMMA SameTypes == Types <=> TypeOK
BY DEF Types, TypeOK, Indications, Requests

LEMMA Popped ==
    ASSUME NEW S, NEW s \in Seq(S), s # <<>>
    PROVE  Head(s) \in S /\ Tail(s) \in Seq(S) /\ Len(Tail(s)) = Len(s) - 1 /\ Len(s) \in Nat
OBVIOUS

LEMMA Pushed ==
    ASSUME NEW S, NEW s \in Seq(S), NEW e \in S
    PROVE  Append(s, e) \in Seq(S) /\ Len(Append(s, e)) = Len(s) + 1 /\ Len(s) \in Nat
OBVIOUS

LEMMA InitInv == Init => IInv
<1> SUFFICES ASSUME Init PROVE IInv
  OBVIOUS
<1>1. empty \in Seq(Elements)
  <2>1. \A i \in 1..Len(Rom) : Element(Rom[i]) \in Elements
    BY DEF Elements, Frames
  <2>2. Len(Rom) \in Nat
    BY RomAssumption
  <2>3. QED
    BY <2>1, <2>2 DEF Init
<1>2. mem \in [Buffers -> Int]
  BY DEF Init
<1>3. QED
  BY <1>1, <1>2, BoundAssumption DEF Init, IInv, Types, Running, Pcs, XcBurst

LEMMA PollInv == IInv /\ Poll => IInv'
<1> SUFFICES ASSUME IInv, Poll PROVE IInv'
  OBVIOUS
<1>1. ind # <<>> => Pointer(Head(ind)) \in Buffers /\ Tail(ind) \in Seq(Indications)
  BY Zenon, Popped, Conversions DEF IInv, Types
<1>2. QED
  BY Zenon, <1>1, Conversions, BoundAssumption DEF IInv, Types, Running, Pcs, XcBurst, Poll, LinkStatus

LEMMA AllocInv == IInv /\ Alloc => IInv'
<1> SUFFICES ASSUME IInv, Alloc PROVE IInv'
  OBVIOUS
<1>1. pkt \in Buffers => Append(empty, FifoValue(pkt)) \in Seq(Elements)
  BY Pushed, Conversions DEF IInv, Types
<1>2. QED
  BY Zenon, <1>1, Conversions, BoundAssumption DEF IInv, Types, Running, Pcs, XcBurst, Alloc, NoPbuf, ReleasePacket

LEMMA ReleaseInv == IInv /\ Release => IInv'
<1> SUFFICES ASSUME IInv, Release PROVE IInv'
  OBVIOUS
<1>1. pkt \in Buffers => Append(empty, FifoValue(pkt)) \in Seq(Elements)
  BY Pushed, Conversions DEF IInv, Types
<1>2. QED
  BY <1>1, Conversions, BoundAssumption DEF IInv, Types, Running, Pcs, XcBurst, Release, ReleasePacket

LEMMA TakeInv == IInv /\ Take => IInv'
<1> SUFFICES ASSUME IInv, Take PROVE IInv'
  OBVIOUS
<1>1. QED
  BY Conversions, BoundAssumption DEF IInv, Types, Running, Pcs, XcBurst, Take

LEMMA InputInv == IInv /\ Input => IInv'
<1> SUFFICES ASSUME IInv, Input PROVE IInv'
  OBVIOUS
<1>1. QED
  BY Zenon, Conversions, BoundAssumption DEF IInv, Types, Running, Pcs, XcBurst, Input, Given

LEMMA TimersInv == IInv /\ Timers => IInv'
<1> SUFFICES ASSUME IInv, Timers PROVE IInv'
  OBVIOUS
<1>1. QED
  BY Zenon, Conversions, BoundAssumption DEF IInv, Types, Running, Pcs, XcBurst, Timers

LEMMA OutCheckInv == IInv /\ OutCheck => IInv'
<1> SUFFICES ASSUME IInv, OutCheck PROVE IInv'
  OBVIOUS
<1>1. Len(empty) \in Nat
  BY DEF IInv, Types
<1>2. Len(empty') + taken' >= 2 \/ pc' # "out_pop"
  BY <1>1 DEF IInv, Types, OutCheck, Spare
<1>3. pc' \in {"out_pop", "idle", "timers"} /\ taken' \in 0..XcBurst /\ sent' < MaxOut
  BY DEF IInv, Types, Running, OutCheck, XcBurst
<1>4. Types'
  BY <1>3 DEF IInv, Types, Pcs, OutCheck
<1>5. QED
  BY <1>2, <1>3, <1>4 DEF IInv, Running

LEMMA OutPopInv == IInv /\ OutPop => IInv'
<1> SUFFICES ASSUME IInv, OutPop PROVE IInv'
  OBVIOUS
<1>1. Pointer(Head(empty)) \in Buffers /\ Tail(empty) \in Seq(Elements)
  BY Zenon, Popped, Conversions DEF IInv, Types, OutPop
<1>2. QED
  BY <1>1, Conversions, BoundAssumption DEF IInv, Types, Running, Pcs, XcBurst, OutPop

LEMMA OutCopyInv == IInv /\ OutCopy => IInv'
<1> SUFFICES ASSUME IInv, OutCopy PROVE IInv'
  OBVIOUS
<1>1. QED
  BY Conversions, BoundAssumption DEF IInv, Types, Running, Pcs, XcBurst, OutCopy

LEMMA OutSendInv == IInv /\ OutSend => IInv'
<1> SUFFICES ASSUME IInv, OutSend PROVE IInv'
  OBVIOUS
<1>1. Append(req, FifoValue(pkt) + SuppressCon + SendSize(TxLen)) \in Seq(Requests)
  BY Pushed, Conversions DEF IInv, Types, Running, OutSend
<1>2. sent + 1 \in 0..MaxOut
  BY BoundAssumption DEF IInv, Types, Running, OutSend
<1>3. QED
  BY Zenon, <1>1, <1>2, Conversions, BoundAssumption DEF IInv, Types, Running, Pcs, XcBurst, OutSend

LEMMA XcTakeInv == IInv /\ XcTake => IInv'
<1> SUFFICES ASSUME IInv, XcTake PROVE IInv'
  OBVIOUS
<1>1. /\ Head(empty) \in Elements /\ Tail(empty) \in Seq(Elements)
      /\ Len(Tail(empty)) = Len(empty) - 1 /\ Len(empty) \in Nat
  BY Popped DEF IInv, Types, XcTake
<1>2. taken' \in 0..XcBurst /\ (pc = "out_pop" => Len(empty') + taken' >= 2)
  BY <1>1 DEF IInv, Types, Running, XcBurst, XcTake
<1>3. Types'
  BY <1>1, <1>2 DEF IInv, Types, XcTake
<1>4. QED
  BY <1>2, <1>3 DEF IInv, Running, XcTake

LEMMA XcReceiveInv == IInv /\ XcReceive => IInv'
<1> SUFFICES ASSUME IInv, XcReceive PROVE IInv'
  OBVIOUS
<1>1. rx # None => Append(ind, Element(FrameOf(rx)) + RxLen) \in Seq(Indications)
  BY Pushed, Conversions DEF IInv, Types
<1>2. arrived' \in 0..MaxIn
  BY BoundAssumption DEF IInv, Types, XcReceive
<1>3. mem' \in [Buffers -> Int]
  BY <1>2 DEF IInv, Types, XcReceive
<1>4. QED
  BY Zenon, <1>1, <1>2, <1>3, Conversions, BoundAssumption DEF IInv, Types, Running, Pcs, XcBurst, XcReceive

LEMMA XcSendInv == IInv /\ XcSend => IInv'
<1> SUFFICES ASSUME IInv, XcSend PROVE IInv'
  OBVIOUS
<1>1. Head(req) \in Requests /\ Tail(req) \in Seq(Requests)
  BY Popped DEF IInv, Types, XcSend
<1>2. QED
  BY Zenon, <1>1, Conversions, BoundAssumption DEF IInv, Types, Running, Pcs, XcBurst, XcSend

LEMMA XcSentInv == IInv /\ XcSent => IInv'
<1> SUFFICES ASSUME IInv, XcSent PROVE IInv'
  OBVIOUS
<1>1. /\ Append(empty, Element(FrameOf(tx))) \in Seq(Elements)
      /\ Len(Append(empty, Element(FrameOf(tx)))) = Len(empty) + 1 /\ Len(empty) \in Nat
  BY Pushed, Conversions DEF IInv, Types, XcSent
<1>2. -mem[Pointer(tx)] \in Int
  BY Conversions DEF IInv, Types, XcSent
<1>3. pc = "out_pop" => Len(empty') + taken' >= 2
  BY <1>1 DEF IInv, Types, Running, XcBurst, XcSent
<1>4. Types'
  BY <1>1, <1>2 DEF IInv, Types, XcSent
<1>5. QED
  BY <1>3, <1>4 DEF IInv, Running, XcSent

LEMMA PhyLinkInv == IInv /\ PhyLink => IInv'
<1> SUFFICES ASSUME IInv, PhyLink PROVE IInv'
  OBVIOUS
<1>1. QED
  BY Conversions, BoundAssumption DEF IInv, Types, Running, Pcs, XcBurst, PhyLink

LEMMA StepInv == IInv /\ [Next]_vars => IInv'
<1>1. IInv /\ UNCHANGED vars => IInv'
  BY DEF IInv, Types, Running, vars
<1>2. QED
  BY <1>1, PollInv, AllocInv, TakeInv, ReleaseInv, InputInv, TimersInv, OutCheckInv,
     OutPopInv, OutCopyInv, OutSendInv, XcTakeInv, XcReceiveInv, XcSendInv, XcSentInv,
     PhyLinkInv DEF Next, Cpu, Xc

\* The FIFOs and the XC unit hold elements of the ROM's buffers, whatever the
\* driver converts to and fro.
THEOREM Typed == Spec => []TypeOK
<1>1. IInv => TypeOK
  BY SameTypes DEF IInv
<1>2. QED
  BY <1>1, InitInv, StepInv, PTL DEF Spec

\* drv_eth_xc_get_empty_packet never reads an empty FIFO.
THEOREM NeverPopsEmpty == Spec => []NoPopOnEmpty
<1>1. IInv => NoPopOnEmpty
  BY DEF IInv, Types, Running, NoPopOnEmpty, XcBurst
<1>2. QED
  BY <1>1, InitInv, StepInv, PTL DEF Spec

-----------------------------------------------------------------------------
(* No frame buffer is lost: taking an element from a FIFO and giving it     *)
(* away moves one pointer from one place to another.                        *)

Ptrs(s) == {Pointer(s[i]) : i \in 1..Len(s)}
One(v) == IF v = None THEN {} ELSE {Pointer(v)}
Count(v) == IF v = None THEN 0 ELSE 1
Holding == pc \in {"alloc", "take", "release", "out_copy", "out_send"}
InHand == IF Holding THEN {pkt} ELSE {}
InHands == IF Holding THEN 1 ELSE 0

\* FramesConserved, place by place.
Conserved ==
    /\ Len(empty) + Len(ind) + Len(req) + Count(rx) + Count(tx) + InHands = Len(Rom)
    /\ Ptrs(empty) \cup Ptrs(ind) \cup Ptrs(req) \cup One(rx) \cup One(tx) \cup InHand = Buffers

LEMMA PtrsTail ==
    ASSUME NEW S, NEW s \in Seq(S), s # <<>>
    PROVE  Ptrs(s) = {Pointer(Head(s))} \cup Ptrs(Tail(s))
<1>1. Len(s) \in Nat /\ Len(s) >= 1 /\ Head(s) = s[1] /\ Len(Tail(s)) = Len(s) - 1
  OBVIOUS
<1>2. \A i \in 1..Len(Tail(s)) : Tail(s)[i] = s[i + 1] /\ i + 1 \in 1..Len(s)
  BY <1>1
<1>3. \A i \in 1..Len(s) : i = 1 \/ (i - 1 \in 1..Len(Tail(s)) /\ s[i] = Tail(s)[i - 1])
  BY <1>1
<1>4. Ptrs(s) \subseteq {Pointer(Head(s))} \cup Ptrs(Tail(s))
  BY Zenon, <1>1, <1>3 DEF Ptrs
<1>5. {Pointer(Head(s))} \cup Ptrs(Tail(s)) \subseteq Ptrs(s)
  BY <1>1, <1>2 DEF Ptrs
<1>6. QED
  BY <1>4, <1>5

LEMMA PtrsAppend ==
    ASSUME NEW S, NEW s \in Seq(S), NEW e \in S
    PROVE  Ptrs(Append(s, e)) = Ptrs(s) \cup {Pointer(e)}
<1> DEFINE t == Append(s, e)
<1>1. /\ Len(s) \in Nat /\ Len(t) = Len(s) + 1 /\ t[Len(s) + 1] = e
      /\ \A i \in 1..Len(s) : t[i] = s[i]
  OBVIOUS
<1> HIDE DEF t
<1>2. \A i \in 1..Len(t) : i \in 1..Len(s) \/ i = Len(s) + 1
  BY <1>1
<1>3. (1..Len(s)) \subseteq 1..Len(t) /\ Len(s) + 1 \in 1..Len(t)
  BY <1>1
<1>4. Ptrs(t) = Ptrs(s) \cup {Pointer(e)}
  BY <1>1, <1>2, <1>3 DEF Ptrs
<1>5. QED
  BY <1>4 DEF t

LEMMA PtrsConcat ==
    ASSUME NEW S, NEW s \in Seq(S), NEW t \in Seq(S)
    PROVE  /\ s \o t \in Seq(S) /\ Len(s \o t) = Len(s) + Len(t)
           /\ Ptrs(s \o t) = Ptrs(s) \cup Ptrs(t)
<1> DEFINE u == s \o t
<1>1. /\ Len(s) \in Nat /\ Len(t) \in Nat /\ u \in Seq(S) /\ Len(u) = Len(s) + Len(t)
      /\ \A i \in 1..Len(s) : u[i] = s[i]
      /\ \A i \in 1..Len(u) : i > Len(s) => u[i] = t[i - Len(s)]
  OBVIOUS
<1> HIDE DEF u
<1>2. \A i \in 1..Len(u) : i \in 1..Len(s) \/ (i > Len(s) /\ i - Len(s) \in 1..Len(t))
  BY <1>1
<1>3. \A i \in 1..Len(t) : /\ i + Len(s) \in 1..Len(u) /\ i + Len(s) > Len(s)
                           /\ (i + Len(s)) - Len(s) = i
  BY <1>1
<1>4. \A i \in 1..Len(t) : u[i + Len(s)] = t[i]
  BY <1>1, <1>3
<1>5. (1..Len(s)) \subseteq 1..Len(u)
  BY <1>1
<1>6. Ptrs(u) \subseteq Ptrs(s) \cup Ptrs(t)
  BY Zenon, <1>1, <1>2 DEF Ptrs
<1>7. Ptrs(s) \cup Ptrs(t) \subseteq Ptrs(u)
  BY Zenon, <1>1, <1>3, <1>4, <1>5 DEF Ptrs
<1>8. QED
  BY <1>1, <1>6, <1>7 DEF u

\* What is given away is the element of the buffer that was held.
LEMMA GivenAway ==
    /\ \A b \in Buffers : /\ Pointer(FifoValue(b)) = b
                         /\ Pointer(FifoValue(b) + SuppressCon + SendSize(TxLen)) = b
    /\ \A v \in Elements : Pointer(Element(FrameOf(v)) + RxLen) = Pointer(v)
    /\ \A v \in Requests : Pointer(Element(FrameOf(v))) = Pointer(v)
<1>0. /\ SuppressCon \in Nat /\ SendSize(TxLen) \in Nat
      /\ \A v \in Elements : v \in Nat /\ v + 0 = v
  BY FramesOfRom, ElementsNat DEF Elements, SuppressCon, SendSize, TxLen
<1>1. \A v \in Elements : v + SuppressCon + SendSize(TxLen) = v + (SuppressCon + SendSize(TxLen))
  BY <1>0
<1>2. ASSUME NEW b \in Buffers
      PROVE  /\ Pointer(FifoValue(b)) = b
             /\ Pointer(FifoValue(b) + SuppressCon + SendSize(TxLen)) = b
  <2>1. PICK v \in Elements : b = Pointer(v)
    BY DEF Buffers
  <2>2. FifoValue(b) = v
    BY <2>1, Elems, Offsets
  <2>3. Pointer(v + (SuppressCon + SendSize(TxLen))) = Pointer(v)
    BY Elems, Offsets
  <2>4. QED
    BY <1>1, <2>1, <2>2, <2>3
<1>3. ASSUME NEW v \in Elements
      PROVE  Pointer(Element(FrameOf(v)) + RxLen) = Pointer(v)
  <2>1. Element(FrameOf(v)) = v
    BY <1>0, Elems, Offsets
  <2>2. QED
    BY <2>1, Elems, Offsets
<1>4. ASSUME NEW v \in Requests
      PROVE  Pointer(Element(FrameOf(v))) = Pointer(v)
  <2>1. PICK e \in Elements : v = e + (SuppressCon + SendSize(TxLen))
    BY <1>1 DEF Requests
  <2>2. QED
    BY <2>1, Elems, Offsets
<1>5. QED
  BY <1>2, <1>3, <1>4

LEMMA ConservedInit == Init => Conserved
<1> SUFFICES ASSUME Init PROVE Conserved
  OBVIOUS
<1>1. Len(Rom) \in Nat /\ Len(empty) = Len(Rom) /\ \A i \in 1..Len(Rom) : empty[i] = Element(Rom[i])
  BY RomAssumption DEF Init
<1>2. Ptrs(empty) = Buffers
  BY <1>1 DEF Ptrs, Buffers, Elements, Frames
<1>3. ind = <<>> /\ req = <<>> /\ rx = None /\ tx = None /\ ~Holding
  BY DEF Init, Holding
<1>4. Ptrs(<<>>) = {}
  BY SMTT(30) DEF Ptrs
<1>5. QED
  BY <1>1, <1>2, <1>3, <1>4 DEF Conserved, One, Count, InHand, InHands

LEMMA ConservedStep == IInv /\ Conserved /\ [Next]_vars => Conserved'
<1> SUFFICES ASSUME IInv, Conserved, [Next]_vars PROVE Conserved'
  OBVIOUS
<1> USE DEF Conserved, One, Count, Holding, InHand, InHands
<1>0. /\ empty \in Seq(Elements) /\ ind \in Seq(Indications) /\ req \in Seq(Requests)
      /\ Len(empty) \in Nat /\ Len(ind) \in Nat /\ Len(req) \in Nat
      /\ rx \in Elements \cup {None} /\ tx \in Requests \cup {None}
      /\ None \notin Elements /\ None \notin Requests
  <2>1. \A v \in Elements : v \in Nat
    BY FramesOfRom, ElementsNat DEF Elements
  <2>2. \A v \in Requests : v \in Nat
    BY <2>1 DEF Requests, SuppressCon, SendSize, TxLen
  <2>3. QED
    BY <2>1, <2>2 DEF IInv, Types, None
<1>1. ASSUME empty # <<>>
      PROVE  Ptrs(empty) = {Pointer(Head(empty))} \cup Ptrs(Tail(empty)) /\ Len(Tail(empty)) = Len(empty) - 1
             /\ Head(empty) \in Elements
  BY <1>0, <1>1, PtrsTail, Popped
<1>2. CASE Poll
  <2>1. CASE ind' = ind
    BY <1>2, <2>1 DEF Poll
  <2>2. CASE ind # <<>> /\ ind' = Tail(ind) /\ pkt' = Pointer(Head(ind)) /\ pc' = "alloc"
    <3>1. Ptrs(ind) = {pkt'} \cup Ptrs(ind') /\ Len(ind') = Len(ind) - 1
      BY <1>0, <2>2, PtrsTail, Popped
    <3>2. UNCHANGED <<empty, req, rx, tx>> /\ pc = "idle"
      BY <1>2 DEF Poll
    <3>3. QED
      BY <1>0, <2>2, <3>1, <3>2
  <2>3. QED
    BY <1>2, <2>1, <2>2 DEF Poll
<1>3. CASE (Alloc /\ pc' = "timers") \/ Release
  <2>1. /\ pkt \in Buffers /\ empty' = Append(empty, FifoValue(pkt))
        /\ UNCHANGED <<ind, req, rx, tx, pkt>> /\ pc \in {"alloc", "release"} /\ pc' \in {"timers", "input"}
    BY <1>3 DEF Alloc, NoPbuf, Release, ReleasePacket, IInv, Running
  <2>2. FifoValue(pkt) \in Elements /\ Pointer(FifoValue(pkt)) = pkt
    BY <2>1, Conversions, GivenAway
  <2>3. Ptrs(empty') = Ptrs(empty) \cup {pkt} /\ Len(empty') = Len(empty) + 1
    BY <1>0, <2>1, <2>2, PtrsAppend, Pushed
  <2>4. InHand = {pkt} /\ InHands = 1 /\ InHand' = {} /\ InHands' = 0
    BY <2>1
  <2>5. Ptrs(req') = Ptrs(req) /\ Ptrs(ind') = Ptrs(ind)
    BY <2>1 DEF Ptrs
  <2> HIDE DEF InHand, InHands, Holding
  <2>6. QED
    BY <1>0, <2>1, <2>3, <2>4, <2>5
<1>4. CASE (Alloc /\ pc' # "timers") \/ Take \/ Input \/ Timers \/ OutCheck \/ OutCopy \/ PhyLink
           \/ UNCHANGED vars
  <2>1. UNCHANGED <<empty, ind, req, rx, tx, pkt>> /\ Holding' = Holding
    BY <1>4 DEF Alloc, Take, Input, Timers, OutCheck, OutCopy, PhyLink, vars, IInv, Types
  <2>2. QED
    BY SMTT(30), <2>1
<1>5. CASE OutPop
  <2>1. /\ empty # <<>> /\ empty' = Tail(empty) /\ pkt' = Pointer(Head(empty))
        /\ UNCHANGED <<ind, req, rx, tx>> /\ pc = "out_pop" /\ pc' = "out_copy"
    BY <1>5 DEF OutPop
  <2>2. QED
    BY <1>0, <1>1, <2>1
<1>6. CASE OutSend
  <2> DEFINE v == FifoValue(pkt) + SuppressCon + SendSize(TxLen)
  <2>1. /\ pkt \in Buffers /\ req' = Append(req, v) /\ UNCHANGED <<empty, ind, rx, tx, pkt>>
        /\ pc = "out_send" /\ pc' \in {"idle", "timers"}
    BY <1>6 DEF OutSend, IInv, Types, Running
  <2>2. v \in Requests /\ Pointer(v) = pkt
    BY <2>1, Conversions, GivenAway
  <2> HIDE DEF v
  <2>3. Ptrs(req') = Ptrs(req) \cup {pkt} /\ Len(req') = Len(req) + 1
    BY <1>0, <2>1, <2>2, PtrsAppend, Pushed
  <2>4. InHand = {pkt} /\ InHands = 1 /\ InHand' = {} /\ InHands' = 0
    BY <2>1
  <2>5. Ptrs(empty') = Ptrs(empty) /\ Ptrs(ind') = Ptrs(ind)
    BY <2>1 DEF Ptrs
  <2> HIDE DEF InHand, InHands, Holding
  <2>6. QED
    BY <1>0, <2>1, <2>3, <2>4, <2>5
<1>7. CASE XcTake
  <2>1. /\ empty # <<>> /\ empty' = Tail(empty) /\ rx = None /\ rx' = Head(empty)
        /\ UNCHANGED <<ind, req, tx, pkt, pc>>
    BY <1>7 DEF XcTake
  <2>2. rx' # None
    BY <1>0, <1>1, <2>1
  <2>3. QED
    BY <1>0, <1>1, <2>1, <2>2
<1>8. CASE XcReceive
  <2>1. UNCHANGED <<empty, req, tx, pkt, pc>>
    BY <1>8 DEF XcReceive
  <2>2. CASE rx = None
    BY <1>8, <2>1, <2>2 DEF XcReceive
  <2>3. CASE rx # None
    <3> DEFINE v == Element(FrameOf(rx)) + RxLen
    <3>1. ind' = Append(ind, v) /\ rx' = None /\ rx \in Elements
      BY <1>0, <1>8, <2>3 DEF XcReceive
    <3>2. v \in Indications /\ Pointer(v) = Pointer(rx)
      BY <3>1, Conversions, GivenAway
    <3> HIDE DEF v
    <3>3. Ptrs(ind') = Ptrs(ind) \cup {Pointer(rx)} /\ Len(ind') = Len(ind) + 1
      BY <1>0, <3>1, <3>2, PtrsAppend, Pushed
    <3>4. QED
      BY <1>0, <2>1, <2>3, <3>1, <3>3
  <2>4. QED
    BY <2>2, <2>3
<1>9. CASE XcSend
  <2>1. /\ req # <<>> /\ req' = Tail(req) /\ tx = None /\ tx' = Head(req)
        /\ UNCHANGED <<empty, ind, rx, pkt, pc>>
    BY <1>9 DEF XcSend
  <2>2. /\ Ptrs(req) = {Pointer(Head(req))} \cup Ptrs(Tail(req))
        /\ Len(Tail(req)) = Len(req) - 1 /\ Head(req) \in Requests
    BY <1>0, <2>1, PtrsTail, Popped
  <2>3. One(tx) = {} /\ Count(tx) = 0 /\ One(tx)' = {Pointer(Head(req))} /\ Count(tx)' = 1
    BY <1>0, <2>1, <2>2
  <2>4. UNCHANGED <<One(rx), Count(rx), InHand, InHands, Ptrs(empty), Ptrs(ind), Len(empty), Len(ind)>>
    BY <2>1 DEF Ptrs
  <2>5. Ptrs(req) = One(tx)' \cup Ptrs(req') /\ Len(req') = Len(req) - 1
    BY <2>1, <2>2, <2>3
  <2>6. Count(rx) \in Nat /\ InHands \in Nat
    OBVIOUS
  <2> HIDE DEF InHand, InHands, Holding, One, Count
  <2>7. QED
    BY <1>0, <2>3, <2>4, <2>5, <2>6
<1>10. CASE XcSent
  <2> DEFINE v == Element(FrameOf(tx))
  <2>1. /\ tx # None /\ tx' = None /\ tx \in Requests /\ empty' = Append(empty, v)
        /\ UNCHANGED <<ind, req, rx, pkt, pc>>
    BY <1>0, <1>10 DEF XcSent
  <2>2. v \in Elements /\ Pointer(v) = Pointer(tx)
    BY <2>1, Conversions, GivenAway
  <2> HIDE DEF v
  <2>3. Ptrs(empty') = Ptrs(empty) \cup {Pointer(tx)} /\ Len(empty') = Len(empty) + 1
    BY <1>0, <2>1, <2>2, PtrsAppend, Pushed
  <2>4. QED
    BY <1>0, <2>1, <2>3
<1>11. QED
  BY <1>2, <1>3, <1>4, <1>5, <1>6, <1>7, <1>8, <1>9, <1>10 DEF Next, Cpu, Xc

LEMMA ConcatOne ==
    ASSUME NEW S, NEW s \in Seq(S), NEW x
    PROVE  /\ Len(s \o <<x>>) = Len(s) + 1 /\ (s \o <<x>>)[Len(s) + 1] = x
           /\ \A i \in 1..Len(s) : (s \o <<x>>)[i] = s[i]
OBVIOUS

\* The sequence of all places counts and contains what the places do.
LEMMA PlacesFacts == IInv /\ Conserved => FramesConserved
<1> SUFFICES ASSUME IInv, Conserved PROVE FramesConserved
  OBVIOUS
<1> DEFINE All == Elements \cup Indications \cup Requests
           a == empty \o ind
           b == a \o req
           c == b \o Busy(rx)
           s == c \o Busy(tx)
           p == [i \in 1..Len(s) |-> Pointer(s[i])]
<1>1. /\ empty \in Seq(All) /\ ind \in Seq(All) /\ req \in Seq(All)
      /\ Busy(rx) \in Seq(All) /\ Busy(tx) \in Seq(All)
  <2>1. \A v \in All : <<v>> \in Seq(All)
    OBVIOUS
  <2>2. <<>> \in Seq(All)
    OBVIOUS
  <2>3. empty \in Seq(All) /\ ind \in Seq(All) /\ req \in Seq(All)
    BY DEF IInv, Types
  <2>4. rx \in All \cup {None} /\ tx \in All \cup {None}
    BY DEF IInv, Types
  <2> HIDE DEF All
  <2>5. QED
    BY <2>1, <2>2, <2>3, <2>4 DEF Busy
<1>2. /\ Len(Busy(rx)) = Count(rx) /\ Ptrs(Busy(rx)) = One(rx)
      /\ Len(Busy(tx)) = Count(tx) /\ Ptrs(Busy(tx)) = One(tx)
  BY DEF Busy, Count, One, Ptrs
<1> HIDE DEF All, a, b, c, s, p
<1>3. a \in Seq(All) /\ Len(a) = Len(empty) + Len(ind) /\ Ptrs(a) = Ptrs(empty) \cup Ptrs(ind)
  BY <1>1, PtrsConcat DEF a
<1>4. b \in Seq(All) /\ Len(b) = Len(a) + Len(req) /\ Ptrs(b) = Ptrs(a) \cup Ptrs(req)
  <2>1. a \in Seq(All) /\ req \in Seq(All)
    BY <1>1, <1>3
  <2>2. QED
    BY <2>1, PtrsConcat DEF b
<1>5. c \in Seq(All) /\ Len(c) = Len(b) + Count(rx) /\ Ptrs(c) = Ptrs(b) \cup One(rx)
  <2>1. b \in Seq(All) /\ Busy(rx) \in Seq(All)
    BY <1>1, <1>4
  <2>2. QED
    BY <2>1, <1>2, PtrsConcat DEF c
<1>6. s \in Seq(All) /\ Len(s) = Len(c) + Count(tx) /\ Ptrs(s) = Ptrs(c) \cup One(tx)
  <2>1. c \in Seq(All) /\ Busy(tx) \in Seq(All)
    BY <1>1, <1>5
  <2>2. QED
    BY <2>1, <1>2, PtrsConcat DEF s
<1>7. /\ Len(s) \in Nat /\ Len(p) = Len(s) /\ p \in Seq(Ptrs(s))
      /\ {p[i] : i \in 1..Len(p)} = Ptrs(s)
  <2>1. Len(s) \in Nat
    BY <1>6
  <2>2. \A i \in 1..Len(s) : Pointer(s[i]) \in Ptrs(s)
    BY DEF Ptrs
  <2>3. p \in Seq(Ptrs(s)) /\ Len(p) = Len(s)
    BY <2>1, <2>2 DEF p
  <2>4. {p[i] : i \in 1..Len(p)} = Ptrs(s)
    BY <2>1, <2>3 DEF Ptrs, p
  <2>5. QED
    BY <2>1, <2>3, <2>4
<1>8. Places = p \o Held
  BY DEF Places, p, s, c, b, a
<1>9. Len(s) + InHands = Len(Rom) /\ Ptrs(s) \cup InHand = Buffers
  <2>1. Len(empty) \in Nat /\ Len(ind) \in Nat /\ Len(req) \in Nat
    BY DEF IInv, Types
  <2>2. QED
    BY <1>3, <1>4, <1>5, <1>6, <2>1 DEF Conserved, Count, InHands
<1>10. CASE ~Holding
  <2>1. Held = <<>> /\ Places = p
    BY SMTT(30), <1>7, <1>8, <1>10 DEF Held, Holding
  <2>2. QED
    BY <1>7, <1>9, <1>10, <2>1 DEF FramesConserved, InHand, InHands
<1>11. CASE Holding
  <2>1. Held = <<pkt>>
    BY <1>11 DEF Held, Holding
  <2>2. /\ Len(Places) = Len(p) + 1 /\ Places[Len(p) + 1] = pkt
        /\ \A i \in 1..Len(p) : Places[i] = p[i]
    <3>1. p \in Seq(Ptrs(s))
      BY <1>7
    <3>2. Places = p \o <<pkt>>
      BY Zenon, <1>8, <2>1
    <3>3. QED
      BY <3>1, <3>2, ConcatOne
  <2>3. \A i \in 1..Len(Places) : i \in 1..Len(p) \/ i = Len(p) + 1
    BY <1>7, <2>2
  <2>4. (1..Len(p)) \subseteq 1..Len(Places) /\ Len(p) + 1 \in 1..Len(Places)
    BY <1>7, <2>2
  <2>5. {Places[i] : i \in 1..Len(Places)} = {p[i] : i \in 1..Len(p)} \cup {pkt}
    BY <2>2, <2>3, <2>4
  <2>6. QED
    BY Zenon, <1>7, <1>9, <1>11, <2>2, <2>5 DEF FramesConserved, InHand, InHands
<1>12. QED
  BY <1>10, <1>11

\* However program and XC unit work beside each other, every frame buffer of the
\* ROM is in one of the FIFOs, with the XC unit or in pvFrame, and only once.
THEOREM NoFrameLost == Spec => []FramesConserved
<1>1. QED
  BY InitInv, StepInv, ConservedInit, ConservedStep, PlacesFacts, PTL DEF Spec

-----------------------------------------------------------------------------
(* Frames keep their contents: a frame buffer in one place is in no other,  *)
(* so nobody writes to it but the one who has it.                           *)

Once(s) == \A i, j \in 1..Len(s) : Pointer(s[i]) = Pointer(s[j]) => i = j

\* No buffer is in two of the sets.
Disjoint(A, B, C, D, E, F) ==
    /\ A \cap (B \cup C \cup D \cup E \cup F) = {}
    /\ B \cap (C \cup D \cup E \cup F) = {}
    /\ C \cap (D \cup E \cup F) = {}
    /\ D \cap (E \cup F) = {}
    /\ E \cap F = {}

Apart ==
    /\ Once(empty) /\ Once(ind) /\ Once(req)
    /\ Disjoint(Ptrs(empty), Ptrs(ind), Ptrs(req), One(rx), One(tx), InHand)

\* What is in the i-th buffer of a FIFO.
Content(s, i) == mem[Pointer(s[i])]

\* n is a frame that has arrived, and that is behind the one lwIP was given
\* last and before those in IND_LO.
Fresh(n) == n > got /\ n <= arrived /\ \A i \in 1..Len(ind) : n < Content(ind, i)

\* Received frames wait in the order of their arrival, behind the one in the
\* hands of network_cyclic_process.
Receiving ==
    /\ 0 <= got /\ got <= arrived
    /\ \A i \in 1..Len(ind) : Content(ind, i) > got /\ Content(ind, i) <= arrived
    /\ \A i, j \in 1..Len(ind) : i < j => Content(ind, i) < Content(ind, j)
    /\ pc \in {"alloc", "take"} => Fresh(mem[pkt])
    /\ pc \in {"release", "input"} => Fresh(buf)

\* The frames to send are in REQ_LO in the order of the calls of netif_output.
Sending ==
    /\ wire >= 0 /\ sent = wire + Count(tx) + Len(req)
    /\ tx # None => mem[Pointer(tx)] = -(wire + 1)
    /\ \A i \in 1..Len(req) : Content(req, i) = -(wire + Count(tx) + i)
    /\ pc = "out_send" => mem[pkt] = -(sent + 1)

LEMMA OnceTail ==
    ASSUME NEW S, NEW s \in Seq(S), s # <<>>, Once(s)
    PROVE  Once(Tail(s)) /\ Pointer(Head(s)) \notin Ptrs(Tail(s))
<1>1. Len(s) \in Nat /\ Len(s) >= 1 /\ Head(s) = s[1] /\ Len(Tail(s)) = Len(s) - 1
  OBVIOUS
<1>2. \A i \in 1..Len(Tail(s)) : Tail(s)[i] = s[i + 1] /\ i + 1 \in 1..Len(s) /\ i + 1 # 1
  BY <1>1
<1>3. 1 \in 1..Len(s)
  BY <1>1
<1>4. ASSUME NEW i \in 1..Len(Tail(s)), NEW j \in 1..Len(Tail(s)),
             Pointer(Tail(s)[i]) = Pointer(Tail(s)[j])
      PROVE  i = j
  <2>1. i + 1 = j + 1
    BY <1>2, <1>4 DEF Once
  <2>2. QED
    BY <1>1, <2>1
<1>5. Pointer(Head(s)) \notin Ptrs(Tail(s))
  BY <1>1, <1>2, <1>3 DEF Once, Ptrs
<1>6. QED
  BY <1>4, <1>5 DEF Once

LEMMA OnceAppend ==
    ASSUME NEW S, NEW s \in Seq(S), NEW e \in S, Once(s), Pointer(e) \notin Ptrs(s)
    PROVE  Once(Append(s, e))
<1> DEFINE t == Append(s, e)
<1>1. /\ Len(s) \in Nat /\ Len(t) = Len(s) + 1 /\ t[Len(s) + 1] = e
      /\ \A i \in 1..Len(s) : t[i] = s[i]
  OBVIOUS
<1> HIDE DEF t
<1>2. \A i \in 1..Len(t) : i \in 1..Len(s) \/ i = Len(s) + 1
  BY <1>1
<1>3. \A i \in 1..Len(s) : Pointer(t[i]) # Pointer(t[Len(s) + 1])
  BY <1>1 DEF Ptrs
<1>4. ASSUME NEW i \in 1..Len(t), NEW j \in 1..Len(t), Pointer(t[i]) = Pointer(t[j])
      PROVE  i = j
  <2>1. CASE i \in 1..Len(s) /\ j \in 1..Len(s)
    BY <1>1, <1>4, <2>1 DEF Once
  <2>2. CASE i = Len(s) + 1 \/ j = Len(s) + 1
    BY SMTT(30), <1>2, <1>3, <1>4, <2>2
  <2>3. QED
    BY <1>2, <2>1, <2>2
<1>5. QED
  BY <1>4 DEF Once, t

\* A buffer goes from one place to another.
LEMMA Moves ==
    ASSUME NEW A, NEW B, NEW C, NEW D, NEW E, NEW F, NEW x
    PROVE  /\ Disjoint(A, {x} \cup B, C, D, E, {}) /\ x \notin B => Disjoint(A, B, C, D, E, {x})
           /\ Disjoint(A, B, C, D, E, {x}) => Disjoint(A \cup {x}, B, C, D, E, {}) /\ x \notin A
           /\ Disjoint({x} \cup A, B, C, D, E, {}) /\ x \notin A => Disjoint(A, B, C, D, E, {x})
           /\ Disjoint(A, B, C, D, E, {x}) => Disjoint(A, B, C \cup {x}, D, E, {}) /\ x \notin C
           /\ Disjoint({x} \cup A, B, C, {}, E, F) /\ x \notin A => Disjoint(A, B, C, {x}, E, F)
           /\ Disjoint(A, B, C, {x}, E, F) => Disjoint(A, B \cup {x}, C, {}, E, F) /\ x \notin B
           /\ Disjoint(A, B, {x} \cup C, D, {}, F) /\ x \notin C => Disjoint(A, B, C, D, {x}, F)
           /\ Disjoint(A, B, C, D, {x}, F) => Disjoint(A \cup {x}, B, C, D, {}, F) /\ x \notin A
<1>1. Disjoint(A, {x} \cup B, C, D, E, {}) /\ x \notin B => Disjoint(A, B, C, D, E, {x})
  BY DEF Disjoint
<1>2. Disjoint(A, B, C, D, E, {x}) => Disjoint(A \cup {x}, B, C, D, E, {}) /\ x \notin A
  BY DEF Disjoint
<1>3. Disjoint({x} \cup A, B, C, D, E, {}) /\ x \notin A => Disjoint(A, B, C, D, E, {x})
  BY DEF Disjoint
<1>4. Disjoint(A, B, C, D, E, {x}) => Disjoint(A, B, C \cup {x}, D, E, {}) /\ x \notin C
  BY DEF Disjoint
<1>5. Disjoint({x} \cup A, B, C, {}, E, F) /\ x \notin A => Disjoint(A, B, C, {x}, E, F)
  BY DEF Disjoint
<1>6. Disjoint(A, B, C, {x}, E, F) => Disjoint(A, B \cup {x}, C, {}, E, F) /\ x \notin B
  BY DEF Disjoint
<1>7. Disjoint(A, B, {x} \cup C, D, {}, F) /\ x \notin C => Disjoint(A, B, C, D, {x}, F)
  BY DEF Disjoint
<1>8. Disjoint(A, B, C, D, {x}, F) => Disjoint(A \cup {x}, B, C, D, {}, F) /\ x \notin A
  BY DEF Disjoint
<1>9. QED
  BY <1>1, <1>2, <1>3, <1>4, <1>5, <1>6, <1>7, <1>8

LEMMA ApartInit == Init => Apart
<1> SUFFICES ASSUME Init PROVE Apart
  OBVIOUS
<1>1. Len(Rom) \in Nat /\ Len(empty) = Len(Rom) /\ \A i \in 1..Len(Rom) : empty[i] = Element(Rom[i])
  BY RomAssumption DEF Init
<1>2. \A i \in 1..Len(Rom) : Rom[i] \in Segments \X Numbers
  BY RomAssumption
<1>3. ASSUME NEW i \in 1..Len(Rom), NEW j \in 1..Len(Rom),
             Pointer(Element(Rom[i])) = Pointer(Element(Rom[j]))
      PROVE  i = j
  <2>1. \A f \in Segments \X Numbers : FifoValue(Pointer(Element(f))) = Element(f) /\ FrameOf(Element(f)) = f
    <3> TAKE f \in Segments \X Numbers
    <3>1. Element(f) + 0 = Element(f)
      BY ElementsNat
    <3>2. QED
      BY <3>1, RoundTrip, FrameOfElement, Offsets
  <2>2. Rom[i] = Rom[j]
    BY <1>2, <1>3, <2>1
  <2>3. QED
    BY <2>2, RomAssumption
<1>4. Once(empty)
  BY <1>1, <1>3 DEF Once
<1>5. ind = <<>> /\ req = <<>> /\ rx = None /\ tx = None /\ ~Holding
  BY DEF Init, Holding
<1>6. Ptrs(<<>>) = {} /\ Once(<<>>)
  BY SMTT(30) DEF Ptrs, Once
<1>7. QED
  BY <1>4, <1>5, <1>6 DEF Apart, Disjoint, One, InHand

LEMMA ApartStep == IInv /\ Apart /\ [Next]_vars => Apart'
<1> SUFFICES ASSUME IInv, Apart, [Next]_vars PROVE Apart'
  OBVIOUS
<1> DEFINE A == Ptrs(empty)
           B == Ptrs(ind)
           C == Ptrs(req)
           D == One(rx)
           E == One(tx)
           F == InHand
<1>0. /\ empty \in Seq(Elements) /\ ind \in Seq(Indications) /\ req \in Seq(Requests)
      /\ rx \in Elements \cup {None} /\ tx \in Requests \cup {None}
      /\ None \notin Elements /\ None \notin Requests
  <2>1. \A v \in Elements : v \in Nat
    BY FramesOfRom, ElementsNat DEF Elements
  <2>2. \A v \in Requests : v \in Nat
    BY <2>1 DEF Requests, SuppressCon, SendSize, TxLen
  <2>3. QED
    BY SMTT(30), <2>1, <2>2 DEF IInv, Types, None
<1>1. Once(empty) /\ Once(ind) /\ Once(req) /\ Disjoint(A, B, C, D, E, F)
  BY DEF Apart
<1>2. ASSUME empty # <<>>
      PROVE  /\ A = {Pointer(Head(empty))} \cup Ptrs(Tail(empty)) /\ Once(Tail(empty))
             /\ Pointer(Head(empty)) \notin Ptrs(Tail(empty)) /\ Head(empty) \in Elements
  BY SMTT(30), <1>0, <1>1, <1>2, PtrsTail, OnceTail, Popped
<1>3. SUFFICES /\ Once(empty') /\ Once(ind') /\ Once(req')
               /\ Disjoint(A', B', C', D', E', F')
  BY DEF Apart, Once, Ptrs
<1>4. /\ empty' = empty => A' = A
      /\ ind' = ind => B' = B
      /\ req' = req => C' = C
      /\ rx' = rx => D' = D
      /\ tx' = tx => E' = E
      /\ pkt' = pkt /\ Holding' = Holding => F' = F
  <2>1. empty' = empty => A' = A
    BY DEF Ptrs
  <2>2. ind' = ind => B' = B
    BY DEF Ptrs
  <2>3. req' = req => C' = C
    BY DEF Ptrs
  <2>4. (rx' = rx => D' = D) /\ (tx' = tx => E' = E)
    BY DEF One
  <2>5. pkt' = pkt /\ Holding' = Holding => F' = F
    BY DEF InHand
  <2> HIDE DEF A, B, C, D, E, F
  <2>6. QED
    BY <2>1, <2>2, <2>3, <2>4, <2>5
<1>5. CASE Poll
  <2>1. CASE ind # <<>> /\ ind' = Tail(ind) /\ pkt' = Pointer(Head(ind)) /\ pc' = "alloc"
    <3>1. UNCHANGED <<empty, req, rx, tx>> /\ pc = "idle"
      BY <1>5 DEF Poll
    <3>2. B = {pkt'} \cup B' /\ pkt' \notin B' /\ Once(ind')
      BY <1>0, <1>1, <2>1, PtrsTail, OnceTail
    <3>3. F = {} /\ F' = {pkt'}
      BY <2>1, <3>1 DEF InHand, Holding
    <3> HIDE DEF A, B, C, D, E, F
    <3>4. Disjoint(A, B', C, D, E, {pkt'})
      BY Zenon, <1>1, <3>2, <3>3, Moves
    <3>5. QED
      BY <1>1, <1>4, <3>1, <3>2, <3>3, <3>4
  <2>2. CASE ind' = ind /\ pc' = "timers"
    <3>1. UNCHANGED <<empty, req, rx, tx, pkt>> /\ Holding' = Holding
      BY <1>5, <2>2 DEF Poll, Holding
    <3> HIDE DEF A, B, C, D, E, F
    <3>2. QED
      BY <1>1, <1>4, <2>2, <3>1
  <2>3. QED
    BY <1>5, <2>1, <2>2 DEF Poll
<1>6. CASE (Alloc /\ pc' = "timers") \/ Release
  <2>1. /\ pkt \in Buffers /\ empty' = Append(empty, FifoValue(pkt))
        /\ UNCHANGED <<ind, req, rx, tx, pkt>> /\ pc \in {"alloc", "release"} /\ pc' \in {"timers", "input"}
    BY <1>6 DEF Alloc, NoPbuf, Release, ReleasePacket, IInv, Running
  <2>2. FifoValue(pkt) \in Elements /\ Pointer(FifoValue(pkt)) = pkt
    BY <2>1, Conversions, GivenAway
  <2>3. F = {pkt} /\ F' = {}
    BY <2>1 DEF InHand, Holding
  <2>4. pkt \notin A /\ Disjoint(A \cup {pkt}, B, C, D, E, {})
    <3> HIDE DEF A, B, C, D, E, F
    <3> QED BY Zenon, <1>1, <2>3, Moves
  <2>5. A' = A \cup {pkt} /\ Once(empty')
    BY <1>0, <1>1, <2>1, <2>2, <2>4, PtrsAppend, OnceAppend
  <2> HIDE DEF A, B, C, D, E, F
  <2>6. QED
    BY <1>1, <1>4, <2>1, <2>3, <2>4, <2>5
<1>7. CASE (Alloc /\ pc' # "timers") \/ Take \/ Input \/ Timers \/ OutCheck \/ OutCopy \/ PhyLink
           \/ UNCHANGED vars
  <2>1. UNCHANGED <<empty, ind, req, rx, tx, pkt>> /\ Holding' = Holding
    BY <1>7 DEF Alloc, Take, Input, Timers, OutCheck, OutCopy, PhyLink, vars, IInv, Types, Holding
  <2> HIDE DEF A, B, C, D, E, F
  <2>2. QED
    BY SMTT(30), <1>1, <1>4, <2>1
<1>8. CASE OutPop
  <2>1. /\ empty # <<>> /\ empty' = Tail(empty) /\ pkt' = Pointer(Head(empty))
        /\ UNCHANGED <<ind, req, rx, tx>> /\ pc = "out_pop" /\ pc' = "out_copy"
    BY <1>8 DEF OutPop
  <2>2. A = {pkt'} \cup A' /\ pkt' \notin A' /\ Once(empty')
    BY <1>2, <2>1
  <2>3. F = {} /\ F' = {pkt'}
    BY <2>1 DEF InHand, Holding
  <2> HIDE DEF A, B, C, D, E, F
  <2>4. Disjoint(A', B, C, D, E, {pkt'})
    BY Zenon, <1>1, <2>2, <2>3, Moves
  <2>5. QED
    BY <1>1, <1>4, <2>1, <2>2, <2>3, <2>4
<1>9. CASE OutSend
  <2> DEFINE v == FifoValue(pkt) + SuppressCon + SendSize(TxLen)
  <2>1. /\ pkt \in Buffers /\ req' = Append(req, v) /\ UNCHANGED <<empty, ind, rx, tx, pkt>>
        /\ pc = "out_send" /\ pc' \in {"idle", "timers"}
    BY <1>9 DEF OutSend, IInv, Types, Running
  <2>2. v \in Requests /\ Pointer(v) = pkt
    BY <2>1, Conversions, GivenAway
  <2> HIDE DEF v
  <2>3. F = {pkt} /\ F' = {}
    BY <2>1 DEF InHand, Holding
  <2>4. pkt \notin C /\ Disjoint(A, B, C \cup {pkt}, D, E, {})
    <3> HIDE DEF A, B, C, D, E, F
    <3> QED BY Zenon, <1>1, <2>3, Moves
  <2>5. C' = C \cup {pkt} /\ Once(req')
    BY <1>0, <1>1, <2>1, <2>2, <2>4, PtrsAppend, OnceAppend
  <2> HIDE DEF A, B, C, D, E, F
  <2>6. QED
    BY <1>1, <1>4, <2>1, <2>3, <2>4, <2>5
<1>10. CASE XcTake
  <2>1. /\ empty # <<>> /\ empty' = Tail(empty) /\ rx = None /\ rx' = Head(empty)
        /\ UNCHANGED <<ind, req, tx, pkt, pc>>
    BY <1>10 DEF XcTake
  <2>2. A = {Pointer(rx')} \cup A' /\ Pointer(rx') \notin A' /\ Once(empty') /\ rx' \in Elements
    BY <1>2, <2>1
  <2>3. D = {} /\ D' = {Pointer(rx')} /\ Holding' = Holding
    BY <1>0, <2>1, <2>2 DEF One, Holding
  <2> HIDE DEF A, B, C, D, E, F
  <2>4. Disjoint(A', B, C, {Pointer(rx')}, E, F)
    <3> DEFINE x == Pointer(rx')
               G == A'
    <3>1. Disjoint({x} \cup G, B, C, {}, E, F) /\ x \notin G
      BY <1>1, <2>2, <2>3
    <3> HIDE DEF x, G
    <3>2. Disjoint(G, B, C, {x}, E, F)
      BY Zenon, <3>1, Moves
    <3>3. QED
      BY <3>2 DEF x, G
  <2>5. QED
    BY <1>1, <1>4, <2>1, <2>2, <2>3, <2>4
<1>11. CASE XcReceive
  <2>1. UNCHANGED <<empty, req, tx, pkt, pc>> /\ Holding' = Holding
    BY <1>11 DEF XcReceive, Holding
  <2>2. CASE rx = None
    <3>1. UNCHANGED <<ind, rx>>
      BY <1>11, <2>2 DEF XcReceive
    <3> HIDE DEF A, B, C, D, E, F
    <3>2. QED
      BY <1>1, <1>4, <2>1, <3>1
  <2>3. CASE rx # None
    <3> DEFINE v == Element(FrameOf(rx)) + RxLen
               x == Pointer(rx)
    <3>1. ind' = Append(ind, v) /\ rx' = None /\ rx \in Elements
      BY <1>0, <1>11, <2>3 DEF XcReceive
    <3>2. v \in Indications /\ Pointer(v) = x
      BY <3>1, Conversions, GivenAway
    <3>3. D = {x} /\ D' = {}
      BY <2>3, <3>1 DEF One
    <3> HIDE DEF v, x
    <3>4. x \notin B /\ Disjoint(A, B \cup {x}, C, {}, E, F)
      <4> HIDE DEF A, B, C, D, E, F
      <4> QED BY Zenon, <1>1, <3>3, Moves
    <3>5. B' = B \cup {x} /\ Once(ind')
      BY <1>0, <1>1, <3>1, <3>2, <3>4, PtrsAppend, OnceAppend
    <3> HIDE DEF A, B, C, D, E, F
    <3>6. QED
      BY <1>1, <1>4, <2>1, <3>3, <3>4, <3>5
  <2>4. QED
    BY <2>2, <2>3
<1>12. CASE XcSend
  <2>1. /\ req # <<>> /\ req' = Tail(req) /\ tx = None /\ tx' = Head(req)
        /\ UNCHANGED <<empty, ind, rx, pkt, pc>>
    BY <1>12 DEF XcSend
  <2>2. C = {Pointer(tx')} \cup C' /\ Pointer(tx') \notin C' /\ Once(req') /\ tx' \in Requests
    BY <1>0, <1>1, <2>1, PtrsTail, OnceTail, Popped
  <2>3. E = {} /\ E' = {Pointer(tx')} /\ Holding' = Holding
    BY <1>0, <2>1, <2>2 DEF One, Holding
  <2> HIDE DEF A, B, C, D, E, F
  <2>4. Disjoint(A, B, C', D, {Pointer(tx')}, F)
    <3> DEFINE x == Pointer(tx')
               G == C'
    <3>1. Disjoint(A, B, {x} \cup G, D, {}, F) /\ x \notin G
      BY <1>1, <2>2, <2>3
    <3> HIDE DEF x, G
    <3>2. Disjoint(A, B, G, D, {x}, F)
      BY Zenon, <3>1, Moves
    <3>3. QED
      BY <3>2 DEF x, G
  <2>5. QED
    BY <1>1, <1>4, <2>1, <2>2, <2>3, <2>4
<1>13. CASE XcSent
  <2> DEFINE v == Element(FrameOf(tx))
             x == Pointer(tx)
  <2>1. /\ tx # None /\ tx' = None /\ tx \in Requests /\ empty' = Append(empty, v)
        /\ UNCHANGED <<ind, req, rx, pkt, pc>> /\ Holding' = Holding
    BY SMTT(30), <1>0, <1>13 DEF XcSent, Holding
  <2>2. v \in Elements /\ Pointer(v) = x
    BY <2>1, Conversions, GivenAway
  <2>3. E = {x} /\ E' = {}
    BY <2>1 DEF One
  <2> HIDE DEF v, x
  <2>4. x \notin A /\ Disjoint(A \cup {x}, B, C, D, {}, F)
    <3> HIDE DEF A, B, C, D, E, F
    <3> QED BY Zenon, <1>1, <2>3, Moves
  <2>5. A' = A \cup {x} /\ Once(empty')
    BY <1>0, <1>1, <2>1, <2>2, <2>4, PtrsAppend, OnceAppend
  <2> HIDE DEF A, B, C, D, E, F
  <2>6. QED
    BY <1>1, <1>4, <2>1, <2>3, <2>4, <2>5
<1>14. QED
  BY <1>5, <1>6, <1>7, <1>8, <1>9, <1>10, <1>11, <1>12, <1>13 DEF Next, Cpu, Xc

\* The step is not about received frames.
Steady == UNCHANGED <<mem, ind, arrived, got>>

LEMMA ContentTyped ==
    ASSUME IInv
    PROVE  /\ \A i \in 1..Len(ind) : Pointer(ind[i]) \in Buffers /\ Content(ind, i) \in Int
           /\ \A i \in 1..Len(req) : Pointer(req[i]) \in Buffers /\ Content(req, i) \in Int
           /\ Len(ind) \in Nat /\ Len(req) \in Nat
<1>1. /\ \A i \in 1..Len(ind) : ind[i] \in Indications
      /\ \A i \in 1..Len(req) : req[i] \in Requests
      /\ Len(ind) \in Nat /\ Len(req) \in Nat /\ mem \in [Buffers -> Int]
  BY DEF IInv, Types
<1>2. QED
  BY Zenon, <1>1, Conversions DEF Content

\* A buffer is written that is not in the FIFO s.
LEMMA Untouched ==
    ASSUME NEW s, NEW b, b \notin Ptrs(s), NEW v, mem' = [mem EXCEPT ![b] = v],
           \A i \in 1..Len(s) : Pointer(s[i]) \in DOMAIN mem
    PROVE  \A i \in 1..Len(s) : mem'[Pointer(s[i])] = Content(s, i)
BY SMTT(30) DEF Ptrs, Content

\* The XC unit and netif_output write to buffers of their own.
LEMMA WritesApart ==
    ASSUME Apart
    PROVE  /\ rx # None => /\ Pointer(rx) \notin Ptrs(ind) /\ Pointer(rx) \notin Ptrs(req)
                           /\ (tx # None => Pointer(rx) # Pointer(tx))
                           /\ (Holding => Pointer(rx) # pkt)
           /\ Holding => /\ pkt \notin Ptrs(ind) /\ pkt \notin Ptrs(req)
                         /\ (tx # None => Pointer(tx) # pkt)
BY DEF Apart, Disjoint, One, InHand

LEMMA ReceivingStep == IInv /\ Apart /\ Receiving /\ [Next]_vars => Receiving'
<1> SUFFICES ASSUME IInv, Apart, Receiving, [Next]_vars PROVE Receiving'
  BY SMTT(30)
<1>0. /\ ind \in Seq(Indications) /\ Len(ind) \in Nat /\ arrived \in Nat /\ got \in Int /\ buf \in Int
      /\ mem \in [Buffers -> Int] /\ \A i \in 1..Len(ind) : Pointer(ind[i]) \in Buffers /\ Content(ind, i) \in Int
      /\ pc \in {"alloc", "take", "release", "input", "out_copy", "out_send"} => pkt \in Buffers
  BY ContentTyped, BoundAssumption DEF IInv, Types, Running
<1>1. CASE Steady /\ pc' \notin {"alloc", "take", "release", "input"}
  BY <1>1 DEF Receiving, Steady, Content
<1>2. CASE Steady /\ UNCHANGED <<pkt, buf, pc>>
  BY <1>2 DEF Receiving, Steady, Content, Fresh
<1>3. CASE Poll /\ ind # <<>> /\ ind' = Tail(ind) /\ pkt' = Pointer(Head(ind)) /\ pc' = "alloc"
  <2>1. /\ Head(ind) = ind[1] /\ Len(ind') = Len(ind) - 1 /\ 1 \in 1..Len(ind)
        /\ \A i \in 1..Len(ind') : ind'[i] = ind[i + 1] /\ i + 1 \in 1..Len(ind)
    BY <1>0, <1>3
  <2>2. mem' = mem /\ got' = got /\ arrived' = arrived
    BY <1>3 DEF Poll
  <2>3. \A i \in 1..Len(ind') : Content(ind, i)' = Content(ind, i + 1)
    BY <2>1, <2>2 DEF Content
  <2>4. mem'[pkt'] = Content(ind, 1)
    BY <1>3, <2>1, <2>2 DEF Content
  <2>5. /\ Content(ind, 1) > got /\ Content(ind, 1) <= arrived
        /\ \A i \in 1..Len(ind') : Content(ind, 1) < Content(ind, i + 1)
    <3>1. \A i \in 1..Len(ind') : 1 < i + 1
      BY <1>0, <2>1
    <3>2. QED
      BY <2>1, <3>1 DEF Receiving
  <2>6. Fresh(mem[pkt])'
    BY <2>2, <2>3, <2>4, <2>5 DEF Fresh
  <2>7. \A i, j \in 1..Len(ind') : i < j => Content(ind, i)' < Content(ind, j)'
    <3> TAKE i, j \in 1..Len(ind')
    <3>1. i < j => i + 1 < j + 1
      BY <1>0, <2>1
    <3>2. QED
      BY <2>1, <2>3, <3>1 DEF Receiving
  <2>8. \A i \in 1..Len(ind') : Content(ind, i)' > got' /\ Content(ind, i)' <= arrived'
    BY SMTT(30), <2>1, <2>2, <2>3 DEF Receiving
  <2>9. 0 <= got' /\ got' <= arrived'
    BY <2>2 DEF Receiving
  <2>10. QED
    BY <1>3, <2>6, <2>7, <2>8, <2>9 DEF Receiving
<1>4. CASE Alloc /\ pc' = "take"
  BY SMTT(30), <1>4 DEF Alloc, Receiving, Fresh, Content
<1>5. CASE Take
  BY SMTT(30), <1>5 DEF Take, Receiving, Fresh, Content
<1>6. CASE Release
  BY <1>6 DEF Release, Receiving, Fresh, Content
<1>7. CASE Input
  <2>1. /\ Fresh(buf) /\ got' = buf /\ UNCHANGED <<mem, ind, arrived>>
        /\ pc' \in {"timers", "out_check"}
    BY <1>7 DEF Input, Given, Receiving
  <2>2. 0 <= got' /\ got' <= arrived'
    BY <1>0, <2>1 DEF Receiving, Fresh
  <2>3. \A i \in 1..Len(ind) : Content(ind, i)' = Content(ind, i) /\ Content(ind, i) > got'
    BY <1>0, <2>1 DEF Fresh, Content
  <2>4. QED
    BY <2>1, <2>2, <2>3 DEF Receiving
<1>8. CASE OutCopy
  <2>1. /\ mem' = [mem EXCEPT ![pkt] = -(sent + 1)] /\ UNCHANGED <<ind, arrived, got>>
        /\ pc' = "out_send" /\ Holding
    BY <1>8 DEF OutCopy, Holding
  <2>2. \A i \in 1..Len(ind) : mem'[Pointer(ind[i])] = Content(ind, i)
    BY Zenon, <1>0, <2>1, WritesApart, Untouched
  <2>3. \A i \in 1..Len(ind) : Content(ind, i)' = Content(ind, i)
    BY <2>1, <2>2 DEF Content
  <2>4. QED
    BY <2>1, <2>3 DEF Receiving
<1>9. CASE XcReceive
  <2>1. arrived' = arrived + 1 /\ UNCHANGED <<pc, pkt, buf, got>>
    BY <1>9 DEF XcReceive
  <2>2. CASE rx = None
    <3>1. UNCHANGED <<mem, ind>>
      BY <1>9, <2>2 DEF XcReceive
    <3>2. \A n \in Int : Fresh(n) => Fresh(n)'
      BY <1>0, <2>1, <3>1 DEF Fresh, Content
    <3>3. \A i \in 1..Len(ind) : Content(ind, i)' = Content(ind, i)
      BY <3>1 DEF Content
    <3>4. pc \in {"alloc", "take"} => mem[pkt] \in Int
      BY <1>0
    <3>5. /\ 0 <= got' /\ got' <= arrived'
          /\ \A i \in 1..Len(ind') : Content(ind, i)' > got' /\ Content(ind, i)' <= arrived'
      BY <1>0, <2>1, <3>1, <3>3 DEF Receiving
    <3>6. \A i, j \in 1..Len(ind') : i < j => Content(ind, i)' < Content(ind, j)'
      BY SMTT(30), <3>1, <3>3 DEF Receiving
    <3>7. /\ pc' \in {"alloc", "take"} => Fresh(mem[pkt])'
          /\ pc' \in {"release", "input"} => Fresh(buf)'
      BY <1>0, <2>1, <3>1, <3>2, <3>4 DEF Receiving, Fresh, Content
    <3>8. QED
      BY <3>5, <3>6, <3>7 DEF Receiving
  <2>3. CASE rx # None
    <3> DEFINE v == Element(FrameOf(rx)) + RxLen
               x == Pointer(rx)
    <3>1. ind' = Append(ind, v) /\ rx \in Elements /\ mem' = [mem EXCEPT ![x] = arrived + 1]
      BY SMTT(30), <1>9, <2>1, <2>3 DEF XcReceive, IInv, Types
    <3>2. v \in Indications /\ Pointer(v) = x /\ x \in Buffers
      BY Zenon, <3>1, Conversions, GivenAway
    <3>3. x \notin Ptrs(ind) /\ (Holding => x # pkt)
      BY <2>3, WritesApart
    <3> HIDE DEF v, x
    <3>a. PICK k \in Nat : k = Len(ind) + 1
      BY <1>0
    <3>4. /\ Len(ind') = k /\ ind'[k] = v
          /\ \A i \in 1..Len(ind) : ind'[i] = ind[i]
      BY <1>0, <3>1, <3>2, <3>a
    <3>5. \A i \in 1..Len(ind) : mem'[Pointer(ind[i])] = Content(ind, i)
      BY Zenon, <1>0, <3>1, <3>3, Untouched
    <3>6. /\ \A i \in 1..Len(ind) : Content(ind, i)' = Content(ind, i)
          /\ Content(ind, k)' = arrived + 1
      <4>1. \A i \in 1..Len(ind) : Content(ind, i)' = Content(ind, i)
        BY <3>4, <3>5 DEF Content
      <4>2. mem'[x] = arrived + 1
        BY <1>0, <3>1, <3>2
      <4>3. QED
        BY SMTT(30), <3>2, <3>4, <4>1, <4>2 DEF Content
    <3>7. \A i \in 1..Len(ind') : i \in 1..Len(ind) \/ i = k
      BY <1>0, <3>a, <3>4
    <3>8. ASSUME NEW n \in Int, Fresh(n)
          PROVE  n > got' /\ n <= arrived' /\ \A i \in 1..Len(ind') : n < Content(ind, i)'
      <4>1. n > got' /\ n <= arrived' /\ n < arrived + 1
        BY <1>0, <2>1, <3>8 DEF Fresh
      <4>2. \A i \in 1..Len(ind) : n < Content(ind, i)'
        BY <3>6, <3>8 DEF Fresh
      <4>3. QED
        BY <3>6, <3>7, <4>1, <4>2
    <3>9. \A i \in 1..Len(ind') : Content(ind, i)' > got' /\ Content(ind, i)' <= arrived'
      <4>1. \A i \in 1..Len(ind) : Content(ind, i)' > got' /\ Content(ind, i)' <= arrived'
        BY <1>0, <2>1, <3>6 DEF Receiving
      <4>2. Content(ind, k)' > got' /\ Content(ind, k)' <= arrived'
        BY <1>0, <2>1, <3>6 DEF Receiving
      <4>3. QED
        BY <3>7, <4>1, <4>2
    <3>10. ASSUME NEW i \in 1..Len(ind'), NEW j \in 1..Len(ind'), i < j
           PROVE  Content(ind, i)' < Content(ind, j)'
      <4>1. i \in 1..Len(ind)
        BY <1>0, <3>a, <3>4, <3>10
      <4>2. CASE j \in 1..Len(ind)
        BY <3>6, <3>10, <4>1, <4>2 DEF Receiving
      <4>3. CASE j = k
        <5>1. Content(ind, i) <= arrived /\ Content(ind, i) \in Int
          BY <1>0, <4>1 DEF Receiving
        <5>2. QED
          BY <1>0, <3>6, <4>1, <4>3, <5>1
      <4>4. QED
        BY SMTT(30), <3>7, <4>2, <4>3
    <3>11. pc' \in {"alloc", "take"} => Fresh(mem[pkt])'
      <4>1. SUFFICES ASSUME pc \in {"alloc", "take"} PROVE Fresh(mem[pkt])'
        BY <2>1
      <4>2. pkt \in Buffers /\ x # pkt /\ Fresh(mem[pkt])
        BY <1>0, <3>3, <4>1 DEF Holding, Receiving
      <4>3. mem'[pkt'] = mem[pkt] /\ mem[pkt] \in Int
        BY <1>0, <2>1, <3>1, <4>2
      <4>4. QED
        BY <3>8, <4>2, <4>3 DEF Fresh
    <3>12. pc' \in {"release", "input"} => Fresh(buf)'
      <4>1. SUFFICES ASSUME pc \in {"release", "input"} PROVE Fresh(buf)'
        BY <2>1
      <4>2. buf' = buf /\ buf \in Int /\ Fresh(buf)
        BY <1>0, <2>1, <4>1 DEF Receiving
      <4>3. QED
        BY <3>8, <4>2 DEF Fresh
    <3>13. 0 <= got' /\ got' <= arrived'
      BY <1>0, <2>1 DEF Receiving
    <3>14. QED
      BY <3>9, <3>10, <3>11, <3>12, <3>13 DEF Receiving
  <2>4. QED
    BY <2>2, <2>3
<1>10. CASE Poll
  <2>1. CASE ind' = ind
    BY <1>1, <1>10, <2>1 DEF Poll, Steady
  <2>2. CASE ind' # ind
    BY Zenon, <1>3, <1>10, <2>2 DEF Poll
  <2>3. QED
    BY <2>1, <2>2
<1>11. CASE Alloc
  <2>1. CASE pc' = "timers"
    BY <1>1, <1>11, <2>1 DEF Alloc, Steady
  <2>2. QED
    BY <1>4, <1>11, <2>1 DEF Alloc
<1>12. CASE Timers \/ OutCheck \/ OutPop \/ OutSend
  <2>1. Steady /\ pc' \notin {"alloc", "take", "release", "input"}
    BY SMTT(30), <1>12 DEF Timers, OutCheck, OutPop, OutSend, Steady, IInv, Types
  <2>2. QED
    BY <1>1, <2>1
<1>13. CASE XcTake \/ XcSend \/ XcSent \/ PhyLink \/ UNCHANGED vars
  <2>1. Steady /\ UNCHANGED <<pkt, buf, pc>>
    BY <1>13 DEF XcTake, XcSend, XcSent, PhyLink, vars, Steady
  <2>2. QED
    BY <1>2, <2>1
<1>14. QED
  BY <1>5, <1>6, <1>7, <1>8, <1>9, <1>10, <1>11, <1>12, <1>13 DEF Next, Cpu, Xc

LEMMA SendingStep == IInv /\ Apart /\ Sending /\ [Next]_vars => Sending'
<1> SUFFICES ASSUME IInv, Apart, Sending, [Next]_vars PROVE Sending'
  OBVIOUS
<1>0. /\ req \in Seq(Requests) /\ Len(req) \in Nat /\ sent \in Nat /\ wire \in Int
      /\ mem \in [Buffers -> Int] /\ \A i \in 1..Len(req) : Pointer(req[i]) \in Buffers
      /\ pc \in {"out_copy", "out_send"} => pkt \in Buffers
      /\ tx # None => tx \in Requests /\ Pointer(tx) \in Buffers
      /\ None \notin Requests /\ Count(tx) \in {0, 1}
  <2>1. \A v \in Elements : v \in Nat
    BY FramesOfRom, ElementsNat DEF Elements
  <2>2. None \notin Requests
    BY <2>1 DEF Requests, SuppressCon, SendSize, TxLen, None
  <2>3. tx # None => tx \in Requests /\ Pointer(tx) \in Buffers
    BY Conversions DEF IInv, Types
  <2>4. /\ req \in Seq(Requests) /\ sent \in Nat /\ wire \in Int /\ mem \in [Buffers -> Int]
        /\ pc \in {"out_copy", "out_send"} => pkt \in Buffers
    BY BoundAssumption DEF IInv, Types, Running
  <2>5. Count(tx) \in {0, 1}
    BY DEF Count
  <2>6. QED
    BY <2>2, <2>3, <2>4, <2>5, ContentTyped
<1>1. /\ wire >= 0 /\ sent = wire + Count(tx) + Len(req)
      /\ tx # None => mem[Pointer(tx)] = -(wire + 1)
      /\ \A i \in 1..Len(req) : Content(req, i) = -(wire + Count(tx) + i)
      /\ pc = "out_send" => mem[pkt] = -(sent + 1)
  BY DEF Sending
<1>2. CASE UNCHANGED <<mem, req, tx, wire, sent>> /\ (pc' # "out_send" \/ UNCHANGED <<pc, pkt>>)
  BY SMTT(30), <1>2 DEF Sending, Content, Count
<1>3. ASSUME NEW b, NEW v, mem' = [mem EXCEPT ![b] = v], UNCHANGED <<req, tx, wire, sent>>,
             b \notin Ptrs(req), tx # None => Pointer(tx) # b,
             pc' = "out_send" => mem'[pkt'] = -(sent + 1)
      PROVE  Sending'
  <2>1. \A i \in 1..Len(req) : mem'[Pointer(req[i])] = Content(req, i)
    BY Zenon, <1>0, <1>3, Untouched
  <2>2. \A i \in 1..Len(req) : Content(req, i)' = Content(req, i)
    BY <1>3, <2>1 DEF Content
  <2>3. tx # None => mem'[Pointer(tx)] = mem[Pointer(tx)]
    BY <1>0, <1>3
  <2>4. Count(tx)' = Count(tx)
    BY <1>3 DEF Count
  <2>5. QED
    BY <1>1, <1>3, <2>2, <2>3, <2>4 DEF Sending
<1>4. CASE OutCopy
  <2>1. /\ mem' = [mem EXCEPT ![pkt] = -(sent + 1)] /\ UNCHANGED <<req, tx, wire, sent, pkt>>
        /\ Holding /\ pkt \in Buffers
    BY <1>0, <1>4 DEF OutCopy, Holding
  <2>2. pkt \notin Ptrs(req) /\ (tx # None => Pointer(tx) # pkt)
    BY <2>1, WritesApart
  <2>3. mem'[pkt'] = -(sent + 1)
    BY <1>0, <2>1
  <2>4. QED
    BY Zenon, <1>3, <2>1, <2>2, <2>3
<1>5. CASE OutSend
  <2> DEFINE v == FifoValue(pkt) + SuppressCon + SendSize(TxLen)
  <2>1. /\ req' = Append(req, v) /\ sent' = sent + 1 /\ UNCHANGED <<mem, tx, wire>>
        /\ pkt \in Buffers /\ pc' # "out_send" /\ mem[pkt] = -(sent + 1)
    BY SMTT(30), <1>0, <1>1, <1>5 DEF OutSend, IInv, Types
  <2>2. v \in Requests /\ Pointer(v) = pkt
    BY <2>1, Conversions, GivenAway
  <2> HIDE DEF v
  <2>3. PICK k \in Nat : k = Len(req) + 1
    BY <1>0
  <2>4. Len(req') = k /\ req'[k] = v /\ \A i \in 1..Len(req) : req'[i] = req[i]
    BY SMTT(30), <1>0, <2>1, <2>2, <2>3
  <2>5. \A i \in 1..Len(req') : i \in 1..Len(req) \/ i = k
    BY <1>0, <2>3, <2>4
  <2>6. Count(tx)' = Count(tx) /\ wire' = wire
    BY SMTT(30), <2>1 DEF Count
  <2>7. \A i \in 1..Len(req) : Content(req, i)' = -(wire + Count(tx) + i)
    BY <1>1, <2>1, <2>4 DEF Content
  <2>8. Content(req, k)' = -(wire + Count(tx) + k)
    <3>1. Content(req, k)' = -(sent + 1)
      BY <2>1, <2>2, <2>4 DEF Content
    <3>2. sent + 1 = wire + Count(tx) + k
      <4>1. wire \in Int /\ Count(tx) \in Int /\ Len(req) \in Int
        BY <1>0
      <4>2. sent = wire + Count(tx) + Len(req)
        BY <1>1
      <4>3. QED
        BY <2>3, <4>1, <4>2
    <3>3. QED
      BY SMTT(30), <3>1, <3>2
  <2>9. sent' = wire' + Count(tx)' + Len(req')
    <3>1. wire \in Int /\ Count(tx) \in Int /\ Len(req) \in Int
      BY <1>0
    <3>2. sent' = (wire + Count(tx) + Len(req)) + 1
      BY <1>1, <2>1
    <3>3. sent' = wire + Count(tx) + k
      BY <2>3, <3>1, <3>2
    <3>4. QED
      BY <2>4, <2>6, <3>3
  <2>10. \A i \in 1..Len(req') : Content(req, i)' = -(wire' + Count(tx)' + i)
    BY <2>5, <2>6, <2>7, <2>8
  <2>11. QED
    BY SMTT(30), <1>1, <2>1, <2>6, <2>9, <2>10 DEF Sending
<1>6. CASE XcReceive
  <2>1. CASE rx = None
    BY <1>2, <1>6, <2>1 DEF XcReceive
  <2>2. CASE rx # None
    <3>1. /\ mem' = [mem EXCEPT ![Pointer(rx)] = arrived'] /\ UNCHANGED <<req, tx, wire, sent, pc, pkt>>
      BY <1>6, <2>2 DEF XcReceive
    <3>2. /\ Pointer(rx) \notin Ptrs(req) /\ (tx # None => Pointer(tx) # Pointer(rx))
          /\ (Holding => Pointer(rx) # pkt)
      BY <2>2, WritesApart
    <3>3. pc' = "out_send" => mem'[pkt'] = -(sent + 1)
      BY <1>0, <1>1, <3>1, <3>2 DEF Holding
    <3>4. QED
      BY Zenon, <1>3, <3>1, <3>2, <3>3
  <2>3. QED
    BY <2>1, <2>2
<1>7. CASE XcSend
  <2>1. /\ req # <<>> /\ req' = Tail(req) /\ tx = None /\ tx' = Head(req)
        /\ UNCHANGED <<mem, wire, sent, pc, pkt>>
    BY <1>7 DEF XcSend
  <2>2. /\ Head(req) = req[1] /\ Head(req) \in Requests /\ Len(req') = Len(req) - 1 /\ 1 \in 1..Len(req)
        /\ \A i \in 1..Len(req') : req'[i] = req[i + 1] /\ i + 1 \in 1..Len(req)
    BY <1>0, <2>1
  <2>3. Count(tx) = 0 /\ Count(tx)' = 1
    BY <1>0, <2>1, <2>2 DEF Count
  <2>4. mem'[Pointer(tx')] = -(wire' + 1)
    <3>1. Content(req, 1) = -(wire + 0 + 1)
      BY <1>1, <2>2, <2>3
    <3>2. QED
      BY <1>0, <2>1, <2>2, <3>1 DEF Content
  <2>5. ASSUME NEW i \in 1..Len(req') PROVE Content(req, i)' = -(wire' + Count(tx)' + i)
    <3>1. Content(req, i)' = Content(req, i + 1)
      BY <2>1, <2>2 DEF Content
    <3>2. Content(req, i + 1) = -(wire + 0 + (i + 1))
      BY <1>1, <2>2, <2>3
    <3>3. wire + 0 + (i + 1) = wire' + Count(tx)' + i
      BY SMTT(30), <1>0, <2>1, <2>2, <2>3
    <3>4. QED
      BY <3>1, <3>2, <3>3
  <2>6. sent' = wire' + Count(tx)' + Len(req')
    BY SMTT(30), <1>0, <1>1, <2>1, <2>2, <2>3
  <2>7. QED
    BY <1>1, <2>1, <2>4, <2>5, <2>6 DEF Sending
<1>8. CASE XcSent
  <2>1. tx # None /\ tx' = None /\ wire' = -mem[Pointer(tx)] /\ UNCHANGED <<mem, req, sent, pc, pkt>>
    BY <1>8 DEF XcSent
  <2>2. wire' = wire + 1
    BY <1>0, <1>1, <2>1
  <2>3. Count(tx) = 1 /\ Count(tx)' = 0
    BY <2>1 DEF Count
  <2>4. ASSUME NEW i \in 1..Len(req') PROVE Content(req, i)' = -(wire' + Count(tx)' + i)
    <3>1. Content(req, i)' = -(wire + 1 + i)
      BY <1>1, <2>1, <2>3 DEF Content
    <3>2. wire + 1 + i = wire' + Count(tx)' + i
      BY SMTT(30), <1>0, <2>1, <2>2, <2>3
    <3>3. QED
      BY <3>1, <3>2
  <2>5. wire' >= 0 /\ sent' = wire' + Count(tx)' + Len(req')
    BY <1>0, <1>1, <2>1, <2>2, <2>3
  <2>6. QED
    BY <1>1, <2>1, <2>4, <2>5 DEF Sending
<1>9. CASE Poll \/ Alloc \/ Take \/ Release \/ Input \/ Timers \/ OutCheck \/ OutPop
  <2>1. UNCHANGED <<mem, req, tx, wire, sent>> /\ pc' # "out_send"
    BY Zenon, <1>9 DEF Poll, Alloc, Take, Release, Input, Timers, OutCheck, OutPop, IInv, Types
  <2>2. QED
    BY <1>2, <2>1
<1>10. CASE XcTake \/ PhyLink \/ UNCHANGED vars
  <2>1. UNCHANGED <<mem, req, tx, wire, sent, pc, pkt>>
    BY <1>10 DEF XcTake, PhyLink, vars
  <2>2. QED
    BY SMTT(30), <1>2, <2>1
<1>11. QED
  BY <1>4, <1>5, <1>6, <1>7, <1>8, <1>9, <1>10 DEF Next, Cpu, Xc

LEMMA ContentInit == Init => Receiving /\ Sending
BY DEF Init, Receiving, Sending, Count

\* lwIP is given the frames that arrived and the port sends those of
\* netif_output, each unchanged, once and in order, however program and XC unit
\* interleave.
THEOREM FramesStayIntact == Spec => FramesIntact
<1> DEFINE Kept == /\ got' # got => got' > got /\ got' <= arrived
                   /\ (tx # None /\ tx' = None) => wire' = wire + 1 /\ wire' <= sent
<1>1. ASSUME IInv, Receiving, Sending, [Next]_vars PROVE [Kept]_vars
  <2>1. got' # got => got' > got /\ got' <= arrived
    <3>1. CASE Input
      BY <1>1, <3>1 DEF Input, Given, Receiving, Fresh
    <3>2. CASE ~Input
      BY Zenon, <1>1, <3>2 DEF Next, Cpu, Xc, vars, Poll, Alloc, Take, Release, Timers, OutCheck, OutPop,
         OutCopy, OutSend, XcTake, XcReceive, XcSend, XcSent, PhyLink
    <3>3. QED
      BY SMTT(30), <3>1, <3>2
  <2>2. ASSUME tx # None, tx' = None PROVE wire' = wire + 1 /\ wire' <= sent
    <3>1. XcSent
      <4>1. tx' # tx
        BY <2>2
      <4>2. XcSend => tx = None
        BY SMTT(30) DEF XcSend
      <4>3. QED
        BY Zenon, <1>1, <2>2, <4>1, <4>2 DEF Next, Cpu, Xc, vars, Poll, Alloc, Take, Release, Input, Timers,
           OutCheck, OutPop, OutCopy, OutSend, XcTake, XcReceive, PhyLink
    <3>2. wire \in Int /\ Len(req) \in Nat /\ Count(tx) = 1
      BY <1>1, <2>2, ContentTyped DEF IInv, Types, Count
    <3>3. QED
      BY <1>1, <2>2, <3>1, <3>2 DEF XcSent, Sending
  <2>3. QED
    BY <2>1, <2>2
<1>2. IInv /\ Apart /\ Receiving /\ Sending /\ [Next]_vars =>
         IInv' /\ Apart' /\ Receiving' /\ Sending' /\ [Kept]_vars
  BY <1>1, StepInv, ApartStep, ReceivingStep, SendingStep
<1>3. Init => IInv /\ Apart /\ Receiving /\ Sending
  BY InitInv, ApartInit, ContentInit
<1>4. QED
  BY <1>2, <1>3, PTL DEF Spec, FramesIntact
=============================================================================
