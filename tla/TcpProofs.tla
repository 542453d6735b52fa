----------------------------- MODULE TcpProofs -----------------------------
(***************************************************************************)
(* The receiving half of TCP, for every stream, header, window and segment *)
(* size, every initial sequence number and every width of the numbers that *)
(* is more than twice what is under way: the application gets the stream   *)
(* in order, whole and once, the queue of out-of-sequence segments stays   *)
(* in order and inside of the window, and no window that was announced is  *)
(* taken back or turns out not to be there.                                *)
(*                                                                         *)
(* The code compares numbers that wrap around.  The proof speaks of places *)
(* in the stream, which do not: Compare says that the order of two places  *)
(* is the one TCP_SEQ_LT sees, as long as both are below StreamLen + Wnd.  *)
(* The invariant RcvInv then says of every number of the block which place *)
(* it stands for, with R the place the announced window ends at, and every *)
(* operation of the code is shown to keep that, from the cut of a segment  *)
(* up to tcp_input.                                                        *)
(***************************************************************************)
EXTENDS TcpRecv, WellFoundedInduction, TLAPS

Segment == [seqno: Numbers, from: 0..StreamLen, len: 0..Mss, fin: BOOLEAN]

\* The window while n bytes of the stream have been received: the header is not
\* read before it is complete.
Window(n) == IF n < Header THEN Wnd - n ELSE Wnd

Stop(s) == s.from + TcpLen(s)

\* A piece of the stream, with the number of its place, that ends at R at the latest.
Piece(s, R) ==
    /\ s \in Segment /\ s.seqno = SeqnoAt(s.from)
    /\ s.from + s.len <= StreamLen
    /\ s.fin => s.from + s.len = StreamLen
    /\ TcpLen(s) > 0 /\ Stop(s) <= R

\* A queue behind the place n and in front of the place R.
QueueInv(q, n, R) ==
    /\ q \in Seq(Segment)
    /\ \A i \in 1..Len(q) : Piece(q[i], R) /\ n < q[i].from
    /\ \A i, j \in 1..Len(q) : i < j => q[i].from + q[i].len <= q[j].from /\ ~q[i].fin

Pcb == [rcv_nxt: Numbers, rcv_wnd: 0..Wnd, ann_wnd: 0..Wnd, edge: Numbers,
        ooseq: Seq(Segment), flags: SUBSET Flags]

\* The block when everything in front of n has been received, the window is w
\* and its end has been announced to be R.
BlockInv(p, n, w, R) ==
    /\ p \in Pcb
    /\ p.rcv_nxt = SeqnoAt(n) /\ p.rcv_wnd = w /\ p.edge = SeqnoAt(R)
    /\ n <= R /\ R <= n + p.ann_wnd /\ p.ann_wnd <= w
    /\ QueueInv(p.ooseq, n, R)

RcvInv ==
    /\ stream \in Seq(0..(StreamLen - 1)) /\ Len(stream) <= StreamLen
    /\ \A i \in 1..Len(stream) : stream[i] = i - 1
    /\ stuck = FALSE
    /\ peer \in [una: 0..StreamLen, right: 0..(StreamLen + Wnd + 1)]
    /\ closed = "no" =>
          /\ peer.una <= Len(stream)
          /\ \E R \in 0..(StreamLen + Wnd) :
                /\ BlockInv(pcb, Len(stream), Window(Len(stream)), R)
                /\ peer.right <= R
    /\ closed # "no" =>
          /\ closed = "fin" /\ Len(stream) = StreamLen
          /\ pcb \in Pcb /\ pcb.ooseq = <<>>

-----------------------------------------------------------------------------
(* Places and sequence numbers. *)

\* The constants are numbers, and the window is open as long as the stream runs.
LEMMA ConstantFacts ==
    /\ Width \in Nat \ {0} /\ Iss \in Nat /\ StreamLen \in Nat /\ Header \in Nat
    /\ Wnd \in Nat /\ Mss \in Nat /\ Width \div 2 \in Nat
    /\ StreamLen + Wnd < Width \div 2
    /\ 0 < Header /\ Header < StreamLen /\ Header < Wnd
<1>1. /\ StreamLen \in Nat \ {0} /\ Header \in Nat \ {0} /\ Wnd \in Nat \ {0}
      /\ Mss \in Nat \ {0}
  BY TcpAssumption
<1>2. Width \in Nat /\ Iss \in 0..(Width - 1) /\ Width > 2 * (StreamLen + Wnd + 1)
  BY TcpAssumption
<1>3. Header < StreamLen /\ Header + Mss <= Wnd
  BY TcpAssumption
<1> QED BY <1>1, <1>2, <1>3

\* A number is its quotient and its remainder.
LEMMA DivMod ==
    ASSUME NEW M \in Nat \ {0}, NEW a \in Int
    PROVE  \E q \in Int : \E r \in 0..(M - 1) : a = M * q + r /\ a % M = r
<1>1. a - (a % M) = M * (a \div M)
  OBVIOUS
<1>2. a % M \in 0 .. M - 1 /\ a \div M \in Int
  OBVIOUS
<1>3. M * (a \div M) \in Int
  BY <1>2
<1>4. a = M * (a \div M) + (a % M)
  BY <1>1, <1>2, <1>3
<1> QED BY <1>2, <1>4

\* The remainder is what is left of multiples.
LEMMA ModUnique ==
    ASSUME NEW M \in Nat \ {0}, NEW q \in Int, NEW r \in 0..(M - 1)
    PROVE  (M * q + r) % M = r
OBVIOUS

\* Counting on from a place.
LEMMA AddPlace ==
    ASSUME NEW a \in Int, NEW n \in Int
    PROVE  Add(SeqnoAt(a), n) = SeqnoAt(a + n) /\ SeqnoAt(a) \in Numbers
<1>1. PICK p \in Int : \E r \in 0..(Width - 1) : Iss + a = Width * p + r /\ (Iss + a) % Width = r
  BY ConstantFacts, DivMod
<1>2. PICK r \in 0..(Width - 1) : Iss + a = Width * p + r /\ (Iss + a) % Width = r
  BY <1>1
<1>3. PICK s \in Int : \E u \in 0..(Width - 1) :
                Iss + (a + n) = Width * s + u /\ (Iss + (a + n)) % Width = u
  BY ConstantFacts, DivMod
<1>4. PICK u \in 0..(Width - 1) : Iss + (a + n) = Width * s + u /\ (Iss + (a + n)) % Width = u
  BY <1>3
<1>5. Width * (s - p) = Width * s - Width * p /\ Width * s \in Int /\ Width * p \in Int
  BY ConstantFacts
<1>6. r + n = Width * (s - p) + u
  BY <1>2, <1>4, <1>5, ConstantFacts
<1>7. (Width * (s - p) + u) % Width = u
  <2>1. s - p \in Int
    OBVIOUS
  <2> QED BY Zenon, <2>1, ModUnique, ConstantFacts
<1> QED BY <1>2, <1>4, <1>6, <1>7 DEF Add, SeqnoAt, Numbers

\* How far two numbers are apart.
LEMMA Apart ==
    ASSUME NEW a \in Int, NEW b \in Int
    PROVE  /\ a - b \in 0..(Width - 1) => (SeqnoAt(a) - SeqnoAt(b)) % Width = a - b
           /\ b - a \in 1..(Width - 1) => (SeqnoAt(a) - SeqnoAt(b)) % Width = Width + a - b
<1>1. PICK p \in Int : \E r \in 0..(Width - 1) : Iss + a = Width * p + r /\ (Iss + a) % Width = r
  BY ConstantFacts, DivMod
<1>2. PICK r \in 0..(Width - 1) : Iss + a = Width * p + r /\ (Iss + a) % Width = r
  BY <1>1
<1>3. PICK s \in Int : \E u \in 0..(Width - 1) : Iss + b = Width * s + u /\ (Iss + b) % Width = u
  BY ConstantFacts, DivMod
<1>4. PICK u \in 0..(Width - 1) : Iss + b = Width * s + u /\ (Iss + b) % Width = u
  BY <1>3
<1>5. /\ Width * (s - p) = Width * s - Width * p /\ Width * s \in Int /\ Width * p \in Int
      /\ Width * (s - p - 1) = Width * s - Width * p - Width
  BY ConstantFacts
<1>6. SeqnoAt(a) - SeqnoAt(b) = r - u
  BY <1>2, <1>4 DEF Add, SeqnoAt
<1>7. /\ r - u = Width * (s - p) + (a - b)
      /\ r - u = Width * (s - p - 1) + (Width + a - b)
  BY <1>2, <1>4, <1>5, ConstantFacts
<1>8. ASSUME a - b \in 0..(Width - 1)
      PROVE  (SeqnoAt(a) - SeqnoAt(b)) % Width = a - b
  <2>1. s - p \in Int
    OBVIOUS
  <2>2. (Width * (s - p) + (a - b)) % Width = a - b
    BY Zenon, <1>8, <2>1, ModUnique, ConstantFacts
  <2> QED BY <1>6, <1>7, <2>2
<1>9. ASSUME b - a \in 1..(Width - 1)
      PROVE  (SeqnoAt(a) - SeqnoAt(b)) % Width = Width + a - b
  <2>1. Width + a - b \in 0..(Width - 1) /\ s - p - 1 \in Int
    BY <1>9, ConstantFacts
  <2>2. (Width * (s - p - 1) + (Width + a - b)) % Width = Width + a - b
    BY Zenon, <2>1, ModUnique, ConstantFacts
  <2> QED BY <1>6, <1>7, <2>2
<1> QED BY <1>8, <1>9

Places == 0..(StreamLen + Wnd)

LEMMA PlaceNat == \A n \in Places : n \in Nat /\ n \in Int
BY ConstantFacts DEF Places

\* The macros of tcp_priv.h that compare sequence numbers compare the places.
LEMMA Compare ==
    ASSUME NEW a \in Places, NEW b \in Places
    PROVE  /\ SeqLT(SeqnoAt(a), SeqnoAt(b)) <=> a < b
           /\ SeqnoAt(a) = SeqnoAt(b) <=> a = b
           /\ b <= a => (SeqnoAt(a) - SeqnoAt(b)) % Width = a - b
<1>1. a \in Int /\ b \in Int
  BY ConstantFacts DEF Places
<1>2. CASE b <= a
  <2>1. a - b \in 0..(Width - 1) /\ ~ (a - b >= Width \div 2)
    BY <1>2, ConstantFacts DEF Places
  <2>2. (SeqnoAt(a) - SeqnoAt(b)) % Width = a - b
    BY <1>1, <2>1, Apart
  <2>3. SeqnoAt(a) = SeqnoAt(b) => a = b
    <3>1. SUFFICES ASSUME SeqnoAt(a) = SeqnoAt(b)
                   PROVE  a = b
      OBVIOUS
    <3>2. SeqnoAt(a) \in Int
      BY <1>1, AddPlace, ConstantFacts DEF Numbers
    <3>3. SeqnoAt(a) - SeqnoAt(b) = Width * 0 + 0
      BY <3>1, <3>2, ConstantFacts
    <3>4. (Width * 0 + 0) % Width = 0
      BY ModUnique, ConstantFacts
    <3> QED BY <2>2, <3>3, <3>4, <1>1
  <2> QED BY <1>1, <1>2, <2>1, <2>2, <2>3 DEF SeqLT
<1>3. CASE a < b
  <2>1. b - a \in 1..(Width - 1) /\ Width + a - b >= Width \div 2
    BY <1>3, ConstantFacts DEF Places
  <2>2. (SeqnoAt(a) - SeqnoAt(b)) % Width = Width + a - b
    BY <1>1, <2>1, Apart
  <2>3. SeqnoAt(a) # SeqnoAt(b)
    <3>1. SUFFICES ASSUME SeqnoAt(a) = SeqnoAt(b)
                   PROVE  FALSE
      OBVIOUS
    <3>2. SeqnoAt(a) \in Int
      BY <1>1, AddPlace, ConstantFacts DEF Numbers
    <3>3. SeqnoAt(a) - SeqnoAt(b) = Width * 0 + 0
      BY <3>1, <3>2, ConstantFacts
    <3>4. (Width * 0 + 0) % Width = 0
      BY ModUnique, ConstantFacts
    <3> QED BY <2>1, <2>2, <3>3, <3>4, <1>1, ConstantFacts
  <2> QED BY <1>1, <1>3, <2>1, <2>2, <2>3 DEF SeqLT
<1> QED BY <1>1, <1>2, <1>3

-----------------------------------------------------------------------------
(* Queues. *)

LEMMA Behind ==
    ASSUME NEW a \in Int, NEW b \in Int, NEW n \in Nat, NEW c \in Int, a < b, b + n <= c
    PROVE  a < c
OBVIOUS

\* A set of numbers that is not empty has a least member.
LEMMA LeastExists ==
    ASSUME NEW S \in SUBSET Nat, S # {}
    PROVE  \E i \in S : \A j \in S : i <= j
<1> DEFINE R == OpToRel(<, Nat)
<1>1. IsWellFoundedOn(R, Nat)
  BY NatLessThanWellFounded, Zenon
<1>2. \A i, j \in S : j < i => <<j, i>> \in R
  BY DEF OpToRel
<1> HIDE DEF R
<1>3. PICK i \in S : \A j \in S : ~ (<<j, i>> \in R)
  BY <1>1, WFMin, Zenon
<1>4. \A j \in S : i \in Nat /\ j \in Nat /\ ~ (j < i)
  BY Zenon, <1>2, <1>3
<1>5. \A j \in S : i <= j
  BY <1>4
<1> QED BY <1>5

\* A walk from the start of a queue passes the places of I in front of the
\* first that is not in I.
LEMMA LeadingFacts ==
    ASSUME NEW S, NEW q \in Seq(S), NEW I \in SUBSET (1..Len(q))
    PROVE  /\ Leading(q, I) \in 0..Len(q) /\ Leading(q, I) + 1 \notin I
           /\ \A i \in 1..Leading(q, I) : i \in I
<1> DEFINE O == {i \in 1..(Len(q) + 1) : i \notin I}
<1>1. Len(q) \in Nat /\ Len(q) + 1 \in O /\ O \in SUBSET Nat
  OBVIOUS
<1>2. PICK m \in O : \A j \in O : m <= j
  BY <1>1, LeastExists, Zenon
<1>3. m - 1 \in 0..Len(q) /\ 1..(m - 1) \subseteq I /\ (m - 1) + 1 \notin I
  BY <1>1, <1>2
<1>4. \E k \in 0..Len(q) : 1..k \subseteq I /\ k + 1 \notin I
  BY <1>3, Zenon
<1>5. /\ Leading(q, I) \in 0..Len(q) /\ 1..Leading(q, I) \subseteq I
      /\ Leading(q, I) + 1 \notin I
  BY <1>4, Zenon DEF Leading
<1> QED BY <1>5

\* The parts in front of a place of a queue and behind it.
LEMMA PartFacts ==
    ASSUME NEW q, NEW n \in Int, NEW R \in Places, QueueInv(q, n, R), NEW k \in 0..Len(q)
    PROVE  /\ QueueInv(SubSeq(q, 1, k), n, R) /\ Len(SubSeq(q, 1, k)) = k
           /\ \A i \in 1..k : SubSeq(q, 1, k)[i] = q[i]
           /\ QueueInv(From(q, k + 1), n, R) /\ Len(From(q, k + 1)) = Len(q) - k
           /\ \A i \in 1..(Len(q) - k) : From(q, k + 1)[i] = q[k + i]
<1>1. q \in Seq(Segment) /\ Len(q) \in Nat /\ k \in Nat
  BY DEF QueueInv
<1> DEFINE a == SubSeq(q, 1, k)
           b == SubSeq(q, k + 1, Len(q))
<1>2. a \in Seq(Segment) /\ Len(a) = k /\ \A i \in 1..k : a[i] = q[i]
  BY <1>1
<1>3. b \in Seq(Segment) /\ Len(b) = Len(q) - k /\ \A i \in 1..(Len(q) - k) : b[i] = q[k + i]
  BY <1>1
<1> HIDE DEF a, b
<1>4. \A i \in 1..Len(q) : Piece(q[i], R) /\ n < q[i].from
  BY DEF QueueInv
<1>5. \A i, j \in 1..Len(q) : i < j => q[i].from + q[i].len <= q[j].from /\ ~q[i].fin
  BY DEF QueueInv
<1>6. QueueInv(a, n, R)
  <2>1. \A i \in 1..Len(a) : i \in 1..Len(q) /\ a[i] = q[i]
    BY <1>1, <1>2
  <2> QED BY <1>2, <1>4, <1>5, <2>1 DEF QueueInv
<1>7. QueueInv(b, n, R)
  <2>1. \A i \in 1..Len(b) : k + i \in 1..Len(q) /\ b[i] = q[k + i]
    BY <1>1, <1>3
  <2>2. \A i, j \in 1..Len(b) : i < j => k + i < k + j
    BY <1>1, <1>3
  <2> QED BY Zenon, <1>3, <1>4, <1>5, <2>1, <2>2 DEF QueueInv
<1> QED BY <1>2, <1>3, <1>6, <1>7 DEF a, b, From

\* Two queues one behind the other.
LEMMA JoinFacts ==
    ASSUME NEW a, NEW b, NEW n \in Int, NEW R \in Places,
           QueueInv(a, n, R), QueueInv(b, n, R),
           \A i \in 1..Len(a), j \in 1..Len(b) :
                a[i].from + a[i].len <= b[j].from /\ ~a[i].fin
    PROVE  /\ QueueInv(a \o b, n, R) /\ Len(a \o b) = Len(a) + Len(b)
           /\ \A i \in 1..Len(a) : (a \o b)[i] = a[i]
           /\ \A i \in 1..Len(b) : (a \o b)[Len(a) + i] = b[i]
<1>1. a \in Seq(Segment) /\ Len(a) \in Nat /\ b \in Seq(Segment) /\ Len(b) \in Nat
  BY DEF QueueInv
<1> DEFINE c == a \o b
<1>2. c \in Seq(Segment) /\ Len(c) = Len(a) + Len(b) /\ \A i \in 1..Len(a) : c[i] = a[i]
  BY <1>1
<1>3. \A i \in 1..Len(b) : c[Len(a) + i] = b[i]
  BY <1>1
<1> HIDE DEF c
<1>4. \A i \in 1..Len(c) : \/ i \in 1..Len(a) /\ c[i] = a[i]
                           \/ i - Len(a) \in 1..Len(b) /\ c[i] = b[i - Len(a)]
  <2>1. SUFFICES ASSUME NEW i \in 1..Len(c), ~ (i \in 1..Len(a))
                 PROVE  i - Len(a) \in 1..Len(b) /\ c[i] = b[i - Len(a)]
    BY <1>2, Zenon
  <2>2. i - Len(a) \in 1..Len(b) /\ Len(a) + (i - Len(a)) = i
    BY <1>1, <1>2, <2>1
  <2> QED BY <1>3, <2>2
<1>5. \A i \in 1..Len(c) : Piece(c[i], R) /\ n < c[i].from
  BY <1>4, Zenon DEF QueueInv
<1>6. ASSUME NEW i \in 1..Len(c), NEW j \in 1..Len(c), i < j
      PROVE  c[i].from + c[i].len <= c[j].from /\ ~c[i].fin
  <2>1. CASE j \in 1..Len(a) /\ c[j] = a[j]
    <3>1. i \in 1..Len(a)
      BY <1>1, <1>6, <2>1
    <3> QED BY <1>2, <1>6, <2>1, <3>1 DEF QueueInv
  <2>2. CASE j - Len(a) \in 1..Len(b) /\ c[j] = b[j - Len(a)]
    <3>1. CASE i \in 1..Len(a) /\ c[i] = a[i]
      BY <2>2, <3>1
    <3>2. CASE i - Len(a) \in 1..Len(b) /\ c[i] = b[i - Len(a)]
      <4>1. i - Len(a) < j - Len(a)
        BY <1>1, <1>2, <1>6
      <4> QED BY Zenon, <2>2, <3>2, <4>1 DEF QueueInv
    <3> QED BY <1>4, <3>1, <3>2
  <2> QED BY <1>4, <2>1, <2>2
<1> QED BY <1>2, <1>3, <1>5, <1>6 DEF QueueInv, c

\* A queue of one segment.
LEMMA OneFacts ==
    ASSUME NEW s, NEW n \in Int, NEW R \in Places, Piece(s, R), n < s.from
    PROVE  QueueInv(<<s>>, n, R) /\ Len(<<s>>) = 1 /\ <<s>>[1] = s
<1>1. s \in Segment
  BY DEF Piece
<1>2. <<s>> \in Seq(Segment) /\ Len(<<s>>) = 1 /\ <<s>>[1] = s
  BY <1>1
<1>3. \A i \in 1..Len(<<s>>) : i = 1
  BY <1>2
<1> QED BY <1>2, <1>3 DEF QueueInv

\* The numbers of a piece.
LEMMA PieceFacts ==
    ASSUME NEW R \in Places, NEW s, Piece(s, R)
    PROVE  /\ s \in Segment /\ s.fin \in BOOLEAN /\ s.seqno = SeqnoAt(s.from)
           /\ s.from \in Places /\ s.from \in 0..StreamLen /\ s.len \in 0..Mss
           /\ s.from + s.len \in Places /\ s.from + s.len <= StreamLen /\ s.from + s.len <= R
           /\ s.fin => s.from + s.len = StreamLen
           /\ TcpLen(s) \in Nat /\ TcpLen(s) > 0 /\ Stop(s) \in Places /\ Stop(s) <= R
           /\ TcpLen(s) = IF s.fin THEN s.len + 1 ELSE s.len
           /\ Add(s.seqno, s.len) = SeqnoAt(s.from + s.len)
           /\ Add(s.seqno, TcpLen(s)) = SeqnoAt(Stop(s))
<1>1. s \in Segment /\ s.from + s.len <= StreamLen /\ TcpLen(s) > 0 /\ Stop(s) <= R
      /\ (s.fin => s.from + s.len = StreamLen) /\ s.seqno = SeqnoAt(s.from)
  BY DEF Piece
<1>2. s.fin \in BOOLEAN /\ s.from \in 0..StreamLen /\ s.len \in 0..Mss
  BY <1>1 DEF Segment
<1>3. /\ s.from \in Nat /\ s.len \in Nat /\ StreamLen \in Nat /\ Wnd \in Nat /\ Mss \in Nat
      /\ R \in Nat /\ R <= StreamLen + Wnd
  BY <1>2, ConstantFacts DEF Places
<1>4. TcpLen(s) = IF s.fin THEN s.len + 1 ELSE s.len
  BY <1>2, <1>3 DEF TcpLen
<1>5. TcpLen(s) \in Nat /\ Stop(s) \in Nat /\ s.from + s.len <= Stop(s)
  BY <1>2, <1>3, <1>4 DEF Stop
<1>6. /\ Add(s.seqno, s.len) = SeqnoAt(s.from + s.len)
      /\ Add(s.seqno, TcpLen(s)) = SeqnoAt(Stop(s))
  <2>1. s.from \in Int /\ s.len \in Int /\ TcpLen(s) \in Int
    BY <1>3, <1>5
  <2> QED BY <1>1, <2>1, AddPlace, Zenon DEF Stop
<1>7. s.from \in Places /\ s.from + s.len \in Places /\ Stop(s) \in Places /\ s.from + s.len <= R
  BY <1>1, <1>3, <1>5 DEF Places
<1> QED BY <1>1, <1>2, <1>4, <1>5, <1>6, <1>7

\* A segment that is cut at a place behind its start is a piece of the stream.
LEMMA CutFacts ==
    ASSUME NEW R \in Places, NEW s, Piece(s, R), NEW b \in 0..StreamLen, s.from < b,
           s.fin => s.from + s.len <= b
    PROVE  /\ Piece(CutAt(s, SeqnoAt(b)), R) /\ CutAt(s, SeqnoAt(b)).from = s.from
           /\ CutAt(s, SeqnoAt(b)).from + CutAt(s, SeqnoAt(b)).len <= b
           /\ CutAt(s, SeqnoAt(b)).fin = s.fin
<1>1. /\ s \in Segment /\ s.seqno = SeqnoAt(s.from) /\ s.from \in Places /\ s.len \in 0..Mss
      /\ s.from + s.len \in Places /\ Add(s.seqno, s.len) = SeqnoAt(s.from + s.len)
      /\ s.from + s.len <= StreamLen /\ s.from + s.len <= R /\ s.from \in 0..StreamLen
  BY PieceFacts, Zenon
<1>2. /\ s.from \in Nat /\ s.len \in Nat /\ StreamLen \in Nat /\ Wnd \in Nat /\ Mss \in Nat
      /\ b \in Nat /\ b \in Places /\ R \in Nat
  BY <1>1, ConstantFacts DEF Places
<1>3. SeqGT(Add(s.seqno, s.len), SeqnoAt(b)) <=> b < s.from + s.len
  BY <1>1, <1>2, Compare DEF SeqGT
<1>4. CASE b < s.from + s.len
  <2> DEFINE c == [s EXCEPT !.len = b - s.from]
  <2>1. (SeqnoAt(b) - s.seqno) % Width = b - s.from
    BY <1>1, <1>2, Compare
  <2>2. CutAt(s, SeqnoAt(b)) = c
    BY <1>3, <1>4, <2>1 DEF CutAt
  <2>3. b - s.from \in 0..Mss /\ b - s.from > 0
    BY <1>1, <1>2, <1>4
  <2>4. /\ c \in Segment /\ c.from = s.from /\ c.seqno = s.seqno /\ c.fin = s.fin
        /\ c.len = b - s.from
    BY <1>1, <2>3 DEF Segment
  <2>5. ~s.fin
    BY <1>2, <1>4
  <2> HIDE DEF c
  <2>6. c.from + c.len = b /\ TcpLen(c) = b - s.from /\ Stop(c) = b
    BY <1>2, <2>3, <2>4, <2>5 DEF TcpLen, Stop
  <2>7. Piece(c, R)
    BY <1>1, <1>2, <1>4, <2>3, <2>4, <2>5, <2>6 DEF Piece
  <2> QED BY <1>2, <2>2, <2>4, <2>6, <2>7
<1>5. CASE ~ (b < s.from + s.len)
  <2>1. CutAt(s, SeqnoAt(b)) = s
    BY <1>3, <1>5 DEF CutAt
  <2> QED BY <1>2, <1>5, <2>1
<1> QED BY <1>4, <1>5

\* tcp_oos_insert_segment: a piece in front of a queue swallows what it covers
\* and ends in front of the rest; nothing is left behind a FIN.
LEMMA OosInsertFacts ==
    ASSUME NEW R \in Places, NEW s, Piece(s, R), NEW n \in Int, NEW q, QueueInv(q, n, R),
           \A i \in 1..Len(q) : \/ s.from < q[i].from
                                \/ s.from = q[i].from /\ q[i].len <= s.len
    PROVE  LET o == OosInsert(s, q)
           IN  /\ Piece(o.seg, R) /\ o.seg.from = s.from /\ QueueInv(o.rest, n, R)
               /\ \A j \in 1..Len(o.rest) : o.seg.from + o.seg.len <= o.rest[j].from /\ ~o.seg.fin
<1> DEFINE o == OosInsert(s, q)
<1>0. /\ s \in Segment /\ s.seqno = SeqnoAt(s.from) /\ s.from \in Places /\ s.len \in 0..Mss
      /\ s.from + s.len \in Places /\ Add(s.seqno, s.len) = SeqnoAt(s.from + s.len)
      /\ s.from + s.len <= StreamLen /\ s.from + s.len <= R /\ s.fin \in BOOLEAN
      /\ Stop(s) <= R /\ TcpLen(s) > 0 /\ (TcpLen(s) = IF s.fin THEN s.len + 1 ELSE s.len)
      /\ s.from \in 0..StreamLen
  BY PieceFacts, Zenon
<1>1. CASE s.fin
  <2>1. o.seg = s /\ o.rest = <<>>
    BY <1>1 DEF OosInsert
  <2>2. QueueInv(<<>>, n, R) /\ Len(<<>>) = 0
    BY DEF QueueInv
  <2> QED BY <2>1, <2>2
<1>2. CASE ~s.fin
  <2> DEFINE end == Add(s.seqno, s.len)
             I == {i \in DOMAIN q : SeqGEQ(end, Add(q[i].seqno, q[i].len))}
             k == Leading(q, I)
             rest == From(q, k + 1)
             t == [s EXCEPT !.fin = \E i \in 1..k : q[i].fin]
  <2>1. /\ o.seg = IF rest # <<>> THEN CutAt(t, Head(rest).seqno) ELSE t
        /\ o.rest = rest
    BY <1>2, Zenon DEF OosInsert
  <2>2. q \in Seq(Segment) /\ Len(q) \in Nat /\ DOMAIN q = 1..Len(q)
    BY DEF QueueInv
  <2>3. \A i \in 1..Len(q) : /\ Piece(q[i], R) /\ q[i].from \in Nat /\ q[i].len \in Nat
                             /\ q[i].from + q[i].len \in Places
                             /\ Add(q[i].seqno, q[i].len) = SeqnoAt(q[i].from + q[i].len)
                             /\ q[i].fin => q[i].from + q[i].len = StreamLen
                             /\ q[i].seqno = SeqnoAt(q[i].from) /\ q[i].from \in 0..StreamLen
    <3>1. SUFFICES ASSUME NEW i \in 1..Len(q)
                   PROVE  /\ Piece(q[i], R) /\ q[i].from \in Nat /\ q[i].len \in Nat
                          /\ q[i].from + q[i].len \in Places
                          /\ Add(q[i].seqno, q[i].len) = SeqnoAt(q[i].from + q[i].len)
                          /\ q[i].fin => q[i].from + q[i].len = StreamLen
                          /\ q[i].seqno = SeqnoAt(q[i].from) /\ q[i].from \in 0..StreamLen
      BY Zenon
    <3>2. Piece(q[i], R)
      BY DEF QueueInv
    <3> QED BY <3>2, PieceFacts, ConstantFacts
  <2>4. \A i \in 1..Len(q) : i \in I <=> q[i].from + q[i].len <= s.from + s.len
    <3>1. SUFFICES ASSUME NEW i \in 1..Len(q)
                   PROVE  SeqGEQ(end, Add(q[i].seqno, q[i].len))
                            <=> q[i].from + q[i].len <= s.from + s.len
      BY <2>2
    <3>2. SeqLT(SeqnoAt(s.from + s.len), SeqnoAt(q[i].from + q[i].len))
            <=> s.from + s.len < q[i].from + q[i].len
      BY <1>0, <2>3, Compare
    <3>3. s.from + s.len \in Int /\ q[i].from + q[i].len \in Int
      BY <1>0, <2>3, ConstantFacts DEF Places
    <3> QED BY <1>0, <2>3, <3>2, <3>3 DEF SeqGEQ
  <2>5. k \in 0..Len(q) /\ k + 1 \notin I /\ \A i \in 1..k : i \in I
    BY <2>2, LeadingFacts
  <2> HIDE DEF I, k
  <2>6. /\ QueueInv(rest, n, R) /\ Len(rest) = Len(q) - k
        /\ \A i \in 1..(Len(q) - k) : rest[i] = q[k + i]
    BY <2>5, PartFacts
  <2>7. t \in Segment /\ t.from = s.from /\ t.len = s.len /\ t.seqno = s.seqno
        /\ (t.fin <=> \E i \in 1..k : q[i].fin) /\ t.fin \in BOOLEAN
    BY Zenon, <1>0 DEF Segment
  <2> HIDE DEF t, rest
  <2>8. ASSUME t.fin
        PROVE  s.from + s.len = StreamLen /\ k = Len(q)
    <3>1. PICK i \in 1..k : q[i].fin
      BY <2>7, <2>8
    <3>2. i \in 1..Len(q) /\ k \in Nat
      BY <2>2, <2>5
    <3>3. q[i].from + q[i].len = StreamLen /\ q[i].from + q[i].len <= s.from + s.len
      BY <2>3, <2>4, <2>5, <3>1, <3>2
    <3>4. ~ (i < k)
      <4>1. k \in 1..Len(q)
        BY <2>2, <2>5, <3>2
      <4> QED BY <3>1, <3>2, <4>1 DEF QueueInv
    <3>5. i = k
      BY <3>2, <3>4
    <3>6. ~ (k < Len(q))
      <4>1. SUFFICES ASSUME k < Len(q)
                     PROVE  FALSE
        OBVIOUS
      <4>2. Len(q) \in 1..Len(q) /\ k \in 1..Len(q)
        BY <2>2, <2>5, <3>2, <3>5, <4>1
      <4> QED BY <3>1, <3>5, <4>1, <4>2 DEF QueueInv
    <3>7. k = Len(q)
      <4>1. Len(q) \in Nat /\ k \in 0..Len(q)
        BY <2>2, <2>5
      <4> QED BY <3>6, <4>1
    <3>8. s.from + s.len \in Nat /\ StreamLen \in Nat
      BY <1>0, ConstantFacts DEF Places
    <3>9. s.from + s.len = StreamLen
      BY <1>0, <3>3, <3>8
    <3> QED BY <3>7, <3>9
  <2>9. Piece(t, R)
    <3>1. CASE t.fin
      <4>1. TcpLen(t) = s.len + 1 /\ Stop(t) = StreamLen + 1
        <5>1. s.from \in Nat /\ s.len \in Nat /\ s.from + s.len = StreamLen
          BY <1>0, <2>8, <3>1, ConstantFacts DEF Places
        <5>2. TcpLen(t) = s.len + 1
          BY <2>7, <3>1 DEF TcpLen
        <5> QED BY <2>7, <5>1, <5>2 DEF Stop
      <4>2. StreamLen + 1 <= R
        <5>1. PICK i \in 1..k : q[i].fin
          BY <2>7, <3>1
        <5>2. i \in 1..Len(q) /\ Piece(q[i], R)
          BY <2>2, <2>3, <2>5
        <5>3. /\ Stop(q[i]) <= R /\ TcpLen(q[i]) = q[i].len + 1
              /\ q[i].from + q[i].len = StreamLen
          BY <5>1, <5>2, PieceFacts
        <5> QED BY <2>3, <5>2, <5>3 DEF Stop
      <4> QED BY <1>0, <2>7, <2>8, <3>1, <4>1, <4>2, ConstantFacts DEF Piece
    <3>2. CASE ~t.fin
      <4>1. TcpLen(t) = s.len /\ Stop(t) = s.from + s.len
        BY <1>0, <2>7, <3>2 DEF TcpLen, Stop
      <4> QED BY <1>0, <1>2, <2>7, <3>2, <4>1 DEF Piece
    <3> QED BY <3>1, <3>2
  <2>10. CASE k = Len(q)
    <3>1. rest = <<>> /\ Len(rest) = 0
      BY <2>2, <2>6, <2>10 DEF QueueInv
    <3> QED BY <2>1, <2>6, <2>7, <2>9, <3>1
  <2>11. CASE k # Len(q)
    <3>1. k + 1 \in 1..Len(q) /\ 1 \in 1..(Len(q) - k) /\ k \in Nat
      <4>1. Len(q) \in Nat /\ k \in 0..Len(q) /\ k # Len(q)
        BY Zenon, <2>2, <2>5, <2>11
      <4> QED BY <4>1
    <3>2. rest # <<>> /\ Head(rest) = q[k + 1]
      BY <2>2, <2>6, <3>1 DEF QueueInv
    <3>3. s.from + s.len < q[k + 1].from + q[k + 1].len
      <4>1. ~ (q[k + 1].from + q[k + 1].len <= s.from + s.len)
        BY Zenon, <2>4, <2>5, <3>1
      <4>2. s.from + s.len \in Int
        BY Zenon, <1>0, PlaceNat
      <4>3. q[k + 1].from \in Nat /\ q[k + 1].len \in Nat
        BY <2>3, <3>1
      <4> QED BY <4>1, <4>2, <4>3
    <3>4. ~t.fin
      BY <2>8, <2>11
    <3> DEFINE b == q[k + 1].from
    <3>5. b \in 0..StreamLen /\ q[k + 1].seqno = SeqnoAt(b)
      BY <2>3, <3>1
    <3>6. \A j \in 1..Len(rest) : b <= rest[j].from
      <4>1. SUFFICES ASSUME NEW j \in 1..Len(rest)
                     PROVE  b <= q[k + j].from
        BY <2>6
      <4>2. k + j \in 1..Len(q) /\ (j = 1 \/ k + 1 < k + j)
        BY <2>2, <2>6, <3>1
      <4>3. CASE j = 1
        BY <2>3, <3>1, <4>3
      <4>4. CASE k + 1 < k + j
        <5>1. q[k + 1].from + q[k + 1].len <= q[k + j].from
          BY <3>1, <4>2, <4>4 DEF QueueInv
        <5> QED BY <2>3, <3>1, <4>2, <5>1
      <4> QED BY <4>2, <4>3, <4>4
    <3>7. s.from < b
      <4>1. /\ s.from \in Nat /\ s.len \in Nat
            /\ q[k + 1].from \in Nat /\ q[k + 1].len \in Nat
        BY <1>0, <2>3, <3>1, ConstantFacts DEF Places
      <4>2. \/ s.from < q[k + 1].from
            \/ s.from = q[k + 1].from /\ q[k + 1].len <= s.len
        BY <3>1
      <4> QED BY <3>3, <4>1, <4>2
    <3>8. /\ Piece(CutAt(t, SeqnoAt(b)), R) /\ CutAt(t, SeqnoAt(b)).from = s.from
          /\ CutAt(t, SeqnoAt(b)).from + CutAt(t, SeqnoAt(b)).len <= b
          /\ ~CutAt(t, SeqnoAt(b)).fin
      BY <2>7, <2>9, <3>4, <3>5, <3>7, CutFacts
    <3>9. o.seg = CutAt(t, SeqnoAt(b))
      BY <2>1, <3>2, <3>5
    <3>10. o.seg.from + o.seg.len \in Int
      <4>1. Piece(o.seg, R)
        BY Zenon, <3>8, <3>9
      <4>2. o.seg.from + o.seg.len \in Places
        BY Zenon, <4>1, PieceFacts
      <4> QED BY Zenon, <4>2, PlaceNat
    <3>11. \A j \in 1..Len(rest) : rest[j].from \in Int
      <4>1. \A j \in 1..Len(rest) : Piece(rest[j], R)
        BY <2>6 DEF QueueInv
      <4> QED BY <4>1, PieceFacts
    <3>12. \A j \in 1..Len(rest) : o.seg.from + o.seg.len <= rest[j].from
      BY <3>5, <3>6, <3>8, <3>9, <3>10, <3>11
    <3> QED BY <2>1, <2>6, <3>8, <3>9, <3>12
  <2> QED BY <2>10, <2>11
<1> QED BY <1>0, <1>1, <1>2

\* A piece that starts in front of everything in the queue.
InFront(o, s, n, R) ==
    /\ Piece(o.seg, R) /\ o.seg.from = s.from /\ QueueInv(o.rest, n, R)
    /\ \A j \in 1..Len(o.rest) : o.seg.from + o.seg.len <= o.rest[j].from /\ ~o.seg.fin

LEMMA InFrontFacts ==
    ASSUME NEW R \in Places, NEW s, Piece(s, R), NEW n \in Int, NEW q, QueueInv(q, n, R),
           \A i \in 1..Len(q) : s.from < q[i].from
    PROVE  InFront(OosInsert(s, q), s, n, R)
<1> DEFINE o == OosInsert(s, q)
<1>1. /\ Piece(o.seg, R) /\ o.seg.from = s.from /\ QueueInv(o.rest, n, R)
      /\ \A j \in 1..Len(o.rest) : o.seg.from + o.seg.len <= o.rest[j].from /\ ~o.seg.fin
  BY OosInsertFacts
<1> HIDE DEF o
<1>2. InFront(o, s, n, R)
  BY Zenon, <1>1 DEF InFront
<1> QED BY <1>2 DEF o

\* The queue after the insertion of a piece.
LEMMA InsertedFacts ==
    ASSUME NEW R \in Places, NEW s, Piece(s, R), NEW n \in Int, NEW q, QueueInv(q, n, R),
           \A i \in 1..Len(q) : \/ s.from < q[i].from
                                \/ s.from = q[i].from /\ q[i].len <= s.len,
           n < s.from
    PROVE  /\ QueueInv(Inserted(s, q), n, R)
           /\ \A i \in 1..Len(Inserted(s, q)) : s.from <= Inserted(s, q)[i].from
<1> DEFINE o == OosInsert(s, q)
<1>1. /\ Piece(o.seg, R) /\ o.seg.from = s.from /\ QueueInv(o.rest, n, R)
      /\ \A j \in 1..Len(o.rest) : o.seg.from + o.seg.len <= o.rest[j].from /\ ~o.seg.fin
  BY OosInsertFacts
<1>2. Inserted(s, q) = <<o.seg>> \o o.rest
  BY DEF Inserted
<1> HIDE DEF o
<1>3. QueueInv(<<o.seg>>, n, R) /\ Len(<<o.seg>>) = 1 /\ <<o.seg>>[1] = o.seg
  BY <1>1, OneFacts
<1>4. \A i \in 1..Len(<<o.seg>>), j \in 1..Len(o.rest) :
            <<o.seg>>[i].from + <<o.seg>>[i].len <= o.rest[j].from /\ ~<<o.seg>>[i].fin
  <2>1. \A i \in 1..Len(<<o.seg>>) : <<o.seg>>[i] = o.seg
    BY <1>3
  <2> QED BY <1>1, <2>1, Zenon
<1> DEFINE c == <<o.seg>> \o o.rest
<1>5. QueueInv(c, n, R) /\ Len(c) = Len(<<o.seg>>) + Len(o.rest) /\ c[1] = <<o.seg>>[1]
  <2>1. 1 \in 1..Len(<<o.seg>>)
    BY <1>3
  <2> QED BY <1>1, <1>3, <1>4, <2>1, JoinFacts
<1> HIDE DEF c
<1>6. ASSUME NEW i \in 1..Len(c)
      PROVE  s.from <= c[i].from
  <2>1. s.from \in Nat /\ c[1].from = s.from /\ c[1].len \in Nat /\ c[i].from \in Nat
    <3>1. Piece(c[i], R) /\ s.from \in 0..StreamLen /\ o.seg.len \in 0..Mss
      BY <1>1, <1>5, PieceFacts, Zenon DEF QueueInv
    <3>2. c[i].from \in 0..StreamLen
      BY <3>1, PieceFacts, Zenon
    <3> QED BY <1>1, <1>3, <1>5, <3>1, <3>2, ConstantFacts
  <2>2. CASE i = 1
    BY <2>1, <2>2
  <2>3. CASE i # 1
    <3>1. 1 \in 1..Len(c) /\ 1 < i
      BY <2>3
    <3>2. c[1].from + c[1].len <= c[i].from
      BY <1>5, <3>1, Zenon DEF QueueInv
    <3> QED BY <2>1, <3>2
  <2> QED BY <2>2, <2>3
<1> QED BY <1>2, <1>5, <1>6 DEF c

\* The segments in front of a place, the last of them cut at it.
LEMMA TrimmedFacts ==
    ASSUME NEW n \in Int, NEW R \in Places, NEW q, QueueInv(q, n, R), NEW k \in 1..Len(q),
           NEW b \in 0..StreamLen, q[k].from < b, ~q[k].fin
    PROVE  LET t == [SubSeq(q, 1, k) EXCEPT ![k] = CutAt(@, SeqnoAt(b))]
           IN  /\ QueueInv(t, n, R)
               /\ \A i \in 1..Len(t) : t[i].from + t[i].len <= b /\ ~t[i].fin
<1> DEFINE a == SubSeq(q, 1, k)
           c == CutAt(q[k], SeqnoAt(b))
           t == [a EXCEPT ![k] = c]
<1>1. Len(q) \in Nat /\ k \in 0..Len(q)
  BY DEF QueueInv
<1>2. QueueInv(a, n, R) /\ Len(a) = k /\ \A i \in 1..k : a[i] = q[i]
  BY <1>1, PartFacts
<1>3. a \in Seq(Segment) /\ a[k] = q[k]
  BY <1>1, <1>2 DEF QueueInv
<1>4. Piece(q[k], R) /\ n < q[k].from
  BY DEF QueueInv
<1>5. Piece(c, R) /\ c.from = q[k].from /\ c.from + c.len <= b /\ c.fin = q[k].fin
  BY <1>4, CutFacts
<1> HIDE DEF a, c
<1>6. c \in Segment
  BY <1>5 DEF Piece
<1>7. t \in Seq(Segment) /\ Len(t) = k /\ \A i \in 1..k : t[i] = IF i = k THEN c ELSE a[i]
  BY <1>1, <1>2, <1>3, <1>6
<1>8. t = [a EXCEPT ![k] = CutAt(@, SeqnoAt(b))]
  BY <1>3 DEF c
<1> HIDE DEF t
<1>9. \A i \in 1..Len(t) : Piece(t[i], R) /\ n < t[i].from
  BY <1>2, <1>4, <1>5, <1>7 DEF QueueInv
<1>10. \A i, j \in 1..Len(t) : i < j => t[i].from + t[i].len <= t[j].from /\ ~t[i].fin
  <2>1. SUFFICES ASSUME NEW i \in 1..Len(t), NEW j \in 1..Len(t), i < j
                 PROVE  t[i].from + t[i].len <= t[j].from /\ ~t[i].fin
    BY Zenon
  <2>2. t[i] = a[i] /\ t[j].from = a[j].from
    BY <1>1, <1>3, <1>5, <1>7, <2>1
  <2> QED BY <1>2, <1>7, <2>1, <2>2 DEF QueueInv
<1>11. \A i \in 1..Len(t) : t[i].from + t[i].len <= b /\ ~t[i].fin
  <2>1. SUFFICES ASSUME NEW i \in 1..Len(t)
                 PROVE  t[i].from + t[i].len <= b /\ ~t[i].fin
    BY Zenon
  <2>2. CASE i = k
    BY <1>5, <1>7, <2>2
  <2>3. CASE i # k
    <3>1. i < k /\ k \in 1..Len(t) /\ t[k].from = q[k].from
      BY <1>1, <1>5, <1>7, <2>3
    <3>2. t[i].from + t[i].len <= q[k].from /\ ~t[i].fin
      BY <1>10, <3>1
    <3>3. q[k].from \in Nat /\ t[i].from + t[i].len \in Places
      <4>1. q[k].from \in 0..StreamLen
        BY <1>4, PieceFacts, Zenon
      <4>2. t[i].from + t[i].len \in Places
        BY <1>9, PieceFacts, Zenon
      <4> QED BY <4>1, <4>2, ConstantFacts
    <3> QED BY <3>2, <3>3, ConstantFacts DEF Places
  <2> QED BY <2>2, <2>3
<1>12. QueueInv(t, n, R)
  BY <1>7, <1>9, <1>10 DEF QueueInv
<1> QED BY <1>8, <1>11, <1>12 DEF a

\* tcp_receive, a segment out of sequence: the queue stays in order, whatever
\* the segment covers and whatever it is covered by.
LEMMA QueueFacts ==
    ASSUME NEW p, NEW n \in 0..StreamLen, NEW w \in 0..Wnd, NEW R \in Places,
           p.rcv_nxt = SeqnoAt(n), p.rcv_wnd = w, R <= n + w, QueueInv(p.ooseq, n, R),
           NEW s, Piece(s, R), n < s.from
    PROVE  QueueInv(Queue(p, s), n, R)
<1> DEFINE q == p.ooseq
           I == {i \in DOMAIN q : SeqLT(q[i].seqno, s.seqno)}
           k == Leading(q, I)
           t == [SubSeq(q, 1, k) EXCEPT ![k] = CutAt(@, s.seqno)]
           trimmed == IF k > 0 THEN t ELSE <<>>
           back == From(q, k + 1)
<1>0. n \in Int
  BY ConstantFacts
<1>1. q \in Seq(Segment) /\ Len(q) \in Nat /\ DOMAIN q = 1..Len(q)
  BY DEF QueueInv
<1>2. /\ s.from \in 0..StreamLen /\ s.seqno = SeqnoAt(s.from) /\ s.from \in Places
      /\ s.from \in Nat /\ s.len \in Nat /\ Stop(s) \in Places /\ Stop(s) <= R
      /\ Add(s.seqno, TcpLen(s)) = SeqnoAt(Stop(s))
  BY PieceFacts, ConstantFacts
<1>3. ASSUME NEW i \in 1..Len(q)
      PROVE  /\ Piece(q[i], R) /\ q[i].from \in Nat /\ q[i].len \in Nat
             /\ q[i].seqno = SeqnoAt(q[i].from) /\ q[i].from \in Places
             /\ ~q[i].fin => q[i].len > 0
  <2>1. Piece(q[i], R)
    BY DEF QueueInv
  <2>2. /\ q[i].from \in 0..StreamLen /\ q[i].len \in 0..Mss /\ q[i].from \in Places
        /\ q[i].seqno = SeqnoAt(q[i].from) /\ TcpLen(q[i]) > 0
        /\ (TcpLen(q[i]) = IF q[i].fin THEN q[i].len + 1 ELSE q[i].len)
    BY <2>1, PieceFacts, Zenon
  <2>3. q[i].from \in Nat /\ q[i].len \in Nat
    BY <2>2, ConstantFacts
  <2> QED BY <2>1, <2>2, <2>3, Zenon
<1>4. \A i \in 1..Len(q) : i \in I <=> q[i].from < s.from
  BY <1>1, <1>2, <1>3, Compare
<1>5. k \in 0..Len(q) /\ k + 1 \notin I /\ \A i \in 1..k : i \in I
  BY Zenon, <1>1, LeadingFacts
<1>6. q = <<>> => Queue(p, s) = <<s>>
  <2>1. SUFFICES ASSUME q = <<>> PROVE Queue(p, s) = <<s>>
    OBVIOUS
  <2>2. Len(q) = 0 /\ ~ (k < Len(q)) /\ ~ (k > 0)
    BY <1>1, <1>5, <2>1
  <2> QED BY Zenon, <2>1, <2>2 DEF Queue
<1>14. q # <<>> /\ k < Len(q) /\ q[k + 1].seqno = s.seqno =>
            Queue(p, s) = IF s.len > q[k + 1].len
                          THEN SubSeq(q, 1, k) \o Inserted(s, back) ELSE q
  BY DEF Queue
<1>15. q # <<>> /\ k < Len(q) /\ q[k + 1].seqno # s.seqno =>
            Queue(p, s) = trimmed \o Inserted(s, back)
  <2>1. k < Len(q) => k # Len(q)
    BY <1>1, <1>5
  <2> QED BY Zenon, <2>1 DEF Queue
<1>16. q # <<>> /\ k = Len(q) /\ ~ (k < Len(q)) /\ k > 0 =>
            Queue(p, s) = IF q[k].fin THEN q ELSE trimmed \o <<CutToWindow(p, s)>>
  BY Zenon DEF Queue
<1> HIDE DEF I, k
<1>7. \A i, j \in 1..Len(q) : i < j => q[i].from + q[i].len <= q[j].from /\ ~q[i].fin
  BY DEF QueueInv
<1>8. k \in Nat /\ \A i \in 1..k : i \in 1..Len(q) /\ q[i].from < s.from
  BY <1>1, <1>4, <1>5
<1>9. /\ QueueInv(SubSeq(q, 1, k), n, R) /\ Len(SubSeq(q, 1, k)) = k
      /\ \A i \in 1..k : SubSeq(q, 1, k)[i] = q[i]
      /\ QueueInv(back, n, R) /\ Len(back) = Len(q) - k
      /\ \A i \in 1..(Len(q) - k) : back[i] = q[k + i]
  BY Zenon, <1>0, <1>5, PartFacts
<1>10. ASSUME k > 0, ~q[k].fin
       PROVE  QueueInv(t, n, R) /\ \A i \in 1..Len(t) : t[i].from + t[i].len <= s.from /\ ~t[i].fin
  <2>1. k \in 1..Len(q) /\ q[k].from < s.from
    BY <1>8, <1>10
  <2> QED BY <1>0, <1>2, <1>10, <2>1, TrimmedFacts
<1> HIDE DEF t, back
<1>11. CASE q = <<>>
  <2>1. Queue(p, s) = <<s>>
    BY <1>6, <1>11
  <2> QED BY <1>0, <2>1, OneFacts
<1>12. CASE q # <<>> /\ k < Len(q)
  <2>1. k + 1 \in 1..Len(q) /\ ~ (q[k + 1].from < s.from)
    BY <1>1, <1>4, <1>5, <1>8, <1>12
  <2>2. s.from <= q[k + 1].from
    BY <1>2, <1>3, <2>1
  <2>3. q[k + 1].seqno = s.seqno <=> q[k + 1].from = s.from
    BY <1>2, <1>3, <2>1, Compare
  <2>4. ASSUME NEW i \in 1..Len(back), i # 1
        PROVE  s.from < back[i].from
    <3>1. k + i \in 1..Len(q) /\ back[i] = q[k + i] /\ k + 1 < k + i
      BY <1>1, <1>8, <1>9, <2>4
    <3>2. q[k + 1].from + q[k + 1].len <= q[k + i].from /\ ~q[k + 1].fin
      BY <1>7, <2>1, <3>1
    <3>3. q[k + 1].from \in Nat /\ q[k + 1].len \in Nat /\ q[k + i].from \in Nat
          /\ q[k + 1].len > 0
      BY <1>3, <2>1, <3>1, <3>2
    <3>4. s.from < q[k + i].from
      <4> DEFINE x == q[k + 1].from
                 y == q[k + 1].len
                 z == q[k + i].from
                 v == s.from
      <4>1. v \in Int /\ x \in Nat /\ y \in Nat /\ z \in Nat /\ y > 0
        BY Zenon, <1>2, <3>3, PlaceNat
      <4>2. v <= x /\ x + y <= z
        BY Zenon, <2>2, <3>2
      <4> HIDE DEF x, y, z, v
      <4>3. v < z
        BY <4>1, <4>2
      <4> QED BY <4>3 DEF v, z
    <3> QED BY <3>1, <3>4
  <2>5. 1 \in 1..Len(back) /\ back[1] = q[k + 1]
    BY <1>1, <1>8, <1>9, <1>12
  <2>6. ASSUME q[k + 1].from = s.from => q[k + 1].len <= s.len
        PROVE  /\ QueueInv(Inserted(s, back), n, R)
               /\ \A i \in 1..Len(Inserted(s, back)) : s.from <= Inserted(s, back)[i].from
    <3>1. \A i \in 1..Len(back) : \/ s.from < back[i].from
                                  \/ s.from = back[i].from /\ back[i].len <= s.len
      <4>1. SUFFICES ASSUME NEW i \in 1..Len(back)
                     PROVE  \/ s.from < back[i].from
                            \/ s.from = back[i].from /\ back[i].len <= s.len
        BY Zenon
      <4>2. CASE i # 1
        BY <2>4, <4>2
      <4>3. CASE i = 1
        <5>1. q[k + 1].from \in Nat
          BY <1>3, <2>1
        <5> QED BY <1>2, <2>2, <2>5, <2>6, <4>3, <5>1
      <4> QED BY <4>2, <4>3
    <3> QED BY Zenon, <1>0, <1>9, <3>1, InsertedFacts
  <2> DEFINE ins == Inserted(s, back)
  <2>7. ASSUME QueueInv(ins, n, R), \A i \in 1..Len(ins) : s.from <= ins[i].from,
               NEW a, QueueInv(a, n, R),
               \A i \in 1..Len(a) : a[i].from + a[i].len <= s.from /\ ~a[i].fin
        PROVE  QueueInv(a \o ins, n, R)
    <3> HIDE DEF ins
    <3>1. \A i \in 1..Len(a), j \in 1..Len(ins) :
                a[i].from + a[i].len <= ins[j].from /\ ~a[i].fin
      <4>1. SUFFICES ASSUME NEW i \in 1..Len(a), NEW j \in 1..Len(ins)
                     PROVE  a[i].from + a[i].len <= ins[j].from /\ ~a[i].fin
        BY Zenon
      <4>2. Piece(a[i], R) /\ Piece(ins[j], R)
        BY <2>7, Zenon DEF QueueInv
      <4>3. a[i].from + a[i].len \in Places /\ ins[j].from \in Places
        BY <4>2, PieceFacts, Zenon
      <4>4. a[i].from + a[i].len \in Int /\ ins[j].from \in Int
        BY Zenon, <4>3, PlaceNat
      <4>5. a[i].from + a[i].len <= s.from /\ s.from <= ins[j].from /\ ~a[i].fin
        BY <2>7
      <4> QED BY <1>2, <4>4, <4>5
    <3> QED BY <1>0, <2>7, <3>1, JoinFacts
  <2>8. CASE q[k + 1].from = s.from
    <3>1. CASE s.len > q[k + 1].len
      <4>1. Queue(p, s) = SubSeq(q, 1, k) \o ins
        BY Zenon, <1>14, <1>12, <2>3, <2>8, <3>1
      <4>2. q[k + 1].len <= s.len
        BY <1>2, <1>3, <2>1, <3>1
      <4>3. \A i \in 1..Len(SubSeq(q, 1, k)) :
                SubSeq(q, 1, k)[i].from + SubSeq(q, 1, k)[i].len <= s.from
                /\ ~SubSeq(q, 1, k)[i].fin
        <5>1. \A i \in 1..k : i < k + 1 /\ q[i].from + q[i].len <= s.from /\ ~q[i].fin
          BY <1>7, <1>8, <2>1, <2>8
        <5> QED BY Zenon, <1>9, <5>1
      <4> QED BY Zenon, <1>9, <2>6, <2>7, <4>1, <4>2, <4>3
    <3>2. CASE ~ (s.len > q[k + 1].len)
      BY <1>14, <1>12, <2>3, <2>8, <3>2
    <3> QED BY <3>1, <3>2
  <2>9. CASE q[k + 1].from # s.from
    <3>1. Queue(p, s) = trimmed \o ins
      BY <1>15, <1>12, <2>3, <2>9
    <3>2. CASE k > 0
      <4>1. k \in 1..Len(q) /\ ~q[k].fin
        BY <1>7, <1>8, <2>1, <3>2
      <4> QED BY <1>10, <2>6, <2>7, <2>9, <3>1, <3>2, <4>1
    <3>3. CASE ~ (k > 0)
      <4>1. QueueInv(<<>>, n, R) /\ Len(<<>>) = 0
        BY DEF QueueInv
      <4> QED BY <2>6, <2>7, <2>9, <3>1, <3>3, <4>1
    <3> QED BY <3>2, <3>3
  <2> QED BY <2>8, <2>9
<1>13. CASE q # <<>> /\ ~ (k < Len(q))
  <2>1. k = Len(q) /\ k > 0 /\ k \in 1..Len(q)
    BY <1>1, <1>5, <1>8, <1>13
  <2>2. Queue(p, s) = IF q[k].fin THEN q ELSE t \o <<CutToWindow(p, s)>>
    BY <1>16, <1>13, <2>1
  <2>3. CutToWindow(p, s) = s
    <3>1. n + w \in Places /\ n \in Int /\ w \in Int
      BY ConstantFacts DEF Places
    <3>2. Add(p.rcv_nxt, p.rcv_wnd) = SeqnoAt(n + w)
      BY <3>1, AddPlace
    <3>3. ~ (n + w < Stop(s))
      BY <1>2, <3>1, ConstantFacts DEF Places
    <3> QED BY <1>2, <3>1, <3>2, <3>3, Compare DEF CutToWindow, SeqGT
  <2>4. CASE q[k].fin
    BY <2>2, <2>4
  <2>5. CASE ~q[k].fin
    <3>1. QueueInv(t, n, R) /\ \A i \in 1..Len(t) : t[i].from + t[i].len <= s.from /\ ~t[i].fin
      BY <1>10, <2>1, <2>5
    <3>2. QueueInv(<<s>>, n, R) /\ Len(<<s>>) = 1 /\ <<s>>[1] = s
      BY <1>0, OneFacts
    <3>3. \A j \in 1..Len(<<s>>) : <<s>>[j] = s
      BY <3>2
    <3>4. QueueInv(t \o <<s>>, n, R)
      BY <1>0, <3>1, <3>2, <3>3, JoinFacts
    <3> QED BY <2>2, <2>3, <2>5, <3>4
  <2> QED BY <2>4, <2>5
<1> QED BY <1>11, <1>12, <1>13

-----------------------------------------------------------------------------
(* What is taken in sequence. *)

\* The first n bytes of the stream.
Upto(n) == [i \in 1..n |-> i - 1]

LEMMA SameSeq ==
    ASSUME NEW S, NEW a \in Seq(S), NEW b \in Seq(S), Len(a) = Len(b),
           \A i \in 1..Len(a) : a[i] = b[i]
    PROVE  a = b
OBVIOUS

\* The bytes of a piece continue those in front of it.
LEMMA BytesContinue ==
    ASSUME NEW n \in Nat, NEW s, s.from = n, s.len \in Nat
    PROVE  Upto(n) \o Bytes(s) = Upto(n + s.len)
<1> DEFINE a == Upto(n)
           b == Bytes(s)
           c == Upto(n + s.len)
<1>1. a \in Seq(Int) /\ Len(a) = n /\ \A i \in 1..n : a[i] = i - 1
  BY DEF Upto
<1>2. b \in Seq(Int) /\ Len(b) = s.len /\ \A i \in 1..s.len : b[i] = n + i - 1
  BY DEF Bytes
<1>3. c \in Seq(Int) /\ Len(c) = n + s.len /\ \A i \in 1..(n + s.len) : c[i] = i - 1
  BY DEF Upto
<1> HIDE DEF a, b, c
<1>4. /\ a \o b \in Seq(Int) /\ Len(a \o b) = n + s.len
      /\ \A i \in 1..n : (a \o b)[i] = a[i]
      /\ \A i \in 1..s.len : (a \o b)[n + i] = b[i]
  <2>1. /\ a \o b \in Seq(Int) /\ Len(a \o b) = Len(a) + Len(b)
        /\ \A i \in 1..Len(a) : (a \o b)[i] = a[i]
        /\ \A i \in 1..Len(b) : (a \o b)[Len(a) + i] = b[i]
    <3>1. a \in Seq(Int) /\ b \in Seq(Int)
      BY <1>1, <1>2
    <3> QED BY <3>1
  <2> QED BY <1>1, <1>2, <2>1, Zenon
<1>5. ASSUME NEW i \in 1..(n + s.len)
      PROVE  (a \o b)[i] = i - 1
  <2>1. CASE i <= n
    BY <1>1, <1>4, <2>1
  <2>2. CASE ~ (i <= n)
    <3>1. i - n \in 1..s.len /\ n + (i - n) = i
      BY <2>2
    <3>2. (a \o b)[i] = b[i - n]
      BY <1>4, <3>1
    <3>3. b[i - n] = n + (i - n) - 1
      BY <1>2, <3>1
    <3> QED BY <3>2, <3>3
  <2> QED BY Zenon, <2>1, <2>2
<1>6. \A i \in 1..Len(a \o b) : (a \o b)[i] = c[i]
  BY Zenon, <1>3, <1>4, <1>5
<1>7. a \o b = c
  BY Zenon, <1>3, <1>4, <1>6, SameSeq
<1> QED BY <1>7 DEF a, b, c

\* Segments that lie one behind the other are the stream without a gap.
LEMMA GatheredFacts ==
    ASSUME NEW n \in Nat, NEW d \in Seq(Segment),
           \A i \in 1..Len(d) : d[i].from = IF i = 1 THEN n ELSE d[i - 1].from + d[i - 1].len
    PROVE  Gathered(Upto(n), d) =
              Upto(IF d = <<>> THEN n ELSE d[Len(d)].from + d[Len(d)].len)
<1> DEFINE E(k) == IF k = 0 THEN n ELSE d[k].from + d[k].len
           N == Len(d)
<1>1. N \in Nat /\ (d = <<>> <=> N = 0)
  OBVIOUS
<1>2. \A k \in 1..N : d[k].from \in Nat /\ d[k].len \in Nat
  <2>1. \A k \in 1..N : d[k] \in Segment
    OBVIOUS
  <2>2. \A k \in 1..N : d[k].from \in 0..StreamLen /\ d[k].len \in 0..Mss
    BY <2>1, Zenon DEF Segment
  <2> QED BY <2>2, ConstantFacts
<1>3. \A k \in 1..N : E(k - 1) = d[k].from /\ E(k) = d[k].from + d[k].len
  BY <1>1
<1>4. ASSUME NEW k \in 1..N
      PROVE  Upto(E(k - 1)) \o Bytes(d[k]) = Upto(E(k))
  <2>1. Upto(d[k].from) \o Bytes(d[k]) = Upto(d[k].from + d[k].len)
    BY Zenon, <1>2, BytesContinue
  <2> HIDE DEF E
  <2> QED BY Zenon, <1>3, <2>1
<1> DEFINE h == [k \in 0..N |-> Upto(E(k))]
           g == CHOOSE g : g = [k \in 0..N |-> IF k = 0 THEN Upto(n) ELSE g[k - 1] \o Bytes(d[k])]
<1>5. h = [k \in 0..N |-> IF k = 0 THEN Upto(n) ELSE h[k - 1] \o Bytes(d[k])]
  <2>1. ASSUME NEW k \in 0..N
        PROVE  h[k] = IF k = 0 THEN Upto(n) ELSE h[k - 1] \o Bytes(d[k])
    <3>1. CASE k = 0
      BY <3>1
    <3>2. CASE k # 0
      <4>1. k \in 1..N /\ k - 1 \in 0..N
        BY <1>1, <3>2
      <4>2. h[k] = Upto(E(k)) /\ h[k - 1] = Upto(E(k - 1))
        BY <4>1, Zenon
      <4> HIDE DEF h, E
      <4> QED BY <1>4, <3>2, <4>1, <4>2
    <3> QED BY <3>1, <3>2
  <2> QED BY <2>1, Zenon
<1> HIDE DEF h
<1>6. g = [k \in 0..N |-> IF k = 0 THEN Upto(n) ELSE g[k - 1] \o Bytes(d[k])]
  BY <1>5, Zenon
<1>7. Gathered(Upto(n), d) = g[N]
  BY Zenon DEF Gathered
<1> HIDE DEF g
<1>8. \A k \in 0..N : g[k] = Upto(E(k))
  <2> DEFINE Bad == {k \in 0..N : g[k] # Upto(E(k))}
  <2>1. SUFFICES ASSUME Bad # {}
                 PROVE  FALSE
    OBVIOUS
  <2>2. Bad \in SUBSET Nat
    BY <1>1
  <2>3. PICK k \in Bad : \A j \in Bad : k <= j
    BY <2>1, <2>2, LeastExists, Zenon
  <2>4. k \in 0..N /\ g[k] # Upto(E(k))
    BY <2>3
  <2>5. k # 0
    BY <1>1, <1>6, <2>4
  <2>6. k \in 1..N /\ k - 1 \in 0..N /\ ~ (k <= k - 1)
    BY <1>1, <2>4, <2>5
  <2>7. g[k - 1] = Upto(E(k - 1))
    BY <2>3, <2>6
  <2>8. g[k] = g[k - 1] \o Bytes(d[k])
    BY <1>6, <2>4, <2>5, Zenon
  <2> QED BY Zenon, <1>4, <2>4, <2>6, <2>7, <2>8
<1>9. g[N] = Upto(E(N))
  BY <1>1, <1>8
<1> QED BY <1>1, <1>7, <1>9

\* tcp_update_rcv_ann_wnd announces at least what has been announced already,
\* and at most the window.
LEMMA AnnounceFacts ==
    ASSUME NEW m \in Places, NEW w \in 0..Wnd, NEW R \in Places, m <= R, R <= m + w
    PROVE  LET a == AnnWnd(SeqnoAt(m), w, SeqnoAt(R))
           IN  a \in 0..Wnd /\ R <= m + a /\ a <= w
<1>1. m \in Nat /\ w \in Nat /\ R \in Nat /\ Wnd \in Nat /\ w <= Wnd
  BY ConstantFacts DEF Places
<1>2. ~SeqGT(SeqnoAt(m), SeqnoAt(R)) /\ (SeqnoAt(R) - SeqnoAt(m)) % Width = R - m
  BY <1>1, Compare DEF SeqGT
<1>3. \/ AnnWnd(SeqnoAt(m), w, SeqnoAt(R)) = w
      \/ AnnWnd(SeqnoAt(m), w, SeqnoAt(R)) = R - m
  BY <1>2, Zenon DEF AnnWnd
<1> QED BY <1>1, <1>3

\* Segments that lie one behind the other from n on, with a FIN at the end only.
Row(d, n, R) ==
    /\ d \in Seq(Segment) /\ d # <<>> /\ Piece(d[Len(d)], R) /\ n <= d[Len(d)].from
    /\ \A j \in 1..Len(d) : d[j].from = IF j = 1 THEN n ELSE d[j - 1].from + d[j - 1].len
    /\ \A j \in 1..(Len(d) - 1) : ~d[j].fin

\* The segments that follow in sequence: they lie one behind the other, and
\* what is left in the queue is behind a gap, or there is nothing behind a FIN.
LEMMA RowFacts ==
    ASSUME NEW R \in Places, NEW n \in 0..StreamLen, NEW i, Piece(i.seg, R), i.seg.from = n,
           QueueInv(i.rest, n, R),
           \A j \in 1..Len(i.rest) : i.seg.from + i.seg.len <= i.rest[j].from /\ ~i.seg.fin
    PROVE  LET k == InRow(i)
               d == <<i.seg>> \o SubSeq(i.rest, 1, k)
               l == IF k = 0 THEN i.seg ELSE i.rest[k]
           IN  /\ k \in 0..Len(i.rest) /\ Row(d, n, R) /\ d[Len(d)] = l
               /\ Piece(l, R) /\ n <= l.from
               /\ QueueInv(From(i.rest, k + 1), Stop(l), R)
               /\ l.fin => From(i.rest, k + 1) = <<>>
<1> DEFINE one == <<i.seg>>
           rest == i.rest
           c == one \o rest
           I == {j \in DOMAIN rest : c[j + 1].seqno = End(c[j])}
           k == Leading(rest, I)
           front == SubSeq(rest, 1, k)
           d == one \o front
           back == From(rest, k + 1)
           l == IF k = 0 THEN i.seg ELSE rest[k]
<1>0. n \in Int /\ n - 1 \in Int /\ n \in Nat /\ n - 1 < n
  BY ConstantFacts
<1>1. /\ rest \in Seq(Segment) /\ Len(rest) \in Nat /\ DOMAIN rest = 1..Len(rest)
      /\ QueueInv(rest, n, R)
      /\ \A j \in 1..Len(rest) : i.seg.from + i.seg.len <= rest[j].from /\ ~i.seg.fin
  BY DEF QueueInv
<1>2. i.seg \in Segment /\ one \in Seq(Segment) /\ Len(one) = 1 /\ one[1] = i.seg
      /\ QueueInv(one, n - 1, R)
  <2>1. QueueInv(one, n - 1, R) /\ Len(one) = 1 /\ one[1] = i.seg
    BY <1>0, OneFacts
  <2> QED BY <2>1 DEF Piece, QueueInv
<1>3. QueueInv(rest, n - 1, R)
  <2>1. \A j \in 1..Len(rest) : n - 1 < rest[j].from
    <3>1. SUFFICES ASSUME NEW j \in 1..Len(rest)
                   PROVE  n - 1 < rest[j].from
      OBVIOUS
    <3>2. Piece(rest[j], R) /\ n < rest[j].from
      BY <1>1 DEF QueueInv
    <3>3. rest[j].from \in 0..StreamLen
      BY <3>2, PieceFacts, Zenon
    <3> QED BY <1>0, <3>2, <3>3, ConstantFacts
  <2> QED BY <2>1 DEF QueueInv
<1>4. \A j \in 1..Len(one) : one[j] = i.seg
  BY <1>2
<1>8. InRow(i) = k
  BY Zenon DEF InRow
<1> HIDE DEF one, rest
<1>5. /\ QueueInv(c, n - 1, R) /\ Len(c) = Len(one) + Len(rest)
      /\ \A j \in 1..Len(one) : c[j] = one[j]
      /\ \A j \in 1..Len(rest) : c[Len(one) + j] = rest[j]
  <2>1. \A x \in 1..Len(one), y \in 1..Len(rest) :
            one[x].from + one[x].len <= rest[y].from /\ ~one[x].fin
    BY <1>1, <1>4, Zenon
  <2> DEFINE m == n - 1
  <2>2. QueueInv(one, m, R) /\ QueueInv(rest, m, R) /\ m \in Int
    BY <1>0, <1>2, <1>3
  <2> HIDE DEF m
  <2>3. /\ QueueInv(one \o rest, m, R) /\ Len(one \o rest) = Len(one) + Len(rest)
        /\ \A j \in 1..Len(one) : (one \o rest)[j] = one[j]
        /\ \A j \in 1..Len(rest) : (one \o rest)[Len(one) + j] = rest[j]
    BY <2>1, <2>2, JoinFacts
  <2> QED BY Zenon, <2>3 DEF m
<1>6. /\ Len(c) = Len(rest) + 1 /\ c[1] = i.seg /\ \A j \in 1..Len(rest) : c[j + 1] = rest[j]
  <2>1. 1 \in 1..Len(one) /\ \A j \in 1..Len(rest) : Len(one) + j = j + 1
    BY <1>1, <1>2
  <2> QED BY <1>1, <1>2, <1>5, <2>1
<1>7. k \in 0..Len(rest) /\ k + 1 \notin I /\ \A j \in 1..k : j \in I
  BY Zenon, <1>1, LeadingFacts
<1> HIDE DEF c, k
<1>9. k \in Nat
  BY <1>1, <1>7
<1>10. ASSUME NEW j \in 1..Len(c)
       PROVE  /\ Piece(c[j], R) /\ c[j].from \in Nat /\ c[j].len \in Nat /\ n <= c[j].from
              /\ c[j].from \in Places /\ Stop(c[j]) \in Places /\ c[j].seqno = SeqnoAt(c[j].from)
              /\ End(c[j]) = SeqnoAt(Stop(c[j]))
              /\ ~c[j].fin => Stop(c[j]) = c[j].from + c[j].len /\ c[j].len > 0
  <2>1. Piece(c[j], R) /\ n - 1 < c[j].from
    BY Zenon, <1>5 DEF QueueInv
  <2>2. /\ c[j].from \in 0..StreamLen /\ c[j].len \in 0..Mss /\ c[j].from \in Places
        /\ Stop(c[j]) \in Places /\ c[j].seqno = SeqnoAt(c[j].from)
        /\ Add(c[j].seqno, TcpLen(c[j])) = SeqnoAt(Stop(c[j])) /\ TcpLen(c[j]) > 0
        /\ (TcpLen(c[j]) = IF c[j].fin THEN c[j].len + 1 ELSE c[j].len)
    BY <2>1, PieceFacts, Zenon
  <2>3. c[j].from \in Nat /\ c[j].len \in Nat
    BY <2>2, ConstantFacts
  <2>4. n <= c[j].from
    BY <1>0, <2>1, <2>3
  <2> QED BY Zenon, <2>1, <2>2, <2>3, <2>4 DEF End, Stop
<1>11. \A x, y \in 1..Len(c) : x < y => c[x].from + c[x].len <= c[y].from /\ ~c[x].fin
  BY <1>5 DEF QueueInv
<1>12. /\ front \in Seq(Segment) /\ Len(front) = k /\ \A j \in 1..k : front[j] = rest[j]
       /\ QueueInv(back, n, R) /\ Len(back) = Len(rest) - k
       /\ \A j \in 1..(Len(rest) - k) : back[j] = rest[k + j]
  <2>2. n \in Int /\ QueueInv(rest, n, R) /\ k \in 0..Len(rest)
    BY <1>0, <1>1, <1>7
  <2>1. /\ QueueInv(front, n, R) /\ Len(front) = k /\ \A j \in 1..k : front[j] = rest[j]
        /\ QueueInv(back, n, R) /\ Len(back) = Len(rest) - k
        /\ \A j \in 1..(Len(rest) - k) : back[j] = rest[k + j]
    BY Zenon, <2>2, PartFacts
  <2> HIDE DEF front, back
  <2> QED BY Zenon, <2>1 DEF QueueInv
<1> HIDE DEF front, back
<1>13. /\ d \in Seq(Segment) /\ Len(d) = Len(one) + Len(front)
       /\ \A j \in 1..Len(one) : d[j] = one[j]
       /\ \A j \in 1..Len(front) : d[Len(one) + j] = front[j]
  <2>1. one \in Seq(Segment) /\ front \in Seq(Segment)
    BY <1>2, <1>12
  <2> QED BY <2>1
<1> HIDE DEF d
<1>14. Len(d) = k + 1 /\ \A j \in 1..(k + 1) : j \in 1..Len(c) /\ d[j] = c[j]
  <2>1. Len(d) = k + 1 /\ k + 1 <= Len(c)
    BY <1>1, <1>2, <1>6, <1>7, <1>9, <1>12, <1>13
  <2>2. ASSUME NEW j \in 1..(k + 1)
        PROVE  d[j] = c[j]
    <3>1. CASE j = 1
      <4>1. 1 \in 1..Len(one)
        BY <1>2
      <4> QED BY <1>2, <1>6, <1>13, <3>1, <4>1
    <3>2. CASE j # 1
      <4>1. j - 1 \in 1..k /\ j - 1 \in 1..Len(rest) /\ (j - 1) + 1 = j /\ 1 + (j - 1) = j
        BY <1>1, <1>7, <1>9, <3>2
      <4>2. d[j] = front[j - 1]
        BY <1>2, <1>12, <1>13, <4>1
      <4> QED BY Zenon, <1>6, <1>12, <4>1, <4>2
    <3> QED BY <3>1, <3>2
  <2> QED BY <1>1, <1>6, <1>9, <2>1, <2>2
<1>15. l = c[k + 1]
  <2>1. CASE k = 0
    BY <1>6, <2>1
  <2>2. CASE k # 0
    <3>1. k \in 1..Len(rest)
      BY <1>1, <1>7, <1>9, <2>2
    <3> QED BY <1>6, <2>2, <3>1
  <2> QED BY <2>1, <2>2
<1> HIDE DEF l
<1>16. ASSUME NEW j \in 1..k
       PROVE  /\ j \in 1..Len(c) /\ j + 1 \in 1..Len(c) /\ ~c[j].fin
              /\ c[j + 1].from = c[j].from + c[j].len
  <2>1. j \in 1..Len(c) /\ j + 1 \in 1..Len(c) /\ j < j + 1 /\ j \in 1..Len(rest)
    BY <1>1, <1>6, <1>7, <1>9
  <2>2. ~c[j].fin
    BY <1>11, <2>1
  <2>3. c[j + 1].seqno = End(c[j])
    BY <1>7
  <2>4. SeqnoAt(c[j + 1].from) = SeqnoAt(Stop(c[j]))
    BY <1>10, <2>1, <2>3
  <2>5. c[j + 1].from = Stop(c[j])
    BY <1>10, <2>1, <2>4, Compare
  <2> QED BY <1>10, <2>1, <2>2, <2>5
<1>17. \A j \in 1..Len(d) : d[j].from = IF j = 1 THEN n ELSE d[j - 1].from + d[j - 1].len
  <2>1. SUFFICES ASSUME NEW j \in 1..(k + 1)
                 PROVE  c[j].from = IF j = 1 THEN n ELSE c[j - 1].from + c[j - 1].len
    <3>1. \A j \in 1..(k + 1) : j # 1 => j - 1 \in 1..(k + 1)
      BY <1>9
    <3> QED BY <1>14, <3>1
  <2>2. CASE j = 1
    BY <1>6, <2>2
  <2>3. CASE j # 1
    <3>1. j - 1 \in 1..k /\ (j - 1) + 1 = j
      BY <1>9, <2>3
    <3> QED BY <1>16, <2>3, <3>1
  <2> QED BY <2>2, <2>3
<1>18. \A j \in 1..k : ~d[j].fin
  BY <1>9, <1>14, <1>16
<1>19. d[Len(d)] = l /\ k + 1 \in 1..Len(c) /\ k + 1 \in 1..(k + 1)
  BY <1>9, <1>14, <1>15
<1>20. Piece(l, R) /\ n <= l.from /\ Stop(l) \in Places /\ End(l) = SeqnoAt(Stop(l))
  BY <1>10, <1>15, <1>19
<1>21. ASSUME k < Len(rest)
       PROVE  ~l.fin /\ \A j \in 1..Len(back) : Stop(l) < back[j].from
  <2>1. /\ k + 1 \in 1..Len(rest) /\ k + 2 \in 1..Len(c) /\ (k + 1) + 1 = k + 2
        /\ k + 1 < k + 2
    BY <1>1, <1>6, <1>9, <1>21
  <2>2. ~l.fin /\ l.from + l.len <= c[k + 2].from
    BY <1>11, <1>15, <1>19, <2>1
  <2>3. Stop(l) = l.from + l.len
    BY <1>10, <1>15, <1>19, <2>2
  <2>4. c[k + 2].seqno # End(l)
    BY <1>1, <1>7, <1>15, <2>1
  <2>5. c[k + 2].from # Stop(l)
    BY <1>10, <1>20, <2>1, <2>4
  <2>6. c[k + 2].from \in Nat /\ l.from \in Nat /\ l.len \in Nat
    BY <1>10, <1>15, <1>19, <2>1
  <2>7. Stop(l) < c[k + 2].from
    BY <2>2, <2>3, <2>5, <2>6
  <2>8. ASSUME NEW j \in 1..Len(back)
        PROVE  Stop(l) < back[j].from
    <3>1. k + j \in 1..Len(rest) /\ back[j] = rest[k + j] /\ (k + j) + 1 \in 1..Len(c)
      BY <1>1, <1>6, <1>9, <1>12
    <3>2. back[j] = c[(k + j) + 1]
      BY <1>6, <3>1
    <3>3. CASE j = 1
      BY <1>9, <2>1, <2>7, <3>2, <3>3
    <3>4. CASE j # 1
      <4>1. k + 2 < (k + j) + 1
        BY <1>1, <1>9, <1>12, <3>4
      <4>2. c[k + 2].from + c[k + 2].len <= back[j].from
        BY <1>11, <2>1, <3>1, <3>2, <4>1
      <4>3. c[k + 2].len \in Nat /\ back[j].from \in Nat
        BY <1>10, <2>1, <3>1, <3>2
      <4>4. Stop(l) \in Int
        BY <2>3, <2>6
      <4>5. c[k + 2].from \in Int /\ back[j].from \in Int
        BY <2>6, <4>3
      <4> QED BY Zenon, <2>7, <4>2, <4>3, <4>4, <4>5, Behind
    <3> QED BY <3>3, <3>4
  <2> QED BY <2>2, <2>8
<1>22. QueueInv(back, Stop(l), R) /\ (l.fin => back = <<>>)
  <2>1. CASE k < Len(rest)
    <3>1. back \in Seq(Segment) /\ \A j \in 1..Len(back) : Piece(back[j], R)
      BY <1>12 DEF QueueInv
    <3> QED BY <1>12, <1>21, <2>1, <3>1 DEF QueueInv
  <2>2. CASE ~ (k < Len(rest))
    <3>1. Len(back) = 0 /\ back \in Seq(Segment)
      <4>1. k = Len(rest)
        <5>1. Len(rest) \in Nat /\ k \in 0..Len(rest)
          BY <1>1, <1>7
        <5> QED BY <2>2, <5>1
      <4>2. back \in Seq(Segment)
        BY <1>12 DEF QueueInv
      <4> QED BY <1>1, <1>12, <4>1, <4>2
    <3>2. back = <<>>
      BY <3>1
    <3> QED BY <3>1, <3>2 DEF QueueInv
  <2> QED BY <2>1, <2>2
<1>23. Row(d, n, R)
  <2>1. d # <<>> /\ Len(d) - 1 = k
    BY <1>9, <1>13, <1>14
  <2> QED BY <1>13, <1>17, <1>18, <1>19, <1>20, <2>1 DEF Row
<1> QED BY <1>7, <1>8, <1>19, <1>20, <1>22, <1>23 DEF d, l, front, back, one, rest

-----------------------------------------------------------------------------
(* The control block. *)

\* The numbers of a control block.
LEMMA BlockFacts ==
    ASSUME NEW p, NEW n \in Places, NEW w \in 0..Wnd, NEW R \in Places, BlockInv(p, n, w, R)
    PROVE  /\ p \in Pcb /\ p.rcv_nxt = SeqnoAt(n) /\ p.rcv_wnd = w /\ p.edge = SeqnoAt(R)
           /\ QueueInv(p.ooseq, n, R) /\ p.ooseq \in Seq(Segment)
           /\ p.ann_wnd \in 0..Wnd /\ p.flags \in SUBSET Flags
           /\ n \in Nat /\ w \in Nat /\ R \in Nat /\ p.ann_wnd \in Nat
           /\ n <= R /\ R <= n + p.ann_wnd /\ p.ann_wnd <= w /\ R <= n + w
<1>1. /\ p \in Pcb /\ p.rcv_nxt = SeqnoAt(n) /\ p.rcv_wnd = w /\ p.edge = SeqnoAt(R)
      /\ n <= R /\ R <= n + p.ann_wnd /\ p.ann_wnd <= w /\ QueueInv(p.ooseq, n, R)
  BY Zenon DEF BlockInv
<1>2. p.ooseq \in Seq(Segment) /\ p.ann_wnd \in 0..Wnd /\ p.flags \in SUBSET Flags
  BY <1>1 DEF Pcb
<1>3. n \in Nat /\ w \in Nat /\ R \in Nat /\ p.ann_wnd \in Nat
  BY <1>2, ConstantFacts DEF Places
<1>4. R <= n + w
  BY <1>1, <1>3
<1> QED BY Zenon, <1>1, <1>2, <1>3, <1>4

\* A control block with other numbers.
LEMMA BlockWith ==
    ASSUME NEW n \in Places, NEW w \in 0..Wnd, NEW R \in Places, NEW a \in 0..Wnd,
           n <= R, R <= n + a, a <= w,
           NEW q, QueueInv(q, n, R), NEW f \in SUBSET Flags,
           NEW p, p = [rcv_nxt |-> SeqnoAt(n), rcv_wnd |-> w, ann_wnd |-> a,
                       edge |-> SeqnoAt(R), ooseq |-> q, flags |-> f]
    PROVE  BlockInv(p, n, w, R)
<1>1. SeqnoAt(n) \in Numbers /\ SeqnoAt(R) \in Numbers
  <2>1. n \in Int /\ R \in Int
    BY ConstantFacts DEF Places
  <2> QED BY <2>1, AddPlace, Zenon
<1>2. q \in Seq(Segment)
  BY DEF QueueInv
<1>3. p \in Pcb
  BY <1>1, <1>2 DEF Pcb
<1>4. /\ p.rcv_nxt = SeqnoAt(n) /\ p.rcv_wnd = w /\ p.ann_wnd = a
      /\ p.edge = SeqnoAt(R) /\ p.ooseq = q
  OBVIOUS
<1> QED BY Zenon, <1>3, <1>4 DEF BlockInv

\* Other flags.
LEMMA FlagFacts ==
    ASSUME NEW p, NEW n \in Places, NEW w \in 0..Wnd, NEW R \in Places, BlockInv(p, n, w, R),
           NEW f \in SUBSET Flags
    PROVE  BlockInv([p EXCEPT !.flags = f], n, w, R)
<1>1. /\ p \in Pcb /\ p.rcv_nxt = SeqnoAt(n) /\ p.rcv_wnd = w /\ p.edge = SeqnoAt(R)
      /\ QueueInv(p.ooseq, n, R) /\ p.ann_wnd \in 0..Wnd
      /\ n <= R /\ R <= n + p.ann_wnd /\ p.ann_wnd <= w
  BY Zenon, BlockFacts
<1>2. [p EXCEPT !.flags = f] =
         [rcv_nxt |-> SeqnoAt(n), rcv_wnd |-> w, ann_wnd |-> p.ann_wnd, edge |-> SeqnoAt(R),
          ooseq |-> p.ooseq, flags |-> f]
  BY <1>1 DEF Pcb
<1> QED BY <1>1, <1>2, BlockWith

\* tcp_recved.
LEMMA RecvedFacts ==
    ASSUME NEW p, NEW n \in Places, NEW w \in 0..Wnd, NEW R \in Places, BlockInv(p, n, w, R),
           NEW k \in Nat, w + k <= Wnd
    PROVE  BlockInv(Recved(p, k), n, w + k, R)
<1>1. /\ p \in Pcb /\ p.rcv_nxt = SeqnoAt(n) /\ p.rcv_wnd = w /\ p.edge = SeqnoAt(R)
      /\ QueueInv(p.ooseq, n, R) /\ p.flags \in SUBSET Flags
      /\ n \in Nat /\ w \in Nat /\ R \in Nat /\ n <= R /\ R <= n + w
  BY Zenon, BlockFacts
<1>2. w + k \in 0..Wnd /\ R <= n + (w + k) /\ ~ (w + k > Wnd)
  BY <1>1, ConstantFacts
<1> DEFINE a == AnnWnd(SeqnoAt(n), w + k, SeqnoAt(R))
           f == IF Inflation(SeqnoAt(n), w + k, SeqnoAt(R)) >= UpdateThreshold
                THEN p.flags \cup {"NOW"} ELSE p.flags
<1>3. a \in 0..Wnd /\ R <= n + a /\ a <= w + k
  BY <1>1, <1>2, AnnounceFacts
<1>4. f \in SUBSET Flags
  BY <1>1 DEF Flags
<1>5. Recved(p, k) = [p EXCEPT !.rcv_wnd = w + k, !.ann_wnd = a, !.flags = f]
  BY Zenon, <1>1, <1>2 DEF Recved
<1> HIDE DEF a, f
<1>6. Recved(p, k) = [rcv_nxt |-> SeqnoAt(n), rcv_wnd |-> w + k, ann_wnd |-> a,
                      edge |-> SeqnoAt(R), ooseq |-> p.ooseq, flags |-> f]
  BY Zenon, <1>1, <1>5 DEF Pcb
<1> QED BY Zenon, <1>1, <1>2, <1>3, <1>4, <1>6, BlockWith

\* httpc_tcp_recv: what has been received in sequence is read when the header
\* is complete, and the window is what it was; e is the number of a FIN, which
\* the application does not read.
LEMMA ReadFacts ==
    ASSUME NEW p, NEW R \in Places, NEW n \in 0..StreamLen, NEW m \in 0..StreamLen, n <= m,
           NEW e \in 0..1, NEW x \in Places, Window(n) - (m - n) - e \in 0..Wnd,
           BlockInv(p, x, Window(n) - (m - n) - e, R)
    PROVE  BlockInv(Read(p, n, m), x, Window(m) - e, R)
<1>1. /\ n \in Nat /\ m \in Nat /\ m \in Places /\ Header \in Nat /\ Wnd \in Nat
      /\ Header < Wnd /\ 0 < Header
  BY ConstantFacts DEF Places
<1> DEFINE w == Window(n) - (m - n) - e
<1>2. CASE m < Header
  <2>1. Read(p, n, m) = p /\ n < Header
    BY <1>1, <1>2 DEF Read
  <2>2. Window(m) - e = w
    BY <1>1, <1>2, <2>1 DEF Window
  <2> QED BY <2>1, <2>2
<1>3. CASE n < Header /\ ~ (m < Header)
  <2>1. w = Wnd - m - e /\ Window(m) = Wnd /\ e \in Nat
    BY <1>1, <1>3 DEF Window
  <2> HIDE DEF w
  <2>2. w \in 0..Wnd /\ BlockInv(p, x, w, R)
    BY Zenon DEF w
  <2>3. w + Header <= Wnd /\ w + Header \in 0..Wnd
    BY <1>1, <1>3, <2>1, <2>2
  <2>4. BlockInv(Recved(p, Header), x, w + Header, R)
    BY Zenon, <1>1, <2>2, <2>3, RecvedFacts
  <2>5. CASE m > Header
    <3>1. Read(p, n, m) = Recved(Recved(p, Header), m - Header)
      BY <1>1, <1>3, <2>5 DEF Read
    <3>2. m - Header \in Nat /\ (w + Header) + (m - Header) = Wnd - e /\ (w + Header) + (m - Header) <= Wnd
      BY <1>1, <2>1, <2>5
    <3>3. BlockInv(Recved(Recved(p, Header), m - Header), x, (w + Header) + (m - Header), R)
      BY Zenon, <1>1, <2>3, <2>4, <3>2, RecvedFacts
    <3> QED BY <2>1, <3>1, <3>2, <3>3
  <2>6. CASE ~ (m > Header)
    <3>1. m = Header
      BY <1>1, <1>3, <2>6
    <3>2. Read(p, n, m) = Recved(p, Header)
      BY <1>1, <1>3, <2>6 DEF Read
    <3> QED BY <1>1, <2>1, <2>4, <3>1, <3>2
  <2> QED BY <2>5, <2>6
<1>4. CASE ~ (n < Header)
  <2>1. ~ (m < Header) /\ Window(m) = Wnd /\ w = Wnd - (m - n) - e /\ e \in Nat
    BY <1>1, <1>4 DEF Window
  <2> HIDE DEF w
  <2>2. w \in 0..Wnd /\ BlockInv(p, x, w, R)
    BY Zenon DEF w
  <2>3. CASE m > n
    <3>1. Read(p, n, m) = Recved(p, m - n)
      BY <1>1, <1>4, <2>1, <2>3 DEF Read
    <3>2. m - n \in Nat /\ w + (m - n) = Wnd - e /\ w + (m - n) <= Wnd
      BY <1>1, <2>1, <2>3
    <3>3. BlockInv(Recved(p, m - n), x, w + (m - n), R)
      BY <1>1, <2>2, <3>2, RecvedFacts
    <3> QED BY <2>1, <3>1, <3>2, <3>3
  <2>4. CASE ~ (m > n)
    <3>1. m = n /\ w = Wnd - e
      BY <1>1, <2>1, <2>4
    <3>2. Read(p, n, m) = p
      BY <1>1, <1>4, <2>1, <2>4 DEF Read
    <3> QED BY <2>1, <2>2, <3>1, <3>2
  <2> QED BY <2>3, <2>4
<1> QED BY <1>1, <1>2, <1>3, <1>4

\* The window is open as long as the stream runs.
LEMMA WindowFacts ==
    ASSUME NEW n \in 0..StreamLen
    PROVE  /\ Window(n) \in 0..Wnd /\ Window(n) > 0 /\ n \in Places /\ n \in Nat
           /\ Window(n) \in Nat /\ n + Window(n) \in Places
BY ConstantFacts DEF Window, Places

\* What is behind the announced end of the window is as well behind a later one.
LEMMA QueueGrows ==
    ASSUME NEW q, NEW n \in Int, NEW R \in Places, QueueInv(q, n, R), NEW T \in Places, R <= T
    PROVE  QueueInv(q, n, T)
<1>1. ASSUME NEW i \in 1..Len(q)
      PROVE  Piece(q[i], T)
  <2>1. Piece(q[i], R)
    BY DEF QueueInv
  <2>2. Stop(q[i]) \in Places /\ Stop(q[i]) <= R
    BY <2>1, PieceFacts, Zenon
  <2>3. Stop(q[i]) <= T
    BY <2>2, ConstantFacts DEF Places
  <2> QED BY Zenon, <2>1, <2>3 DEF Piece
<1> QED BY Zenon, <1>1 DEF QueueInv

\* tcp_send_empty_ack: the announced end of the window moves up to the one that
\* the acknowledgement carries, whether it arrives or not.
LEMMA SendEmptyAckFacts ==
    ASSUME NEW p, NEW n \in Places, NEW w \in 0..Wnd, NEW R \in Places, BlockInv(p, n, w, R),
           n + w \in Places, NEW how \in Sent, NEW f \in SUBSET Flags
    PROVE  \E T \in Places : /\ R <= T
                             /\ how = "arrives" => T = n + p.ann_wnd
                             /\ BlockInv(SendEmptyAck(p, how), n, w, T)
                             /\ BlockInv([SendEmptyAck(p, how) EXCEPT !.flags = f], n, w, T)
<1>1. /\ p \in Pcb /\ p.rcv_nxt = SeqnoAt(n) /\ p.rcv_wnd = w /\ p.edge = SeqnoAt(R)
      /\ QueueInv(p.ooseq, n, R) /\ p.ann_wnd \in 0..Wnd /\ p.ooseq \in Seq(Segment)
      /\ n \in Nat /\ w \in Nat /\ R \in Nat /\ p.ann_wnd \in Nat
      /\ n <= R /\ R <= n + p.ann_wnd /\ p.ann_wnd <= w
  BY Zenon, BlockFacts
<1> DEFINE T == IF how = "no_header" THEN R ELSE n + p.ann_wnd
           g == IF how \in {"arrives", "lost"} THEN {} ELSE Flags
<1>2. T \in Places /\ R <= T /\ (how = "arrives" => T = n + p.ann_wnd) /\ n <= T
      /\ T <= n + p.ann_wnd
  BY <1>1, ConstantFacts DEF Places
<1>3. (IF how = "no_header" THEN p.edge ELSE Add(p.rcv_nxt, p.ann_wnd)) = SeqnoAt(T)
  <2>1. Add(SeqnoAt(n), p.ann_wnd) = SeqnoAt(n + p.ann_wnd)
    BY <1>1, AddPlace
  <2> QED BY Zenon, <1>1, <2>1
<1>4. SendEmptyAck(p, how) = [p EXCEPT !.edge = SeqnoAt(T), !.flags = g]
  BY Zenon, <1>3 DEF SendEmptyAck
<1>5. g \in SUBSET Flags
  OBVIOUS
<1>6. QueueInv(p.ooseq, n, T)
  BY <1>1, <1>2, QueueGrows
<1> HIDE DEF T, g
<1>7. SendEmptyAck(p, how) = [rcv_nxt |-> SeqnoAt(n), rcv_wnd |-> w, ann_wnd |-> p.ann_wnd,
                              edge |-> SeqnoAt(T), ooseq |-> p.ooseq, flags |-> g]
  BY Zenon, <1>1, <1>4 DEF Pcb
<1>8. BlockInv(SendEmptyAck(p, how), n, w, T)
  BY Zenon, <1>1, <1>2, <1>5, <1>6, <1>7, BlockWith
<1>9. BlockInv([SendEmptyAck(p, how) EXCEPT !.flags = f], n, w, T)
  BY <1>2, <1>8, FlagFacts
<1> QED BY Zenon, <1>2, <1>8, <1>9

\* tcp_output.
LEMMA OutputFacts ==
    ASSUME NEW p, NEW n \in Places, NEW w \in 0..Wnd, NEW R \in Places, BlockInv(p, n, w, R),
           n + w \in Places, NEW how \in Sent
    PROVE  \E T \in Places : /\ R <= T /\ BlockInv(Output(p, how), n, w, T)
                             /\ how = "arrives" /\ "NOW" \in p.flags => T = n + p.ann_wnd
<1>1. CASE "NOW" \in p.flags
  <2>1. Output(p, how) = SendEmptyAck(p, how) /\ Flags \in SUBSET Flags
    BY <1>1 DEF Output
  <2>2. PICK T \in Places : /\ R <= T
                            /\ how = "arrives" => T = n + p.ann_wnd
                            /\ BlockInv(SendEmptyAck(p, how), n, w, T)
    BY Zenon, <2>1, SendEmptyAckFacts
  <2> QED BY Zenon, <2>1, <2>2
<1>2. CASE "NOW" \notin p.flags
  <2>1. Output(p, how) = p /\ R <= R
    BY <1>2, ConstantFacts DEF Output, Places
  <2> QED BY Zenon, <1>2, <2>1
<1> QED BY <1>1, <1>2

\* What an acknowledgement tells the peer.
LEMMA HeardFacts ==
    ASSUME NEW p, NEW n \in 0..StreamLen, NEW w \in 0..Wnd, NEW R \in Places, BlockInv(p, n, w, R),
           n + w \in Places, peer \in [una: 0..StreamLen, right: 0..(StreamLen + Wnd + 1)],
           peer.una <= n, peer.right <= R
    PROVE  /\ Heard(p) \in [una: 0..StreamLen, right: 0..(StreamLen + Wnd + 1)]
           /\ Heard(p).una <= n /\ Heard(p).right <= n + p.ann_wnd
<1>1. n \in Places
  BY ConstantFacts DEF Places
<1>2. /\ p.rcv_nxt = SeqnoAt(n) /\ p.ann_wnd \in Nat /\ n \in Nat /\ R \in Nat /\ w \in Nat
      /\ R <= n + p.ann_wnd /\ p.ann_wnd <= w
  BY Zenon, <1>1, BlockFacts
<1>3. peer.una \in 0..StreamLen /\ peer.right \in 0..(StreamLen + Wnd + 1)
  OBVIOUS
<1>4. peer.una \in Places /\ peer.una \in Nat /\ peer.right \in Nat
  BY <1>3, ConstantFacts DEF Places
<1>5. (p.rcv_nxt - SeqnoAt(peer.una)) % Width = n - peer.una
  BY <1>1, <1>2, <1>4, Compare
<1>6. peer.una + (n - peer.una) = n
  BY <1>2, <1>4
<1> DEFINE r == IF n + p.ann_wnd > peer.right THEN n + p.ann_wnd ELSE peer.right
<1>7. Heard(p) = [una |-> n, right |-> r]
  BY Zenon, <1>5, <1>6 DEF Heard
<1>8. r \in 0..(StreamLen + Wnd + 1) /\ r <= n + p.ann_wnd
  BY <1>2, <1>3, <1>4, ConstantFacts DEF Places
<1> HIDE DEF r
<1> QED BY <1>2, <1>7, <1>8

\* A segment is cut at its start to what has not been received: it lies behind
\* that, or it is outside of the window.
LEMMA TrimFacts ==
    ASSUME NEW p, NEW n \in 0..StreamLen, NEW R \in Places,
           p.rcv_nxt = SeqnoAt(n), p.rcv_wnd = Window(n), NEW in, Piece(in, R)
    PROVE  /\ Piece(TrimFirst(p, in), R)
           /\ InWindow(p, TrimFirst(p, in).seqno) => n <= TrimFirst(p, in).from
<1>1. /\ in \in Segment /\ in.seqno = SeqnoAt(in.from) /\ in.from \in Places
      /\ in.from \in 0..StreamLen /\ in.len \in 0..Mss /\ in.fin \in BOOLEAN
      /\ in.from + in.len <= StreamLen /\ Stop(in) \in Places /\ Stop(in) <= R
      /\ TcpLen(in) \in Nat /\ TcpLen(in) > 0
      /\ (TcpLen(in) = IF in.fin THEN in.len + 1 ELSE in.len)
      /\ (in.fin => in.from + in.len = StreamLen)
  BY PieceFacts, Zenon
<1>2. /\ n \in Places /\ n \in Nat /\ Window(n) > 0 /\ Window(n) \in Nat /\ StreamLen \in Nat
      /\ in.from \in Nat /\ in.len \in Nat /\ Wnd \in Nat /\ Mss \in Nat
  BY <1>1, WindowFacts, ConstantFacts
<1>3. /\ Add(in.seqno, 1) = SeqnoAt(in.from + 1)
      /\ Add(in.seqno, TcpLen(in) - 1) = SeqnoAt(in.from + (TcpLen(in) - 1))
  <2>1. TcpLen(in) - 1 \in Int /\ in.from \in Int /\ 1 \in Int
    BY <1>1, <1>2
  <2> QED BY Zenon, <1>1, <2>1, AddPlace
<1>4. in.from + 1 \in Places /\ in.from + (TcpLen(in) - 1) \in Places
  <2>1. in.from + TcpLen(in) \in Places
    BY <1>1 DEF Stop
  <2> QED BY <1>1, <1>2, <2>1 DEF Places
<1> DEFINE inside == in.from + 1 <= n /\ n <= in.from + (TcpLen(in) - 1)
<1>5. SeqBetween(p.rcv_nxt, Add(in.seqno, 1), Add(in.seqno, TcpLen(in) - 1)) <=> inside
  <2>1. SeqLT(SeqnoAt(n), SeqnoAt(in.from + 1)) <=> n < in.from + 1
    BY <1>2, <1>4, Compare
  <2>2. SeqLT(SeqnoAt(in.from + (TcpLen(in) - 1)), SeqnoAt(n)) <=> in.from + (TcpLen(in) - 1) < n
    BY Zenon, <1>2, <1>4, Compare
  <2>3. /\ ~ (n < in.from + 1) <=> in.from + 1 <= n
        /\ ~ (in.from + (TcpLen(in) - 1) < n) <=> n <= in.from + (TcpLen(in) - 1)
    BY <1>1, <1>2
  <2> QED BY Zenon, <1>3, <2>1, <2>2, <2>3 DEF SeqBetween, SeqGEQ, SeqLEQ
<1>6. CASE inside
  <2> DEFINE s == [in EXCEPT !.seqno = SeqnoAt(n), !.len = in.len - (n - in.from), !.from = n]
  <2>1. (p.rcv_nxt - in.seqno) % Width = n - in.from
    BY <1>1, <1>2, <1>6, Compare
  <2>2. in.from + (n - in.from) = n
    BY <1>2
  <2>3. TrimFirst(p, in) = s
    BY Zenon, <1>5, <1>6, <2>1, <2>2 DEF TrimFirst
  <2>4. in.len - (n - in.from) \in 0..Mss /\ SeqnoAt(n) \in Numbers
    <3>1. in.len - (n - in.from) \in 0..Mss
      BY <1>1, <1>2, <1>6
    <3>2. n \in Int /\ 0 \in Int
      BY <1>2
    <3> QED BY <3>1, <3>2, AddPlace
  <2>5. /\ s \in Segment /\ s.seqno = SeqnoAt(n) /\ s.from = n /\ s.fin = in.fin
        /\ s.len = in.len - (n - in.from)
    BY Zenon, <1>1, <2>4 DEF Segment
  <2> HIDE DEF s
  <2>6. s.from + s.len = in.from + in.len
    BY <1>2, <2>5
  <2>7. TcpLen(s) = TcpLen(in) - (n - in.from)
    BY <1>1, <1>2, <2>5 DEF TcpLen
  <2>8. Stop(s) = Stop(in) /\ TcpLen(s) > 0
    BY <1>1, <1>2, <1>6, <2>5, <2>7 DEF Stop
  <2>9. Piece(s, R)
    BY Zenon, <1>1, <2>5, <2>6, <2>8 DEF Piece
  <2>10. n <= s.from
    BY <1>2, <2>5
  <2> QED BY Zenon, <2>3, <2>9, <2>10
<1>7. CASE ~inside
  <2>1. TrimFirst(p, in) = in
    BY Zenon, <1>5, <1>7 DEF TrimFirst
  <2>2. InWindow(p, in.seqno) => ~SeqLT(SeqnoAt(in.from), SeqnoAt(n))
    BY Zenon, <1>1 DEF InWindow, SeqBetween, SeqGEQ
  <2>3. SeqLT(SeqnoAt(in.from), SeqnoAt(n)) <=> in.from < n
    BY <1>1, <1>2, Compare
  <2>4. InWindow(p, in.seqno) => n <= in.from
    BY <1>2, <2>2, <2>3
  <2> QED BY Zenon, <2>1, <2>4
<1> QED BY <1>6, <1>7

\* What tcp_receive takes: a row of segments, as long as the window allows.
Took(r, n, R) ==
    LET m == Stop(r.data[Len(r.data)])
    IN  /\ Row(r.data, n, R) /\ Window(n) - (m - n) \in 0..Wnd
        /\ BlockInv(r.pcb, m, Window(n) - (m - n), R)

\* tcp_receive, the next segment in sequence: it and what follows it in the
\* queue is taken, it fits into the window, and the assertions hold.
LEMMA InSequenceFacts ==
    ASSUME NEW p, NEW n \in 0..StreamLen, NEW R \in Places, BlockInv(p, n, Window(n), R),
           NEW s, Piece(s, R), s.from = n, NEW r \in InSequence(p, s)
    PROVE  ~r.failed /\ Took(r, n, R)
<1> DEFINE w == Window(n)
           q == p.ooseq
           i == OosInsert(s, q)
           k == InRow(i)
           l == IF k = 0 THEN i.seg ELSE i.rest[k]
           d == <<i.seg>> \o SubSeq(i.rest, 1, k)
           back == From(i.rest, k + 1)
           m == Stop(l)
<1>1. n \in Places /\ n \in Nat /\ w \in Nat /\ w \in 0..Wnd /\ n + w \in Places /\ n \in Int
  BY WindowFacts, ConstantFacts
<1>2. /\ p \in Pcb /\ p.rcv_nxt = SeqnoAt(n) /\ p.rcv_wnd = w /\ p.edge = SeqnoAt(R)
      /\ QueueInv(q, n, R) /\ p.flags \in SUBSET Flags
      /\ R \in Nat /\ n <= R /\ R <= n + w
  BY Zenon, <1>1, BlockFacts
<1>3. TcpLen(s) \in Nat /\ Stop(s) <= R /\ Stop(s) = n + TcpLen(s)
  BY PieceFacts DEF Stop
<1>4. FitWindow(p, s) = s
  <2>1. ~ (TcpLen(s) > p.rcv_wnd)
    BY <1>1, <1>2, <1>3
  <2> QED BY <2>1 DEF FitWindow
<1>5. r = Taken(p, i, k)
  BY Zenon, <1>4 DEF InSequence
<1>6. /\ Piece(i.seg, R) /\ i.seg.from = n /\ QueueInv(i.rest, n, R)
      /\ \A j \in 1..Len(i.rest) : i.seg.from + i.seg.len <= i.rest[j].from /\ ~i.seg.fin
  <2>1. \A j \in 1..Len(q) : s.from < q[j].from
    BY <1>2 DEF QueueInv
  <2>2. n \in Int /\ QueueInv(q, n, R)
    BY Zenon, <1>1, <1>2
  <2> HIDE DEF q, i
  <2>3. InFront(i, s, n, R)
    BY Zenon, <2>1, <2>2, InFrontFacts DEF i
  <2> QED BY Zenon, <2>3 DEF InFront
<1> HIDE DEF i
<1>7. /\ k \in 0..Len(i.rest) /\ Row(d, n, R) /\ d[Len(d)] = l
      /\ Piece(l, R) /\ n <= l.from
      /\ QueueInv(back, m, R)
      /\ l.fin => back = <<>>
  BY Zenon, <1>6, RowFacts
<1> HIDE DEF k, l, d, back
<1>8. /\ m \in Places /\ m <= R /\ End(l) = SeqnoAt(m) /\ m = l.from + TcpLen(l)
      /\ TcpLen(l) \in Nat /\ l.from \in 0..StreamLen
  BY Zenon, <1>7, PieceFacts DEF End, Stop
<1>9. m \in Nat /\ n <= m
  <2>1. n \in Nat /\ m \in Nat /\ n <= l.from /\ l.from \in 0..StreamLen
    BY Zenon, <1>1, <1>7, <1>8, PlaceNat
  <2>2. m = l.from + TcpLen(l) /\ TcpLen(l) \in Nat
    BY Zenon, <1>8
  <2> HIDE DEF m
  <2> QED BY <2>1, <2>2
<1> HIDE DEF m
<1>10. (End(l) - p.rcv_nxt) % Width = m - n
  BY <1>1, <1>2, <1>8, <1>9, Compare
<1>11. w - (m - n) \in 0..Wnd /\ R <= m + (w - (m - n)) /\ ~ (m - n > w)
  BY <1>1, <1>2, <1>8, <1>9, ConstantFacts
<1> DEFINE a == AnnWnd(SeqnoAt(m), w - (m - n), SeqnoAt(R))
           b == [p EXCEPT !.rcv_nxt = SeqnoAt(m), !.rcv_wnd = w - (m - n), !.ann_wnd = a,
                          !.ooseq = back, !.flags = Ack(p.flags)]
<1>12. r = [pcb |-> b, data |-> d, failed |-> i.seg.fin /\ i.rest # <<>>]
  <2>1. r = [pcb |-> b, data |-> d, failed |-> (m - n > w) \/ (i.seg.fin /\ i.rest # <<>>)]
    BY Zenon, <1>2, <1>5, <1>8, <1>10 DEF Taken, l, d, back
  <2> QED BY Zenon, <1>11, <2>1
<1>13. ~ (i.seg.fin /\ i.rest # <<>>)
  <2>1. SUFFICES ASSUME i.rest # <<>>
                 PROVE  ~i.seg.fin
    OBVIOUS
  <2>2. i.rest \in Seq(Segment)
    BY <1>6 DEF QueueInv
  <2>3. 1 \in 1..Len(i.rest)
    BY <2>1, <2>2
  <2> QED BY Zenon, <1>6, <2>3
<1>14. r.data = d /\ r.pcb = b /\ ~r.failed
  BY Zenon, <1>12, <1>13
<1>15. a \in 0..Wnd /\ R <= m + a /\ a <= w - (m - n)
  BY <1>8, <1>11, AnnounceFacts
<1>16. Ack(p.flags) \in SUBSET Flags
  BY <1>2 DEF Ack, Flags
<1> HIDE DEF a, w
<1>17. b = [rcv_nxt |-> SeqnoAt(m), rcv_wnd |-> w - (m - n), ann_wnd |-> a, edge |-> SeqnoAt(R),
            ooseq |-> back, flags |-> Ack(p.flags)]
  <2> DEFINE x == SeqnoAt(m)
             y == w - (m - n)
             f == Ack(p.flags)
             e == SeqnoAt(R)
  <2>1. p.edge = e
    BY <1>2
  <2>2. b = [p EXCEPT !.rcv_nxt = x, !.rcv_wnd = y, !.ann_wnd = a, !.ooseq = back, !.flags = f]
    OBVIOUS
  <2> HIDE DEF x, y, f, e, b
  <2>3. b = [rcv_nxt |-> x, rcv_wnd |-> y, ann_wnd |-> a, edge |-> e, ooseq |-> back, flags |-> f]
    BY Zenon, <1>2, <2>1, <2>2 DEF Pcb
  <2> QED BY Zenon, <2>3 DEF x, y, f, e
<1> HIDE DEF b
<1>18. BlockInv(b, m, w - (m - n), R)
  BY Zenon, <1>7, <1>8, <1>11, <1>15, <1>16, <1>17, BlockWith
<1> QED BY Zenon, <1>7, <1>11, <1>14, <1>18 DEF w, m, Took

\* tcp_receive: no assertion fails, and nothing is taken or a row of segments.
LEMMA ReceiveFacts ==
    ASSUME NEW p, NEW n \in 0..StreamLen, NEW R \in Places, BlockInv(p, n, Window(n), R),
           NEW in, TcpLen(in) # 0 => Piece(in, R), NEW copied \in BOOLEAN,
           NEW r \in TcpReceive(p, in, copied)
    PROVE  /\ ~r.failed
           /\ \/ r.data = <<>> /\ BlockInv(r.pcb, n, Window(n), R)
              \/ Took(r, n, R)
<1> DEFINE w == Window(n)
           s == TrimFirst(p, in)
<1>1. n \in Places /\ w \in 0..Wnd
  BY WindowFacts
<1>2. /\ p \in Pcb /\ p.rcv_nxt = SeqnoAt(n) /\ p.rcv_wnd = w /\ QueueInv(p.ooseq, n, R)
      /\ p.flags \in SUBSET Flags /\ R <= n + w
  BY Zenon, <1>1, BlockFacts
<1> HIDE DEF w
<1>3. ASSUME NEW b, BlockInv(b, n, w, R)
      PROVE  BlockInv(AckNow(b), n, w, R)
  <2>1. b.flags \in SUBSET Flags
    BY Zenon, <1>1, <1>3, BlockFacts
  <2>2. b.flags \cup {"NOW"} \in SUBSET Flags
    BY <2>1 DEF Flags
  <2> QED BY Zenon, <1>1, <1>3, <2>2, FlagFacts DEF AckNow
<1>4. ASSUME NEW b, BlockInv(b, n, w, R), r \in Result(b)
      PROVE  ~r.failed /\ r.data = <<>> /\ BlockInv(r.pcb, n, w, R)
  <2>1. r = [pcb |-> b, data |-> <<>>, failed |-> FALSE]
    BY Zenon, <1>4 DEF Result
  <2> QED BY Zenon, <1>4, <2>1
<1>5. BlockInv(p, n, w, R)
  BY Zenon DEF w
<1>6. CASE TcpLen(in) = 0
  <2>1. r \in Result(IF InWindow(p, in.seqno) THEN p ELSE AckNow(p))
    BY Zenon, <1>6 DEF TcpReceive
  <2>2. CASE InWindow(p, in.seqno)
    BY Zenon, <1>4, <1>5, <2>1, <2>2 DEF w
  <2>3. CASE ~InWindow(p, in.seqno)
    BY Zenon, <1>3, <1>4, <1>5, <2>1, <2>3 DEF w
  <2> QED BY <2>2, <2>3
<1>7. CASE TcpLen(in) # 0
  <2>1. /\ Piece(s, R)
        /\ InWindow(p, s.seqno) => n <= s.from
    BY Zenon, <1>2, <1>7, TrimFacts DEF w
  <2>2. r \in (IF ~InWindow(p, s.seqno) THEN Result(Outside(p, s))
               ELSE IF s.seqno = p.rcv_nxt THEN InSequence(p, s)
               ELSE Result(AckNow(IF copied THEN [p EXCEPT !.ooseq = Queue(p, s)] ELSE p)))
    BY Zenon, <1>7 DEF TcpReceive
  <2> HIDE DEF s
  <2>3. CASE ~InWindow(p, s.seqno)
    BY Zenon, <1>3, <1>4, <1>5, <2>2, <2>3 DEF Outside, w
  <2>4. CASE InWindow(p, s.seqno) /\ s.seqno = p.rcv_nxt
    <3>1. s.seqno = SeqnoAt(s.from) /\ s.from \in Places
      BY Zenon, <2>1, PieceFacts
    <3>2. s.from = n
      BY Zenon, <1>1, <1>2, <2>4, <3>1, Compare
    <3>3. r \in InSequence(p, s)
      BY Zenon, <2>2, <2>4
    <3> QED BY Zenon, <2>1, <3>2, <3>3, InSequenceFacts
  <2>5. CASE InWindow(p, s.seqno) /\ s.seqno # p.rcv_nxt
    <3> DEFINE b == [p EXCEPT !.ooseq = Queue(p, s)]
    <3>1. s.seqno = SeqnoAt(s.from) /\ s.from \in Places /\ s.from \in 0..StreamLen
      BY Zenon, <2>1, PieceFacts
    <3>2. n < s.from
      <4>1. s.from # n
        BY Zenon, <1>2, <2>5, <3>1
      <4>2. s.from \in Int /\ n \in Int /\ n <= s.from
        BY <2>1, <2>5, <3>1, ConstantFacts
      <4> QED BY <4>1, <4>2
    <3>3. QueueInv(Queue(p, s), n, R)
      BY <1>1, <1>2, <2>1, <3>2, QueueFacts
    <3>4. Queue(p, s) \in Seq(Segment)
      BY Zenon, <3>3 DEF QueueInv
    <3>5. BlockInv(b, n, w, R)
      <4> DEFINE q == Queue(p, s)
      <4>1. QueueInv(q, n, R) /\ q \in Seq(Segment)
        BY <3>3, <3>4
      <4>2. b = [p EXCEPT !.ooseq = q]
        OBVIOUS
      <4> HIDE DEF q, b
      <4>3. /\ b \in Pcb /\ b.rcv_nxt = p.rcv_nxt /\ b.rcv_wnd = p.rcv_wnd /\ b.edge = p.edge
            /\ b.ann_wnd = p.ann_wnd /\ b.ooseq = q
        BY <1>2, <4>1, <4>2 DEF Pcb
      <4> QED BY Zenon, <1>5, <4>1, <4>3 DEF BlockInv
    <3>6. r \in Result(AckNow(IF copied THEN b ELSE p))
      BY Zenon, <2>2, <2>5
    <3> HIDE DEF b
    <3>7. CASE copied
      BY Zenon, <1>3, <1>4, <3>5, <3>6, <3>7 DEF w
    <3>8. CASE ~copied
      BY Zenon, <1>3, <1>4, <1>5, <3>6, <3>8 DEF w
    <3> QED BY <3>7, <3>8
  <2> QED BY <2>3, <2>4, <2>5
<1> QED BY <1>6, <1>7

\* What is taken continues the stream, and it is read; behind a FIN there is
\* nothing, and the FIN is all that has not been read.
LEMMA TakenFacts ==
    ASSUME NEW n \in 0..StreamLen, NEW R \in Places, NEW r, Took(r, n, R)
    PROVE  LET l == r.data[Len(r.data)]
               g == l.from + l.len
           IN  /\ g \in n..StreamLen /\ Gathered(Upto(n), r.data) = Upto(g)
               /\ (\E i \in 1..Len(r.data) : r.data[i].fin) <=> l.fin
               /\ ~l.fin => BlockInv(Read(r.pcb, n, g), g, Window(g), R)
               /\ l.fin => /\ g = StreamLen /\ StreamLen + 1 \in Places
                           /\ BlockInv(Read(r.pcb, n, g), StreamLen + 1, Wnd - 1, R)
                           /\ Read(r.pcb, n, g).ooseq = <<>>
<1> DEFINE d == r.data
           l == d[Len(d)]
           g == l.from + l.len
           m == Stop(l)
           w == Window(n)
           e == IF l.fin THEN 1 ELSE 0
<1>1. /\ Row(d, n, R) /\ w - (m - n) \in 0..Wnd /\ BlockInv(r.pcb, m, w - (m - n), R)
  BY Zenon DEF Took
<1> HIDE DEF d
<1>2. /\ d \in Seq(Segment) /\ d # <<>> /\ Piece(l, R) /\ n <= l.from
      /\ \A j \in 1..Len(d) : d[j].from = IF j = 1 THEN n ELSE d[j - 1].from + d[j - 1].len
      /\ \A j \in 1..(Len(d) - 1) : ~d[j].fin
  BY Zenon, <1>1 DEF Row
<1> HIDE DEF l
<1>3. /\ l.from \in 0..StreamLen /\ l.len \in 0..Mss /\ l.fin \in BOOLEAN
      /\ l.from + l.len <= StreamLen /\ m \in Places /\ m = l.from + TcpLen(l)
      /\ (l.fin => l.from + l.len = StreamLen)
      /\ (TcpLen(l) = IF l.fin THEN l.len + 1 ELSE l.len)
  BY Zenon, <1>2, PieceFacts DEF Stop
<1>4. g \in n..StreamLen /\ g \in 0..StreamLen /\ n <= g /\ g \in Nat /\ n \in Nat
  BY <1>2, <1>3, ConstantFacts
<1>5. Gathered(Upto(n), d) = Upto(g)
  <2>1. Gathered(Upto(n), d) = Upto(IF d = <<>> THEN n ELSE d[Len(d)].from + d[Len(d)].len)
    BY Zenon, <1>2, <1>4, GatheredFacts
  <2> QED BY Zenon, <1>2, <2>1 DEF l
<1>6. (\E i \in 1..Len(d) : d[i].fin) <=> l.fin
  <2>1. Len(d) \in Nat /\ Len(d) # 0
    BY <1>2
  <2>2. Len(d) \in 1..Len(d) /\ \A i \in 1..Len(d) : i = Len(d) \/ i \in 1..(Len(d) - 1)
    BY <2>1
  <2> QED BY Zenon, <1>2, <2>2 DEF l
<1>7. e \in 0..1 /\ m = g + e
  BY <1>3, <1>4, ConstantFacts
<1>8. w \in Nat
  BY WindowFacts
<1> HIDE DEF g, m, w, e
<1>9. w - (m - n) = w - (g - n) - e
  BY <1>4, <1>7, <1>8
<1>10. BlockInv(Read(r.pcb, n, g), m, Window(g) - e, R)
  <2>1. w - (g - n) - e \in 0..Wnd /\ BlockInv(r.pcb, m, w - (g - n) - e, R)
    BY <1>1, <1>9
  <2> QED BY <1>3, <1>4, <1>7, <2>1, ReadFacts DEF w
<1>11. ASSUME ~l.fin
       PROVE  BlockInv(Read(r.pcb, n, g), g, Window(g), R)
  <2>1. e = 0
    BY <1>11 DEF e
  <2>2. Window(g) \in Nat
    BY <1>4, WindowFacts
  <2>3. m = g /\ Window(g) - e = Window(g)
    BY <1>4, <1>7, <2>1, <2>2
  <2> QED BY <1>10, <2>3
<1>12. ASSUME l.fin
       PROVE  /\ g = StreamLen /\ StreamLen + 1 \in Places
              /\ BlockInv(Read(r.pcb, n, g), StreamLen + 1, Wnd - 1, R)
              /\ Read(r.pcb, n, g).ooseq = <<>>
  <2>1. e = 1 /\ g = StreamLen
    BY <1>3, <1>12 DEF e, g
  <2>2. Window(g) = Wnd
    BY <2>1, ConstantFacts DEF Window
  <2>3. m = StreamLen + 1
    BY <1>7, <2>1
  <2>4. BlockInv(Read(r.pcb, n, g), StreamLen + 1, Wnd - 1, R)
    BY <1>10, <2>1, <2>2, <2>3
  <2> DEFINE q == Read(r.pcb, n, g).ooseq
  <2>5. QueueInv(q, StreamLen + 1, R)
    BY Zenon, <2>4 DEF BlockInv
  <2> HIDE DEF q
  <2>6. q \in Seq(Segment) /\ \A i \in 1..Len(q) : Piece(q[i], R) /\ StreamLen + 1 < q[i].from
    BY Zenon, <2>5 DEF QueueInv
  <2>7. ASSUME NEW i \in 1..Len(q)
        PROVE  FALSE
    <3>1. q[i].from \in 0..StreamLen
      BY Zenon, <2>6, PieceFacts
    <3> QED BY <2>6, <3>1, ConstantFacts
  <2>8. q = <<>>
    BY <2>6, <2>7
  <2> QED BY Zenon, <1>3, <2>1, <2>3, <2>4, <2>8 DEF q
<1> QED BY Zenon, <1>4, <1>5, <1>6, <1>11, <1>12 DEF d, l, g

-----------------------------------------------------------------------------
(* The steps. *)

PeerType == [una: 0..StreamLen, right: 0..(StreamLen + Wnd + 1)]

\* What the invariant says of a connection that is open.
LEMMA OpenFacts ==
    ASSUME RcvInv, closed = "no"
    PROVE  /\ Len(stream) \in 0..StreamLen /\ stream = Upto(Len(stream))
           /\ peer \in PeerType /\ peer.una <= Len(stream) /\ stuck = FALSE
           /\ \E R \in Places : /\ BlockInv(pcb, Len(stream), Window(Len(stream)), R)
                                /\ peer.right <= R
<1> DEFINE n == Len(stream)
<1>1. /\ stream \in Seq(0..(StreamLen - 1)) /\ n <= StreamLen
      /\ \A i \in 1..n : stream[i] = i - 1
  BY DEF RcvInv
<1>2. n \in 0..StreamLen
  BY <1>1, ConstantFacts
<1>3. stream = Upto(n)
  BY <1>1 DEF Upto
<1>4. peer \in PeerType /\ stuck = FALSE
  BY Zenon DEF RcvInv, PeerType
<1>5. /\ peer.una <= n
      /\ \E R \in Places : BlockInv(pcb, n, Window(n), R) /\ peer.right <= R
  BY Zenon DEF RcvInv, Places
<1> QED BY Zenon, <1>2, <1>3, <1>4, <1>5

\* A step of an open connection that ends with the block at n, announced up to T.
LEMMA StillOpen ==
    ASSUME closed' = "no", stuck' = FALSE,
           NEW n \in 0..StreamLen, stream' = Upto(n),
           NEW R \in Places, pcb.edge = SeqnoAt(R), NEW T \in Places, R <= T,
           BlockInv(pcb', n, Window(n), T),
           peer' \in PeerType, peer'.una <= n, peer'.right <= T
    PROVE  RcvInv' /\ SeqGEQ(pcb'.edge, pcb.edge)
<1>1. n \in Nat
  BY ConstantFacts
<1>2. Len(Upto(n)) = n /\ Upto(n) \in Seq(0..(StreamLen - 1)) /\ \A i \in 1..n : Upto(n)[i] = i - 1
  BY <1>1, ConstantFacts DEF Upto
<1>3. /\ Len(stream') = n /\ stream' \in Seq(0..(StreamLen - 1)) /\ n <= StreamLen
      /\ \A i \in 1..n : stream'[i] = i - 1
  BY <1>1, <1>2, ConstantFacts
<1>4. RcvInv'
  BY Zenon, <1>3 DEF RcvInv, PeerType, Places
<1>5. SeqGEQ(pcb'.edge, pcb.edge)
  <2>1. pcb'.edge = SeqnoAt(T)
    BY Zenon DEF BlockInv
  <2>2. SeqLT(SeqnoAt(T), SeqnoAt(R)) <=> T < R
    BY Compare
  <2>3. ~ (T < R)
    BY ConstantFacts DEF Places
  <2> QED BY Zenon, <2>1, <2>2, <2>3 DEF SeqGEQ
<1> QED BY <1>4, <1>5

\* The initial state.
LEMMA RcvInit == Init => RcvInv
<1>1. SUFFICES ASSUME Init
               PROVE  RcvInv
  OBVIOUS
<1>2. 0 \in 0..StreamLen /\ Wnd \in Places /\ Window(0) = Wnd /\ 0 \in Places /\ Wnd \in 0..Wnd
  BY ConstantFacts DEF Places, Window
<1>3. SeqnoAt(0) = Iss
  BY TcpAssumption, ConstantFacts DEF SeqnoAt, Add
<1>4. QueueInv(<<>>, 0, Wnd)
  BY DEF QueueInv
<1>5. {} \in SUBSET Flags
  OBVIOUS
<1>6. pcb = [rcv_nxt |-> SeqnoAt(0), rcv_wnd |-> Wnd, ann_wnd |-> Wnd, edge |-> SeqnoAt(Wnd),
             ooseq |-> <<>>, flags |-> {}]
  BY Zenon, <1>1, <1>3 DEF Init
<1>7. BlockInv(pcb, 0, Wnd, Wnd)
  <2>1. 0 <= Wnd /\ Wnd <= 0 + Wnd /\ Wnd <= Wnd
    BY ConstantFacts
  <2> QED BY Zenon, <1>2, <1>4, <1>5, <1>6, <2>1, BlockWith
<1>8. /\ stream = <<>> /\ closed = "no" /\ stuck = FALSE
      /\ peer = [una |-> 0, right |-> Wnd]
  BY Zenon, <1>1 DEF Init
<1>9. /\ stream \in Seq(0..(StreamLen - 1)) /\ Len(stream) = 0 /\ 0 <= StreamLen
      /\ \A i \in 1..Len(stream) : stream[i] = i - 1
  BY <1>8, ConstantFacts
<1>10. peer \in PeerType /\ peer.una <= 0 /\ peer.right <= Wnd
  BY <1>8, ConstantFacts DEF PeerType
<1> QED BY Zenon, <1>2, <1>7, <1>8, <1>9, <1>10 DEF RcvInv, PeerType, Places

\* The peer repeats its SYN, and an answer is sent at once.
LEMMA SynAgainStep ==
    ASSUME RcvInv, NEW how \in Sent, SynAgain(how)
    PROVE  RcvInv' /\ SeqGEQ(pcb'.edge, pcb.edge)
<1> DEFINE n == Len(stream)
           b == AckNow(pcb)
<1>1. /\ closed = "no" /\ pcb' = Output(b, how) /\ stream' = stream /\ closed' = "no"
      /\ stuck' = stuck
      /\ peer' = IF how = "arrives" THEN Heard(pcb) ELSE peer
  BY Zenon DEF SynAgain
<1>2. /\ n \in 0..StreamLen /\ stream = Upto(n) /\ peer \in PeerType /\ peer.una <= n
      /\ stuck = FALSE
  BY Zenon, <1>1, OpenFacts
<1>3. PICK R \in Places : BlockInv(pcb, n, Window(n), R) /\ peer.right <= R
  BY Zenon, <1>1, OpenFacts
<1> HIDE DEF n
<1>4. n \in Places /\ Window(n) \in 0..Wnd /\ n + Window(n) \in Places
  BY Zenon, <1>2, WindowFacts
<1>5. pcb \in Pcb /\ pcb.edge = SeqnoAt(R) /\ pcb.flags \in SUBSET Flags /\ pcb.ann_wnd \in Nat
  BY Zenon, <1>3, <1>4, BlockFacts
<1>6. pcb.flags \cup {"NOW"} \in SUBSET Flags
  BY <1>5 DEF Flags
<1>7. BlockInv(b, n, Window(n), R)
  BY Zenon, <1>3, <1>4, <1>6, FlagFacts DEF AckNow
<1>8. "NOW" \in b.flags /\ b.ann_wnd = pcb.ann_wnd
  BY <1>5 DEF AckNow, Pcb
<1> HIDE DEF b
<1>9. PICK T \in Places : /\ R <= T /\ BlockInv(Output(b, how), n, Window(n), T)
                          /\ how = "arrives" => T = n + pcb.ann_wnd
  <2>1. PICK T \in Places : /\ R <= T /\ BlockInv(Output(b, how), n, Window(n), T)
                            /\ how = "arrives" /\ "NOW" \in b.flags => T = n + b.ann_wnd
    BY Zenon, <1>4, <1>7, OutputFacts
  <2> QED BY Zenon, <1>8, <2>1
<1>10. peer' \in PeerType /\ peer'.una <= n /\ peer'.right <= T
  <2>1. CASE how = "arrives"
    <3>1. /\ Heard(pcb) \in PeerType
          /\ Heard(pcb).una <= n /\ Heard(pcb).right <= n + pcb.ann_wnd
      BY Zenon, <1>2, <1>3, <1>4, HeardFacts DEF PeerType
    <3> QED BY Zenon, <1>1, <1>9, <2>1, <3>1
  <2>2. CASE how # "arrives"
    <3>1. peer' = peer
      BY Zenon, <1>1, <2>2
    <3>2. peer.right \in Int /\ R \in Int /\ T \in Int
      BY <1>2, ConstantFacts DEF PeerType, Places
    <3>3. peer.right <= T
      BY <1>3, <1>9, <3>2
    <3> QED BY Zenon, <1>2, <3>1, <3>3
  <2> QED BY <2>1, <2>2
<1> QED BY Zenon, <1>1, <1>2, <1>5, <1>9, <1>10, StillOpen

\* tcp_fasttmr sends a delayed acknowledgement.
LEMMA FastTimerStep ==
    ASSUME RcvInv, NEW how \in Sent, FastTimer(how)
    PROVE  RcvInv' /\ SeqGEQ(pcb'.edge, pcb.edge)
<1> DEFINE n == Len(stream)
<1>1. /\ closed = "no" /\ pcb' = [SendEmptyAck(pcb, how) EXCEPT !.flags = {}]
      /\ stream' = stream /\ closed' = "no" /\ stuck' = stuck
      /\ peer' = IF how = "arrives" THEN Heard(pcb) ELSE peer
  BY Zenon DEF FastTimer
<1>2. /\ n \in 0..StreamLen /\ stream = Upto(n) /\ peer \in PeerType /\ peer.una <= n
      /\ stuck = FALSE
  BY Zenon, <1>1, OpenFacts
<1>3. PICK R \in Places : BlockInv(pcb, n, Window(n), R) /\ peer.right <= R
  BY Zenon, <1>1, OpenFacts
<1> HIDE DEF n
<1>4. n \in Places /\ Window(n) \in 0..Wnd /\ n + Window(n) \in Places
  BY Zenon, <1>2, WindowFacts
<1>5. pcb.edge = SeqnoAt(R)
  BY Zenon, <1>3, <1>4, BlockFacts
<1>6. {} \in SUBSET Flags
  OBVIOUS
<1>7. PICK T \in Places : /\ R <= T /\ BlockInv(pcb', n, Window(n), T)
                          /\ how = "arrives" => T = n + pcb.ann_wnd
  BY Zenon, <1>1, <1>3, <1>4, <1>6, SendEmptyAckFacts
<1>8. peer' \in PeerType /\ peer'.una <= n /\ peer'.right <= T
  <2>1. CASE how = "arrives"
    <3>1. /\ Heard(pcb) \in PeerType
          /\ Heard(pcb).una <= n /\ Heard(pcb).right <= n + pcb.ann_wnd
      BY Zenon, <1>2, <1>3, <1>4, HeardFacts DEF PeerType
    <3> QED BY Zenon, <1>1, <1>7, <2>1, <3>1
  <2>2. CASE how # "arrives"
    <3>1. peer' = peer
      BY Zenon, <1>1, <2>2
    <3>2. peer.right \in Int /\ R \in Int /\ T \in Int
      BY <1>2, ConstantFacts DEF PeerType, Places
    <3>3. peer.right <= T
      BY <1>3, <1>7, <3>2
    <3> QED BY Zenon, <1>2, <3>1, <3>3
  <2> QED BY <2>1, <2>2
<1> QED BY Zenon, <1>1, <1>2, <1>5, <1>7, <1>8, StillOpen

\* tcp_slowtmr drops the queue.
LEMMA FreeOoseqStep ==
    ASSUME RcvInv, FreeOoseq
    PROVE  RcvInv' /\ SeqGEQ(pcb'.edge, pcb.edge)
<1> DEFINE n == Len(stream)
<1>1. /\ closed = "no" /\ pcb' = [pcb EXCEPT !.ooseq = <<>>]
      /\ stream' = stream /\ closed' = "no" /\ stuck' = stuck /\ peer' = peer
  BY Zenon DEF FreeOoseq
<1>2. /\ n \in 0..StreamLen /\ stream = Upto(n) /\ peer \in PeerType /\ peer.una <= n
      /\ stuck = FALSE
  BY Zenon, <1>1, OpenFacts
<1>3. PICK R \in Places : BlockInv(pcb, n, Window(n), R) /\ peer.right <= R
  BY Zenon, <1>1, OpenFacts
<1> HIDE DEF n
<1>4. n \in Places /\ Window(n) \in 0..Wnd
  BY Zenon, <1>2, WindowFacts
<1>5. pcb \in Pcb /\ pcb.edge = SeqnoAt(R)
  BY Zenon, <1>3, <1>4, BlockFacts
<1>6. /\ pcb' \in Pcb /\ pcb'.rcv_nxt = pcb.rcv_nxt /\ pcb'.rcv_wnd = pcb.rcv_wnd
      /\ pcb'.edge = pcb.edge /\ pcb'.ann_wnd = pcb.ann_wnd /\ pcb'.ooseq = <<>>
  <2> DEFINE q == <<>>
  <2>1. q \in Seq(Segment) /\ pcb' = [pcb EXCEPT !.ooseq = q]
    BY <1>1
  <2> HIDE DEF q
  <2>2. /\ pcb' \in Pcb /\ pcb'.rcv_nxt = pcb.rcv_nxt /\ pcb'.rcv_wnd = pcb.rcv_wnd
        /\ pcb'.edge = pcb.edge /\ pcb'.ann_wnd = pcb.ann_wnd /\ pcb'.ooseq = q
    BY <1>5, <2>1 DEF Pcb
  <2> QED BY Zenon, <2>2 DEF q
<1>7. QueueInv(<<>>, n, R)
  BY DEF QueueInv
<1>8. BlockInv(pcb', n, Window(n), R)
  BY Zenon, <1>3, <1>6, <1>7 DEF BlockInv
<1>9. R <= R
  BY ConstantFacts DEF Places
<1> QED BY Zenon, <1>1, <1>2, <1>3, <1>5, <1>8, <1>9, StillOpen

\* A segment of a peer that respects the window is a piece in front of its end.
LEMMA SendableFacts ==
    ASSUME NEW in \in Sendable, NEW R \in Places, peer \in PeerType, peer.right <= R,
           TcpLen(in) # 0
    PROVE  Piece(in, R)
<1>1. /\ in \in Segments /\ in.from + in.len <= StreamLen
      /\ in.fin => in.from + in.len = StreamLen
      /\ in.from + TcpLen(in) <= peer.right
  BY DEF Sendable
<1>2. PICK f \in 0..StreamLen, n \in 0..Mss, e \in BOOLEAN :
            in = [seqno |-> SeqnoAt(f), from |-> f, len |-> n, fin |-> e]
  BY <1>1 DEF Segments
<1>3. f \in Int /\ n \in Nat /\ f \in Nat
  BY ConstantFacts
<1>4. SeqnoAt(f) \in Numbers
  BY <1>3, AddPlace
<1>5. in.seqno = SeqnoAt(f) /\ in.from = f /\ in.len = n /\ in.fin = e /\ in \in Segment
  BY <1>2, <1>4 DEF Segment
<1>6. TcpLen(in) \in Nat
  BY <1>3, <1>5 DEF TcpLen
<1>7. TcpLen(in) > 0 /\ Stop(in) <= R
  <2>1. peer.right \in Int /\ R \in Int
    BY ConstantFacts DEF PeerType, Places
  <2> QED BY <1>1, <1>3, <1>5, <1>6, <2>1 DEF Stop
<1> QED BY Zenon, <1>1, <1>5, <1>7 DEF Piece

\* tcp_input with a segment of the peer.
LEMMA TcpInputStep ==
    ASSUME RcvInv, NEW in \in Sendable, NEW copied \in BOOLEAN, NEW how \in Sent,
           TcpInput(in, copied, how)
    PROVE  RcvInv' /\ SeqGEQ(pcb'.edge, pcb.edge)
<1> DEFINE n == Len(stream)
<1>1. closed = "no"
  BY Zenon DEF TcpInput
<1>2. /\ n \in 0..StreamLen /\ stream = Upto(n) /\ peer \in PeerType /\ peer.una <= n
      /\ stuck = FALSE
  BY Zenon, <1>1, OpenFacts
<1>3. PICK R \in Places : BlockInv(pcb, n, Window(n), R) /\ peer.right <= R
  BY Zenon, <1>1, OpenFacts
<1>4. PICK r \in TcpReceive(pcb, in, copied) :
        IF r.failed THEN stuck' = TRUE /\ UNCHANGED <<pcb, stream, closed, peer>>
        ELSE /\ stream' = Gathered(stream, r.data)
             /\ \E p \in {Read(r.pcb, Len(stream), Len(stream'))} :
                IF \E i \in 1..Len(r.data) : r.data[i].fin
                THEN /\ pcb' = FinRead(AckNow(p)) /\ closed' = CloseWith(pcb')
                     /\ UNCHANGED peer
                ELSE /\ pcb' = Output(p, how) /\ UNCHANGED closed
                     /\ peer' = IF how = "arrives" /\ "NOW" \in p.flags
                                THEN Heard(p) ELSE peer
             /\ UNCHANGED stuck
  BY Zenon DEF TcpInput
<1>5. TcpLen(in) # 0 => Piece(in, R)
  BY Zenon, <1>2, <1>3, SendableFacts
<1>6. /\ ~r.failed
      /\ \/ r.data = <<>> /\ BlockInv(r.pcb, n, Window(n), R)
         \/ Took(r, n, R)
  BY Zenon, <1>2, <1>3, <1>5, ReceiveFacts
<1> DEFINE p == Read(r.pcb, n, Len(stream'))
<1>7. /\ stream' = Gathered(Upto(n), r.data) /\ stuck' = FALSE
      /\ (\E i \in 1..Len(r.data) : r.data[i].fin) =>
            pcb' = FinRead(AckNow(p)) /\ closed' = CloseWith(pcb') /\ peer' = peer
      /\ ~ (\E i \in 1..Len(r.data) : r.data[i].fin) =>
            /\ pcb' = Output(p, how) /\ closed' = "no"
            /\ peer' = IF how = "arrives" /\ "NOW" \in p.flags THEN Heard(p) ELSE peer
  BY Zenon, <1>1, <1>2, <1>4, <1>6
<1> HIDE DEF n
<1>8. /\ n \in Places /\ Window(n) \in 0..Wnd /\ pcb.edge = SeqnoAt(R) /\ R \in Int
      /\ peer.right \in Int
  <2>1. n \in Places /\ Window(n) \in 0..Wnd
    BY Zenon, <1>2, WindowFacts
  <2>2. pcb.edge = SeqnoAt(R)
    BY Zenon, <1>3 DEF BlockInv
  <2>3. R \in Int /\ peer.right \in Int
    BY <1>2, ConstantFacts DEF PeerType, Places
  <2> QED BY Zenon, <2>1, <2>2, <2>3
\* The end of a step that has not met a FIN.
<1>9. ASSUME NEW g \in 0..StreamLen, n <= g, stream' = Upto(g), BlockInv(p, g, Window(g), R),
             ~ (\E i \in 1..Len(r.data) : r.data[i].fin)
      PROVE  RcvInv' /\ SeqGEQ(pcb'.edge, pcb.edge)
  <2>1. g \in Places /\ Window(g) \in 0..Wnd /\ g + Window(g) \in Places
    BY Zenon, WindowFacts
  <2>2. /\ pcb' = Output(p, how) /\ closed' = "no"
        /\ peer' = IF how = "arrives" /\ "NOW" \in p.flags THEN Heard(p) ELSE peer
    BY Zenon, <1>7, <1>9
  <2> HIDE DEF p
  <2>3. PICK T \in Places : /\ R <= T /\ BlockInv(Output(p, how), g, Window(g), T)
                            /\ how = "arrives" /\ "NOW" \in p.flags => T = g + p.ann_wnd
    BY Zenon, <1>9, <2>1, OutputFacts
  <2>4. peer.una <= g
    <3>1. peer.una \in Int /\ n \in Int /\ g \in Int
      BY <1>2, ConstantFacts DEF PeerType
    <3> QED BY <1>2, <1>9, <3>1
  <2>5. peer' \in PeerType /\ peer'.una <= g /\ peer'.right <= T
    <3>1. CASE how = "arrives" /\ "NOW" \in p.flags
      <4>1. Heard(p) \in PeerType /\ Heard(p).una <= g /\ Heard(p).right <= g + p.ann_wnd
        BY Zenon, <1>2, <1>3, <1>9, <2>1, <2>4, HeardFacts DEF PeerType
      <4> QED BY Zenon, <2>2, <2>3, <3>1, <4>1
    <3>2. CASE ~ (how = "arrives" /\ "NOW" \in p.flags)
      <4>1. peer' = peer
        BY Zenon, <2>2, <3>2
      <4>2. T \in Int
        BY ConstantFacts DEF Places
      <4>3. peer.right <= T
        BY <1>3, <1>8, <2>3, <4>2
      <4> QED BY Zenon, <1>2, <2>4, <4>1, <4>3
    <3> QED BY <3>1, <3>2
  <2> QED BY Zenon, <1>7, <1>8, <1>9, <2>2, <2>3, <2>5, StillOpen
<1>10. \A g \in Nat : Len(Upto(g)) = g
  BY DEF Upto
<1>11. CASE r.data = <<>> /\ BlockInv(r.pcb, n, Window(n), R)
  <2>1. n \in Nat /\ 1..Len(r.data) = {} /\ n <= n
    BY <1>2, <1>11, ConstantFacts
  <2>2. stream' = Upto(n)
    <3> DEFINE d == r.data
    <3>1. d \in Seq(Segment) /\ d = <<>> /\ 1..Len(d) = {}
      BY <1>11, <2>1
    <3> HIDE DEF d
    <3>2. Gathered(Upto(n), d) = Upto(IF d = <<>> THEN n ELSE d[Len(d)].from + d[Len(d)].len)
      BY Zenon, <2>1, <3>1, GatheredFacts
    <3> QED BY Zenon, <1>7, <3>1, <3>2 DEF d
  <2>3. Len(stream') = n
    BY Zenon, <1>10, <2>1, <2>2
  <2>4. BlockInv(p, n, Window(n), R)
    <3>1. 0 \in 0..1 /\ Window(n) - (n - n) - 0 = Window(n) /\ Window(n) - 0 = Window(n)
      BY <1>8, <2>1, ConstantFacts
    <3>2. BlockInv(Read(r.pcb, n, n), n, Window(n) - 0, R)
      BY Zenon, <1>2, <1>8, <1>11, <2>1, <3>1, ReadFacts
    <3> QED BY Zenon, <2>3, <3>1, <3>2
  <2> QED BY Zenon, <1>2, <1>9, <2>1, <2>2, <2>4
<1>12. CASE Took(r, n, R)
  <2> DEFINE l == r.data[Len(r.data)]
             g == l.from + l.len
  <2>1. /\ g \in n..StreamLen /\ Gathered(Upto(n), r.data) = Upto(g)
        /\ (\E i \in 1..Len(r.data) : r.data[i].fin) <=> l.fin
        /\ ~l.fin => BlockInv(Read(r.pcb, n, g), g, Window(g), R)
        /\ l.fin => /\ g = StreamLen /\ StreamLen + 1 \in Places
                    /\ BlockInv(Read(r.pcb, n, g), StreamLen + 1, Wnd - 1, R)
                    /\ Read(r.pcb, n, g).ooseq = <<>>
    BY Zenon, <1>2, <1>12, TakenFacts
  <2> HIDE DEF l, g
  <2>2. g \in 0..StreamLen /\ n <= g /\ g \in Nat
    BY <1>2, <2>1, ConstantFacts
  <2>3. stream' = Upto(g) /\ Len(stream') = g
    BY Zenon, <1>7, <1>10, <2>1, <2>2
  <2>4. CASE ~l.fin
    BY Zenon, <1>9, <2>1, <2>2, <2>3, <2>4
  <2>5. CASE l.fin
    <3>1. /\ g = StreamLen /\ StreamLen + 1 \in Places /\ p.ooseq = <<>>
          /\ BlockInv(p, StreamLen + 1, Wnd - 1, R)
      BY Zenon, <2>1, <2>3, <2>5
    <3>2. pcb' = FinRead(AckNow(p)) /\ closed' = CloseWith(pcb') /\ peer' = peer
      BY Zenon, <1>7, <2>1, <2>5
    <3> HIDE DEF p
    <3>3. p \in Pcb /\ p.rcv_wnd = Wnd - 1 /\ p.edge = SeqnoAt(R)
      BY Zenon, <3>1 DEF BlockInv
    <3>4. AckNow(p) \in Pcb /\ AckNow(p).rcv_wnd = Wnd - 1 /\ AckNow(p).edge = p.edge
          /\ AckNow(p).ooseq = p.ooseq
      <4>1. p.flags \cup {"NOW"} \in SUBSET Flags
        BY <3>3 DEF Pcb, Flags
      <4> QED BY <3>3, <4>1 DEF AckNow, Pcb
    <3>5. /\ pcb' \in Pcb /\ pcb'.rcv_wnd = Wnd /\ pcb'.edge = p.edge /\ pcb'.ooseq = p.ooseq
      <4> DEFINE b == AckNow(p)
                 wnd == IF b.rcv_wnd # Wnd THEN b.rcv_wnd + 1 ELSE b.rcv_wnd
      <4>1. wnd = Wnd /\ Wnd \in 0..Wnd
        BY <3>4, ConstantFacts
      <4>2. pcb' = [b EXCEPT !.rcv_wnd = wnd]
        BY <3>2 DEF FinRead
      <4>3. pcb' = [b EXCEPT !.rcv_wnd = Wnd]
        BY Zenon, <4>1, <4>2
      <4> HIDE DEF b, wnd
      <4>4. b \in Pcb /\ b.edge = p.edge /\ b.ooseq = p.ooseq
        BY Zenon, <3>4 DEF b
      <4> QED BY <4>1, <4>3, <4>4 DEF Pcb
    <3>6. closed' = "fin"
      BY Zenon, <3>2, <3>5 DEF CloseWith
    <3>7. SeqGEQ(pcb'.edge, pcb.edge)
      <4>1. ~SeqLT(SeqnoAt(R), SeqnoAt(R))
        BY <1>8, Compare
      <4> QED BY Zenon, <1>8, <3>3, <3>5, <4>1 DEF SeqGEQ
    <3>8. /\ stream' \in Seq(0..(StreamLen - 1)) /\ Len(stream') = StreamLen
          /\ StreamLen <= StreamLen /\ \A i \in 1..Len(stream') : stream'[i] = i - 1
      BY <2>3, <3>1, ConstantFacts DEF Upto
    <3>9. closed' # "no"
      BY <3>6
    <3>10. pcb'.ooseq = <<>>
      BY Zenon, <3>1, <3>5
    <3>11. RcvInv'
      BY Zenon, <1>2, <1>7, <3>2, <3>5, <3>6, <3>8, <3>9, <3>10 DEF RcvInv, PeerType
    <3> QED BY <3>7, <3>11
  <2> QED BY <2>4, <2>5
<1> QED BY Zenon, <1>6, <1>11, <1>12

\* Every step keeps the invariant and does not take back the announced window.
LEMMA RcvStep ==
    ASSUME RcvInv, [Next]_vars
    PROVE  RcvInv' /\ (SeqGEQ(pcb'.edge, pcb.edge) \/ UNCHANGED vars)
<1>1. CASE UNCHANGED vars
  <2>1. /\ pcb' = pcb /\ stream' = stream /\ closed' = closed /\ peer' = peer /\ stuck' = stuck
    BY Zenon, <1>1 DEF vars
  <2>2. RcvInv'
    BY Zenon, <2>1 DEF RcvInv
  <2> QED BY <1>1, <2>2
<1>2. CASE \E s \in Sendable, copied \in BOOLEAN, how \in Sent : TcpInput(s, copied, how)
  BY Zenon, <1>2, TcpInputStep
<1>3. CASE \E how \in Sent : SynAgain(how)
  BY Zenon, <1>3, SynAgainStep
<1>4. CASE \E how \in Sent : FastTimer(how)
  BY Zenon, <1>4, FastTimerStep
<1>5. CASE FreeOoseq
  BY Zenon, <1>5, FreeOoseqStep
<1> QED BY Zenon, <1>1, <1>2, <1>3, <1>4, <1>5 DEF Next

-----------------------------------------------------------------------------
(* The results. *)

\* The inductive invariant: rcv_nxt stands for the end of the stream the
\* application has got, the window is what the unread header leaves of it, the
\* announced edge lies inside of it, and the queue between rcv_nxt and the edge.
THEOREM RcvAlways == Spec => []RcvInv
<1>1. Init => RcvInv
  BY RcvInit
<1>2. RcvInv /\ [Next]_vars => RcvInv'
  BY Zenon, RcvStep
<1> QED BY <1>1, <1>2, PTL DEF Spec

\* The invariant's queue is ordered by the numbers that the code compares.
LEMMA QueueOfBlock ==
    ASSUME NEW n \in 0..StreamLen, NEW R \in Places, BlockInv(pcb, n, Window(n), R)
    PROVE  QueueSound
<1> DEFINE q == pcb.ooseq
           w == Window(n)
<1>1. n \in Places /\ w \in 0..Wnd /\ n + w \in Places /\ n \in Int /\ w \in Int
  BY WindowFacts, ConstantFacts
<1>2. /\ pcb.rcv_nxt = SeqnoAt(n) /\ pcb.rcv_wnd = w /\ QueueInv(q, n, R) /\ R <= n + w
      /\ R \in Nat
  BY Zenon, <1>1, BlockFacts
<1>3. Add(pcb.rcv_nxt, pcb.rcv_wnd) = SeqnoAt(n + w)
  BY <1>1, <1>2, AddPlace
<1> HIDE DEF q, w
<1>4. /\ q \in Seq(Segment)
      /\ \A i \in 1..Len(q) : Piece(q[i], R) /\ n < q[i].from
      /\ \A i, j \in 1..Len(q) : i < j => q[i].from + q[i].len <= q[j].from /\ ~q[i].fin
  BY Zenon, <1>2 DEF QueueInv
<1>5. ASSUME NEW i \in 1..Len(q)
      PROVE  /\ q[i].seqno = SeqnoAt(q[i].from) /\ SeqGT(q[i].seqno, pcb.rcv_nxt)
             /\ SeqLEQ(Add(q[i].seqno, TcpLen(q[i])), SeqnoAt(n + w))
  <2>1. /\ q[i].seqno = SeqnoAt(q[i].from) /\ q[i].from \in Places /\ Stop(q[i]) \in Places
        /\ Stop(q[i]) <= R /\ Add(q[i].seqno, TcpLen(q[i])) = SeqnoAt(Stop(q[i]))
        /\ n < q[i].from
    BY Zenon, <1>4, PieceFacts
  <2>2. SeqLT(SeqnoAt(n), SeqnoAt(q[i].from))
    BY Zenon, <1>1, <2>1, Compare
  <2>3. ~ (n + w < Stop(q[i]))
    BY <1>1, <1>2, <2>1, ConstantFacts DEF Places
  <2>4. ~SeqLT(SeqnoAt(n + w), SeqnoAt(Stop(q[i])))
    BY Zenon, <1>1, <2>1, <2>3, Compare
  <2> QED BY Zenon, <1>2, <2>1, <2>2, <2>4 DEF SeqGT, SeqLEQ
<1>6. ASSUME NEW i \in 1..Len(q), i < Len(q)
      PROVE  /\ SeqLEQ(Add(q[i].seqno, TcpLen(q[i])), q[i + 1].seqno)
             /\ ~q[i].fin /\ q[i].len > 0
  <2>1. i + 1 \in 1..Len(q) /\ i < i + 1
    BY <1>4, <1>6
  <2>2. q[i].from + q[i].len <= q[i + 1].from /\ ~q[i].fin
    BY Zenon, <1>4, <2>1
  <2>3. /\ Stop(q[i]) \in Places /\ Add(q[i].seqno, TcpLen(q[i])) = SeqnoAt(Stop(q[i]))
        /\ TcpLen(q[i]) > 0
        /\ (TcpLen(q[i]) = IF q[i].fin THEN q[i].len + 1 ELSE q[i].len)
    BY Zenon, <1>4, PieceFacts
  <2>4. q[i].len > 0 /\ Stop(q[i]) = q[i].from + q[i].len
    BY Zenon, <2>2, <2>3 DEF Stop
  <2>5. q[i + 1].seqno = SeqnoAt(q[i + 1].from) /\ q[i + 1].from \in Places
    BY Zenon, <1>4, <2>1, PieceFacts
  <2>6. ~ (q[i + 1].from < Stop(q[i]))
    <3>1. q[i + 1].from \in Int /\ Stop(q[i]) \in Int
      BY <2>3, <2>5, ConstantFacts DEF Places
    <3> QED BY <2>2, <2>4, <3>1
  <2>7. ~SeqLT(SeqnoAt(q[i + 1].from), SeqnoAt(Stop(q[i])))
    BY <2>3, <2>5, <2>6, Compare
  <2> QED BY Zenon, <2>2, <2>3, <2>4, <2>5, <2>7 DEF SeqLEQ
<1> QED BY Zenon, <1>3, <1>5, <1>6 DEF QueueSound, q

\* tcp_receive, tcp_oos_insert_segment: the control block is sound whatever
\* the peer cuts, repeats or reorders, for every stream, window and segment
\* size, and wherever the sequence numbers wrap around.
THEOREM PcbSoundAlways == Spec => []PcbSound
<1>1. RcvInv => PcbSound
  <2>1. SUFFICES ASSUME RcvInv
                 PROVE  PcbSound
    OBVIOUS
  <2>2. CASE closed = "no"
    <3>1. Len(stream) \in 0..StreamLen /\ stuck = FALSE
      BY Zenon, <2>1, <2>2, OpenFacts
    <3>2. PICK R \in Places : BlockInv(pcb, Len(stream), Window(Len(stream)), R)
      BY Zenon, <2>1, <2>2, OpenFacts
    <3>3. QueueSound
      BY Zenon, <3>1, <3>2, QueueOfBlock
    <3>4. pcb \in Pcb
      BY Zenon, <3>2 DEF BlockInv
    <3>5. TypeOK
      BY Zenon, <2>1, <2>2, <3>1, <3>4 DEF RcvInv, TypeOK, Pcb, Segment
    <3> QED BY Zenon, <3>3, <3>5 DEF PcbSound
  <2>3. CASE closed # "no"
    <3>1. closed = "fin" /\ pcb \in Pcb /\ pcb.ooseq = <<>> /\ stuck = FALSE
      BY Zenon, <2>1, <2>3 DEF RcvInv
    <3>2. 1..Len(pcb.ooseq) = {}
      BY <3>1
    <3>3. QueueSound
      BY Zenon, <3>2 DEF QueueSound
    <3>4. TypeOK
      BY Zenon, <2>1, <3>1 DEF RcvInv, TypeOK, Pcb, Segment
    <3> QED BY Zenon, <3>3, <3>4 DEF PcbSound
  <2> QED BY <2>2, <2>3
<1> QED BY <1>1, RcvAlways, PTL

\* tcp_receive, tcp_input: the application gets the stream of the peer in
\* order, whole and once, and is told the end behind its last byte.
THEOREM InOrderAlways == Spec => []InOrder
<1>1. RcvInv => InOrder
  BY Zenon DEF RcvInv, InOrder
<1> QED BY <1>1, RcvAlways, PTL

\* tcp_update_rcv_ann_wnd, tcp_receive: all of the window that the peer knows
\* of is there, and no assertion of the receiving code fails.
THEOREM AnnouncedIsTakenAlways == Spec => []AnnouncedIsTaken
<1>1. RcvInv => AnnouncedIsTaken
  <2>1. SUFFICES ASSUME RcvInv
                 PROVE  AnnouncedIsTaken
    OBVIOUS
  <2>2. ~stuck
    BY Zenon, <2>1 DEF RcvInv
  <2>3. ASSUME closed = "no"
        PROVE  peer.right <= Len(stream) + pcb.rcv_wnd
    <3> DEFINE n == Len(stream)
    <3>1. n \in 0..StreamLen /\ peer \in PeerType
      BY Zenon, <2>1, <2>3, OpenFacts
    <3>2. PICK R \in Places : BlockInv(pcb, n, Window(n), R) /\ peer.right <= R
      BY Zenon, <2>1, <2>3, OpenFacts
    <3> HIDE DEF n
    <3>3. n \in Places /\ Window(n) \in 0..Wnd
      BY Zenon, <3>1, WindowFacts
    <3>4. pcb.rcv_wnd = Window(n) /\ R <= n + Window(n) /\ R \in Nat /\ n \in Nat /\ Window(n) \in Nat
      BY Zenon, <3>2, <3>3, BlockFacts
    <3>5. peer.right \in Int
      BY <3>1 DEF PeerType
    <3>6. peer.right <= n + pcb.rcv_wnd
      BY <3>2, <3>4, <3>5
    <3> QED BY Zenon, <3>6 DEF n
  <2> QED BY Zenon, <2>2, <2>3 DEF AnnouncedIsTaken
<1> QED BY <1>1, RcvAlways, PTL

\* tcp_send_empty_ack, tcp_update_rcv_ann_wnd: no acknowledgement takes back a
\* part of the window that has been announced.
THEOREM EdgeNeverBackAlways == Spec => EdgeNeverBack
<1>1. RcvInv /\ [Next]_vars => [SeqGEQ(pcb'.edge, pcb.edge)]_vars
  BY Zenon, RcvStep
<1> QED BY <1>1, RcvAlways, PTL DEF Spec, EdgeNeverBack
=============================================================================
