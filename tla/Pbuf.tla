-------------------------------- MODULE Pbuf --------------------------------
(***************************************************************************)
(* The packet buffers of lwIP (lwip-2.1.2/src/core/pbuf.c) over the heap   *)
(* of Mem: chains of struct pbuf with reference counts. The frames that    *)
(* come in are chains from a pool, what is sent starts with a pbuf from    *)
(* the heap, and the data of the test report stays where it is, behind a   *)
(* PBUF_ROM.                                                               *)
(*                                                                         *)
(* The callers are the parts of the stack, with the calls they make in     *)
(* this build. A caller cuts and extends only the head of a chain, and     *)
(* pbuf_free_header is called on chains nobody else refers to. Of the data *)
(* only the places are kept: a byte is the pbuf it lies in and its offset  *)
(* there.                                                                  *)
(*                                                                         *)
(* KeepPartial, WrapAllowed and SkipShorter are faulty variants of the     *)
(* definitions that follow them; no action uses them.                      *)
(***************************************************************************)
EXTENDS Mem, FiniteSetsExt, SequencesExt, TLC

CONSTANTS
    PoolElems,    \* the elements of MEMP_PBUF_POOL
    RomElems,     \* the elements of MEMP_PBUF
    BufSize,      \* PBUF_POOL_BUFSIZE_ALIGNED
    LenWidth,     \* the numbers a u16_t can hold
    Lengths,      \* the lengths of packets
    Cuts,         \* how many bytes of a received packet are kept or hidden
    SplitAt,      \* how many bytes of a segment are kept when it is split
    Layer,        \* the room for headers in front of a packet that is sent
    HeaderSize,   \* the size of a header
    MaxPointers,  \* bound: how many pointers to one pbuf the callers keep
    MaxPbufs      \* bound: how many pbufs of packets to be sent are in use

ASSUME PbufAssumption ==
    /\ BufSize \in Nat \ {0} /\ BufSize % Alignment = 0
    /\ LenWidth \in Nat /\ LenWidth % Alignment = 0 /\ LenWidth < Width
    /\ Lengths \subseteq 1..(LenWidth - 1)
    /\ Cuts \subseteq Nat \ {0} /\ SplitAt \in Cuts
    /\ Layer \in Nat /\ Layer % Alignment = 0 /\ Layer < LenWidth
    /\ HeaderSize \in Nat \ {0} /\ MaxPointers \in Nat \ {0} /\ MaxPbufs \in Nat

VARIABLES
    pbuf,     \* the pbufs in use
    pointers  \* how many pointers to a pbuf the callers have

vars == <<heap, pbuf, pointers>>

SizeofPbuf == 16  \* SIZEOF_STRUCT_PBUF

\* pbuf_init_alloced_pbuf; "off" is where the payload starts behind the struct.
NewPbuf(src, off, len, tot) ==
    [src |-> src, next |-> Null, off |-> off, len |-> len, tot_len |-> tot, ref |-> 1]

PbufInit == MemInit /\ pbuf = <<>> /\ pointers = <<>>

-----------------------------------------------------------------------------
\* The pbufs from p on.
RECURSIVE Linked(_, _)
Linked(b, p) == IF p = Null THEN <<>> ELSE <<p>> \o Linked(b, b[p].next)

IsFirst(p) == \A q \in DOMAIN pbuf : pbuf[q].next # p
Holds(p) == p \in DOMAIN pointers

\* A packet that came in is a chain from the pool; one to be sent starts with
\* a pbuf of the heap.
Received(p) == pbuf[p].src = "pool"
ToSend(p) == pbuf[p].src = "heap"

\* One pointer leads to the chain.
Alone(p) == Holds(p) /\ IsFirst(p) /\ \A q \in Range(Linked(pbuf, p)) : pbuf[q].ref = 1

Point(f, p) == IF p = Null THEN f ELSE IF p \in DOMAIN f THEN [f EXCEPT ![p] = @ + 1] ELSE With(f, p, 1)
Unpoint(f, p) == IF f[p] > 1 THEN [f EXCEPT ![p] = @ - 1] ELSE Restrict(f, DOMAIN f \ {p})

\* memp_free or mem_free of a pbuf.
Release(h, b, p) == IF b[p].src = "heap" THEN MemFree(h, p) ELSE h

\* pbuf_free: up to the first pbuf that somebody else refers to.
RECURSIVE PbufFree(_, _)
PbufFree(x, p) ==
    IF p = Null THEN x
    ELSE LET q == x.pbuf[p]
         IN  IF q.ref > 1 THEN [x EXCEPT !.pbuf[p].ref = @ - 1]
             ELSE PbufFree([heap |-> Release(x.heap, x.pbuf, p), pbuf |-> Forget(x.pbuf, p)], q.next)

Memory(b) == [heap |-> heap, pbuf |-> b]
Becomes(x) == heap' = x.heap /\ pbuf' = x.pbuf

-----------------------------------------------------------------------------
(* pbuf_alloc *)

InUse == Cardinality(DOMAIN pbuf)

\* Bound: no call joins a chain from the pool with one from the heap, so
\* packets that came in and packets to be sent are not in use together.
NoneIn == \A p \in DOMAIN pbuf : ~Received(p)
NoneOut == held = <<>> /\ \A p \in DOMAIN pbuf : Received(p)

\* The chain for n bytes, or its first pbufs, in the elements es of the pool.
PoolPbufs(es, n) ==
    [e \in Range(es) |->
        LET i == CHOOSE j \in DOMAIN es : es[j] = e
            rem == n - (i - 1) * BufSize
        IN  [NewPbuf("pool", 0, Min({rem, BufSize}), rem) EXCEPT
                !.next = IF i < Len(es) THEN es[i + 1] ELSE Null]]

KeepPartial(b, p) == Memory(b)

\* The pool is empty: the chain so far is freed. (That the queued segments of
\* a connection are freed as well, later, is FreeOoseq of TcpRecv.)
GiveBack(b, p) == PbufFree(Memory(b), p)

\* PBUF_RAW, PBUF_POOL. Which elements the pool gives away does not matter.
AllocPool(n) ==
    LET needed == (n + BufSize - 1) \div BufSize
        free == SetToSeq(PoolElems \ DOMAIN pbuf)
        taken == SubSeq(free, 1, Min({needed, Len(free)}))
        p == IF taken = <<>> THEN Null ELSE taken[1]
        b == PoolPbufs(taken, n) @@ pbuf
    IN  /\ ~heap.stuck /\ NoneOut
        /\ \/ /\ Len(taken) = needed
              /\ Becomes(Memory(b)) /\ pointers' = Point(pointers, p)
           \/ /\ Len(taken) < needed
              /\ Becomes(GiveBack(b, p)) /\ UNCHANGED pointers

PayloadLen(n) == (Layer + Aligned(n)) % LenWidth
AllocLen(n) == SizeofPbuf + PayloadLen(n)

WrapAllowed(n) == TRUE

\* The length did not overflow.
LengthFits(n) == PayloadLen(n) >= Aligned(n) /\ AllocLen(n) >= Aligned(n)

\* PBUF_TRANSPORT, PBUF_RAM.
AllocRam(n) ==
    LET p == Found(heap, AllocLen(n)) + SizeofMem
    IN  /\ ~heap.stuck /\ NoneIn /\ InUse < MaxPbufs /\ LengthFits(n) /\ Found(heap, AllocLen(n)) # Null
        /\ heap' = MemMalloc(heap, AllocLen(n))
        /\ pbuf' = With(pbuf, p, NewPbuf("heap", Layer, n, n))
        /\ pointers' = Point(pointers, p)

\* PBUF_ROM: pbuf_alloc_reference.
AllocRom(n) ==
    LET free == RomElems \ DOMAIN pbuf
        p == CHOOSE e \in free : TRUE
    IN  /\ ~heap.stuck /\ NoneIn /\ InUse < MaxPbufs /\ free # {}
        /\ pbuf' = With(pbuf, p, NewPbuf("rom", 0, n, n))
        /\ pointers' = Point(pointers, p) /\ UNCHANGED heap

-----------------------------------------------------------------------------
\* pbuf_free by a caller.
Free(p) ==
    /\ ~heap.stuck /\ Holds(p)
    /\ Becomes(PbufFree(Memory(pbuf), p))
    /\ pointers' = Unpoint(pointers, p)

\* pbuf_ref.
Ref(p) ==
    /\ ~heap.stuck /\ Holds(p) /\ pointers[p] < MaxPointers
    /\ pbuf' = [pbuf EXCEPT ![p].ref = @ + 1]
    /\ pointers' = Point(pointers, p) /\ UNCHANGED heap

\* t behind the last pbuf of the chain of p.
RECURSIVE Joined(_, _, _)
Joined(b, p, t) ==
    LET sum == (b[p].tot_len + b[t].tot_len) % LenWidth
    IN  IF b[p].next # Null THEN Joined([b EXCEPT ![p].tot_len = sum], b[p].next, t)
        ELSE [b EXCEPT ![p].tot_len = sum, ![p].next = t]

\* pbuf_cat takes over the pointer to t. The window of the connection and the
\* segment size keep the sum below the width.
Cat(h, t) ==
    /\ ~heap.stuck /\ Holds(h) /\ Holds(t) /\ IsFirst(h) /\ IsFirst(t) /\ h # t
    /\ (Received(h) /\ Received(t)) \/ (ToSend(h) /\ ~Received(t))
    /\ pbuf[h].tot_len + pbuf[t].tot_len < LenWidth
    /\ pbuf' = Joined(pbuf, h, t)
    /\ pointers' = Unpoint(pointers, t) /\ UNCHANGED heap

-----------------------------------------------------------------------------
(* pbuf_realloc *)

\* The memory behind the last byte of a pbuf of the heap.
Shrunk(h, p, q, rem) ==
    IF q.src = "heap" /\ rem # q.len THEN MemTrim(h, p, SizeofPbuf + q.off + rem) ELSE h

\* pbuf_realloc from p on: n bytes remain, all totals become smaller by
\* "shrink", and the pbufs behind the new last one are freed.
RECURSIVE Cut(_, _, _, _)
Cut(x, p, n, shrink) ==
    LET q == x.pbuf[p]
        h == Shrunk(x.heap, p, q, n)
    IN  IF n > q.len THEN Cut([x EXCEPT !.pbuf[p].tot_len = @ - shrink], q.next, n - q.len, shrink)
        ELSE IF h.stuck THEN [x EXCEPT !.heap = h]
        ELSE PbufFree([heap |-> h, pbuf |-> [x.pbuf EXCEPT ![p] = [q EXCEPT
                          !.len = n, !.tot_len = n, !.next = Null]]], q.next)

Reallocated(p, n) == Cut(Memory(pbuf), p, n, pbuf[p].tot_len - n)

\* ip4_input and tcp_receive; and tcp_split_unsent_seg.
Realloc(p, n) ==
    /\ ~heap.stuck /\ Holds(p) /\ IsFirst(p) /\ n < pbuf[p].tot_len
    /\ Received(p) \/ (ToSend(p) /\ n = SplitAt)
    /\ Becomes(Reallocated(p, n)) /\ UNCHANGED pointers

-----------------------------------------------------------------------------
(* Headers *)

\* pbuf_remove_header of at most the length of the pbuf.
Hidden(b, p, n) == [b EXCEPT ![p].off = @ + n, ![p].len = @ - n, ![p].tot_len = @ - n]

RemoveHeader(p) ==
    /\ ~heap.stuck /\ Holds(p) /\ IsFirst(p)
    /\ Received(p) \/ (ToSend(p) /\ pbuf[p].off < Layer)
    /\ HeaderSize <= pbuf[p].len
    /\ pbuf' = Hidden(pbuf, p, HeaderSize)
    /\ UNCHANGED <<heap, pointers>>

\* There is room in front of the payload.
RoomInFront(p) == pbuf[p].src # "rom" /\ pbuf[p].off >= HeaderSize

\* pbuf_add_header.
AddHeader(p) ==
    /\ ~heap.stuck /\ Holds(p) /\ IsFirst(p) /\ ToSend(p)
    /\ pbuf[p].tot_len + HeaderSize < LenWidth /\ RoomInFront(p)
    /\ pbuf' = Hidden(pbuf, p, -HeaderSize)
    /\ UNCHANGED <<heap, pointers>>

\* pbuf_free_header: the chain without its first n bytes, and its new first
\* pbuf.
RECURSIVE FreeFront(_, _, _)
FreeFront(x, p, n) ==
    IF n = 0 \/ p = Null THEN [mem |-> x, first |-> p]
    ELSE LET q == x.pbuf[p]
         IN  IF n >= q.len
             THEN FreeFront(PbufFree([x EXCEPT !.pbuf[p].next = Null], p), q.next, n - q.len)
             ELSE [mem |-> [x EXCEPT !.pbuf = Hidden(@, p, n)], first |-> p]

\* The http client hides the header of the answer.
FreeHeader(p, n) ==
    LET x == FreeFront(Memory(pbuf), p, n)
    IN  /\ ~heap.stuck /\ Alone(p) /\ Received(p) /\ n <= pbuf[p].tot_len
        /\ Becomes(x.mem)
        /\ pointers' = Point(Unpoint(pointers, p), x.first)

\* The pbufs of a chain with the first n bytes hidden; "tot" is what remains.
RECURSIVE Passed(_, _, _, _)
Passed(b, p, n, tot) ==
    IF b[p].len < n
    THEN Passed([b EXCEPT ![p].len = 0, ![p].tot_len = tot], b[p].next, n - b[p].len, tot)
    ELSE Hidden(b, p, n)

\* tcp_receive hides what it already has at the front of a segment.
TrimFront(p, n) ==
    /\ ~heap.stuck /\ Holds(p) /\ IsFirst(p) /\ Received(p) /\ n < pbuf[p].tot_len
    /\ pbuf' = Passed(pbuf, p, n, pbuf[p].tot_len - n)
    /\ UNCHANGED <<heap, pointers>>

-----------------------------------------------------------------------------
\* Other callers of the heap, such as the state of a request.
OtherMalloc(n) == NoneIn /\ Malloc(n) /\ UNCHANGED <<pbuf, pointers>>

OtherFree(p) == FreeBlock(p) /\ UNCHANGED <<pbuf, pointers>>

PbufNext ==
    \/ \E n \in Lengths : AllocPool(n) \/ AllocRam(n) \/ AllocRom(n)
    \/ \E p \in DOMAIN pbuf : Free(p) \/ Ref(p) \/ RemoveHeader(p) \/ AddHeader(p)
    \/ \E h, t \in DOMAIN pbuf : Cat(h, t)
    \/ \E p \in DOMAIN pbuf, n \in Cuts : Realloc(p, n) \/ FreeHeader(p, n) \/ TrimFront(p, n)
    \/ \E n \in Sizes : OtherMalloc(n)
    \/ \E p \in DOMAIN held \ DOMAIN pbuf : OtherFree(p)

PbufSpec == PbufInit /\ [][PbufNext]_vars

-----------------------------------------------------------------------------
(* Reading a packet *)

\* The bytes of a packet, by their places.
RECURSIVE Bytes(_, _)
Bytes(b, p) ==
    IF p = Null THEN <<>>
    ELSE [i \in 1..b[p].len |-> <<p, b[p].off + i - 1>>] \o Bytes(b, b[p].next)

RECURSIVE SkipShorter(_, _)
SkipShorter(p, n) ==
    IF p # Null /\ pbuf[p].len < n THEN SkipShorter(pbuf[p].next, n - pbuf[p].len) ELSE <<p, n>>

\* pbuf_skip: the pbuf the n-th byte is in, and the offset there.
RECURSIVE Skip(_, _)
Skip(p, n) ==
    IF p # Null /\ pbuf[p].len <= n THEN Skip(pbuf[p].next, n - pbuf[p].len) ELSE <<p, n>>

\* pbuf_copy_partial: n bytes from an offset on.
RECURSIVE CopyPartial(_, _, _)
CopyPartial(p, n, off) ==
    IF n = 0 \/ p = Null THEN <<>>
    ELSE LET q == pbuf[p]
             m == Min({q.len - off, n})
         IN  IF off # 0 /\ off >= q.len THEN CopyPartial(q.next, n, off - q.len)
             ELSE [i \in 1..m |-> <<p, q.off + off + i - 1>>] \o CopyPartial(q.next, n - m, 0)

-----------------------------------------------------------------------------
\* "The reference count always equals the number of pointers that refer to
\* this pbuf" (pbuf.h), and no pointer leads to a pbuf that was freed: no
\* chain is lost, none is freed twice, whoever lets go of it last.
RefCount ==
    /\ DOMAIN pointers \subseteq DOMAIN pbuf
    /\ \A p \in DOMAIN pbuf :
          /\ pbuf[p].next \in DOMAIN pbuf \cup {Null}
          /\ pbuf[p].ref > 0
          /\ pbuf[p].ref = (IF Holds(p) THEN pointers[p] ELSE 0)
                          + Cardinality({q \in DOMAIN pbuf : pbuf[q].next = p})

\* "p->tot_len == p->len + (p->next? p->next->tot_len: 0)" (pbuf.h): cutting,
\* hiding and joining keep all the totals of a chain in step. (The assertion
\* in mem_trim stops pbuf_realloc half-way.)
TotLen ==
    heap.stuck \/ \A p \in DOMAIN pbuf :
        LET rest == IF pbuf[p].next = Null THEN 0 ELSE pbuf[pbuf[p].next].tot_len
        IN  pbuf[p].tot_len = pbuf[p].len + rest

\* The bytes of a pbuf lie behind its struct and in the memory that was
\* allocated for it, after all cutting and trimming.
PayloadInside ==
    \A p \in DOMAIN pbuf :
        LET end == pbuf[p].off + pbuf[p].len
        IN  /\ pbuf[p].off >= 0 /\ pbuf[p].len >= 0
            /\ pbuf[p].src = "pool" => end <= BufSize
            /\ pbuf[p].src = "heap" => p \in DOMAIN held /\ SizeofPbuf + end <= held[p]

\* The numbers in the structs describe packets that exist: every length is that
\* of bytes which are there.
LengthsTrue == TotLen /\ PayloadInside

\* pbuf_realloc keeps exactly the first bytes of a packet; pbuf_free_header
\* and the loop of tcp_receive leave exactly those behind them, however the
\* packet is divided into pbufs.
CutsExactly ==
    \A p \in DOMAIN pbuf : IsFirst(p) =>
        \A n \in Cuts : n < pbuf[p].tot_len =>
            LET s == Bytes(pbuf, p)
                cut == Reallocated(p, n)
                free == FreeFront(Memory(pbuf), p, n)
            IN  /\ cut.heap.stuck \/ Bytes(cut.pbuf, p) = SubSeq(s, 1, n)
                /\ Alone(p) => Bytes(free.mem.pbuf, free.first) = SubSeq(s, n + 1, Len(s))
                /\ Bytes(Passed(pbuf, p, n, pbuf[p].tot_len - n), p) = SubSeq(s, n + 1, Len(s))

\* pbuf_copy_partial reads, and pbuf_skip finds, the bytes of the packet in
\* their order, also over pbufs that tcp_receive has emptied.
ReadsThePacket ==
    \A p \in DOMAIN pbuf :
        LET s == Bytes(pbuf, p)
        IN  \A o \in 0..pbuf[p].tot_len :
                /\ \A n \in Cuts : CopyPartial(p, n, o) = SubSeq(s, o + 1, Min({o + n, Len(s)}))
                /\ LET at == Skip(p, o)
                   IN  IF o = Len(s) THEN at[1] = Null
                       ELSE at[1] # Null /\ s[o + 1] = <<at[1], pbuf[at[1]].off + at[2]>>

\* A chain is its sequence of bytes: cutting and reading it gives what cutting
\* and reading the sequence would.
ChainIsSequence == CutsExactly /\ ReadsThePacket
=============================================================================
