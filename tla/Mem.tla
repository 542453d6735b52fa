-------------------------------- MODULE Mem --------------------------------
(***************************************************************************)
(* The heap of lwIP (lwip-2.1.2/src/core/mem.c) in the build of the        *)
(* station: MEM_ALIGNMENT 4, no pools, no overflow guards, one thread.     *)
(*                                                                         *)
(* The heap is a list of struct mem, linked by offsets; "ram" holds the    *)
(* structs that are in the list, and a struct that is merged into another  *)
(* is gone. The callers free and trim only what they hold. A call is an    *)
(* operator from heap to heap, so that a caller can make several of them   *)
(* in one step.                                                            *)
(*                                                                         *)
(* WrapUnchecked and TrimKeepsLfree are faulty variants of the definitions *)
(* that follow them; no action uses them.                                  *)
(***************************************************************************)
EXTENDS Integers, Functions

CONSTANTS
    MemSize,   \* MEM_SIZE_ALIGNED
    Width,     \* the numbers a mem_size_t can hold
    Sizes      \* the sizes callers ask for

Alignment == 4   \* MEM_ALIGNMENT
SizeofMem == 12  \* SIZEOF_STRUCT_MEM
MinSize == 12    \* MIN_SIZE_ALIGNED

ASSUME MemAssumption ==
    /\ MemSize \in Nat /\ MemSize % Alignment = 0 /\ MemSize > SizeofMem + MinSize
    /\ Width \in Nat /\ Width % Alignment = 0 /\ Width > MemSize + 2 * SizeofMem
    /\ Sizes \subseteq 1..(Width - 1)

\* [ram   |-> offset -> struct mem,
\*  lfree |-> the offset of the lowest free struct,
\*  held  |-> what the callers hold: offset of the data -> size asked for,
\*  stuck |-> an assertion has failed; it is an endless loop]
VARIABLE heap

RamEnd == MemSize
Null == -1

\* mem_init
MemInit ==
    heap = [ram |-> [o \in {0, RamEnd} |-> [next |-> RamEnd, prev |-> o, used |-> o = RamEnd]],
            lfree |-> 0, held |-> <<>>, stuck |-> FALSE]

-----------------------------------------------------------------------------
\* LWIP_MEM_ALIGN_SIZE.
Aligned(n) == ((n + Alignment - 1) \div Alignment) * Alignment

\* The size of a block for n bytes, in the width of mem_size_t.
BlockSize(n) == LET size == Aligned(n) % Width IN IF size < MinSize THEN MinSize ELSE size

WrapUnchecked(n) == BlockSize(n) <= MemSize

\* The tests behind the rounding.
Possible(n) == BlockSize(n) <= MemSize /\ BlockSize(n) >= n

\* The function f with the value v at x.
With(f, x, v) == [o \in DOMAIN f \cup {x} |-> IF o = x THEN v ELSE f[o]]

\* n is the successor of m; the end of the heap does not know its predecessor.
Link(r, m, n) ==
    LET s == [r EXCEPT ![m].next = n]
    IN  IF n # RamEnd THEN [s EXCEPT ![n].prev = m] ELSE s

\* The user data size of a struct.
Room(r, m) == r[m].next - (m + SizeofMem)

Forget(r, m) == Restrict(r, DOMAIN r \ {m})

\* The lowest free struct when "gone" becomes a part of m.
Merged(l, gone, m) == IF l = gone THEN m ELSE l

\* plug_holes: the struct behind m, and m itself, become parts of the struct
\* before them when both are unused.
Absorbs(r, m, n) == m # n /\ ~r[m].used /\ ~r[n].used /\ n # RamEnd

PlugHoles(h, m) ==
    LET n == h.ram[m].next
        fwd == Absorbs(h.ram, m, n)
        r == IF fwd THEN Forget(Link(h.ram, m, h.ram[n].next), n) ELSE h.ram
        l == IF fwd THEN Merged(h.lfree, n, m) ELSE h.lfree
        p == r[m].prev
        bwd == Absorbs(r, p, m)
    IN  [h EXCEPT !.ram = IF bwd THEN Forget(Link(r, p, r[m].next), m) ELSE r,
                  !.lfree = IF bwd THEN Merged(l, m, p) ELSE l]

-----------------------------------------------------------------------------
(* mem_malloc *)

Fits(r, m, size) == ~r[m].used /\ Room(r, m) >= size

\* The list is in the order of the offsets: a walk from m on meets the lowest
\* struct of a kind first.
Lowest(S) == CHOOSE o \in S : \A x \in S : o <= x

\* The scan from m on.
FirstFit(r, m, size) ==
    LET fits == {o \in DOMAIN r : m <= o /\ o < MemSize - size /\ Fits(r, o, size)}
    IN  IF fits = {} THEN Null ELSE Lowest(fits)

\* The first struct from m on that is unused, or the end.
NextFree(r, m) == Lowest({o \in DOMAIN r : m <= o /\ (o = RamEnd \/ ~r[o].used)})

\* A struct of its own for what is behind the offset m2 in m.
Split(r, m, m2) ==
    Link(Link(With(r, m2, [next |-> r[m].next, prev |-> m, used |-> FALSE]), m2, r[m].next), m, m2)

\* The struct whose data mem_malloc(n) returns.
Found(h, n) == IF Possible(n) THEN FirstFit(h.ram, h.lfree, BlockSize(n)) ELSE Null

\* mem_malloc(n) when it finds one.
MemMalloc(h, n) ==
    LET m == Found(h, n)
        size == BlockSize(n)
        r == IF Room(h.ram, m) >= size + SizeofMem + MinSize
             THEN Split(h.ram, m, m + SizeofMem + size) ELSE h.ram
        s == [r EXCEPT ![m].used = TRUE]
    IN  [h EXCEPT !.ram = s,
                  !.lfree = IF m = @ THEN NextFree(s, @) ELSE @,
                  !.held = With(@, m + SizeofMem, n)]

-----------------------------------------------------------------------------
(* mem_free *)

LinkValid(r, m) ==
    /\ r[m].next <= MemSize /\ r[m].prev <= MemSize
    /\ r[m].prev = m \/ r[r[m].prev].next = m
    /\ r[m].next = RamEnd \/ r[r[m].next].prev = m

\* The tests of mem_free; it does nothing when one of them fails.
Legal(r, p) ==
    LET m == p - SizeofMem
    IN  p % Alignment = 0 /\ m >= 0 /\ p + MinSize <= RamEnd /\ r[m].used /\ LinkValid(r, m)

MemFree(h, p) ==
    LET m == p - SizeofMem
        g == [h EXCEPT !.held = Restrict(@, DOMAIN @ \ {p})]
    IN  IF Legal(h.ram, p)
        THEN PlugHoles([g EXCEPT !.ram = [@ EXCEPT ![m].used = FALSE], !.lfree = IF m < @ THEN m ELSE @], m)
        ELSE g

-----------------------------------------------------------------------------
(* mem_trim *)

TrimKeepsLfree(l, m2) == l

\* The lowest free struct when one is split off at m2.
TrimLfree(l, m2) == IF m2 < l THEN m2 ELSE l

\* The struct behind the block is unused: it moves down.
TrimMove(h, m, m2) ==
    LET n == h.ram[m].next
    IN  [h EXCEPT !.ram = Split(Forget([@ EXCEPT ![m].next = h.ram[n].next], n), m, m2),
                  !.lfree = Merged(@, n, m2)]

\* It is used: what is cut off becomes a struct. The assertion "invalid next
\* ptr" stops the program at the end of the heap.
TrimSplit(h, before, m, m2) ==
    IF h.ram[m].next = RamEnd THEN [before EXCEPT !.stuck = TRUE]
    ELSE [h EXCEPT !.ram = Split(@, m, m2), !.lfree = TrimLfree(@, m2)]

\* mem_trim(p, n) of a block that is large enough.
MemTrim(h, p, n) ==
    LET m == p - SizeofMem
        size == BlockSize(n)
        m2 == m + SizeofMem + size
        g == [h EXCEPT !.held[p] = n]
    IN  IF size = Room(h.ram, m) THEN g
        ELSE IF ~h.ram[h.ram[m].next].used THEN TrimMove(g, m, m2)
        ELSE IF size + SizeofMem + MinSize <= Room(h.ram, m) THEN TrimSplit(g, h, m, m2)
        ELSE g

-----------------------------------------------------------------------------
ram == heap.ram
lfree == heap.lfree
held == heap.held

\* One call, of a caller that frees and trims what it holds, and trims it to
\* no more than it has.
Malloc(n) == ~heap.stuck /\ Found(heap, n) # Null /\ heap' = MemMalloc(heap, n)

FreeBlock(p) == ~heap.stuck /\ heap' = MemFree(heap, p)

Trim(p, n) ==
    /\ ~heap.stuck /\ Possible(n) /\ BlockSize(n) <= Room(ram, p - SizeofMem)
    /\ heap' = MemTrim(heap, p, n)

MemNext ==
    \/ \E n \in 1..(Width - 1) : Malloc(n)
    \/ \E p \in DOMAIN held : FreeBlock(p)
    \/ \E p \in DOMAIN held, n \in 1..(Width - 1) : Trim(p, n)

\* The heap in the hands of any callers; those of Pbuf make several of these
\* calls in a step.
MemSpec == MemInit /\ [][MemNext]_heap

-----------------------------------------------------------------------------
Offsets == {o \in 0..MemSize : o % Alignment = 0}

\* The structs lie at aligned offsets, and lfree is one of them that is unused,
\* or the end (the assertion "mem_malloc: !lfree->used").
HeapTypeOK ==
    /\ DOMAIN ram \subseteq Offsets /\ {0, RamEnd} \subseteq DOMAIN ram
    /\ \A m \in DOMAIN ram : ram[m] \in [next : DOMAIN ram, prev : DOMAIN ram, used : BOOLEAN]
    /\ lfree \in DOMAIN ram /\ (lfree = RamEnd \/ ~ram[lfree].used)
    /\ DOMAIN held \subseteq Offsets /\ heap.stuck \in BOOLEAN

\* After every call the list is what mem_sanity checks: both links agree, no
\* two unused structs follow each other, and nothing lies between a struct and
\* its successor.
Sane ==
    /\ ram[0].prev = 0
    /\ \A m \in DOMAIN ram \ {RamEnd} :
          LET n == ram[m].next
          IN  /\ n >= m + SizeofMem + MinSize /\ LinkValid(ram, m)
              /\ ~\E o \in DOMAIN ram : m < o /\ o < n
              /\ ram[m].used \/ ram[n].used
    /\ ram[RamEnd] = [next |-> RamEnd, prev |-> RamEnd, used |-> TRUE]

\* What a caller holds is as large as it asked for, inside the heap, and
\* overlaps neither a struct nor what another caller holds.
BlocksApart ==
    \A p \in DOMAIN held :
        /\ p >= SizeofMem /\ p + held[p] <= RamEnd
        /\ \A m \in DOMAIN ram : m + SizeofMem <= p \/ p + held[p] <= m
        /\ \A q \in DOMAIN held \ {p} : q + held[q] <= p \/ p + held[p] <= q

\* The used structs are those of the callers: mem_free does not refuse a block
\* that mem_malloc gave away, so the heap is whole again when all are freed.
NothingLeaks == {m + SizeofMem : m \in {o \in DOMAIN ram \ {RamEnd} : ram[o].used}} = DOMAIN held

\* The heap after every call: its list is whole, and it is divided between the
\* unused structs and what the callers hold.
HeapSound == HeapTypeOK /\ Sane /\ BlocksApart /\ NothingLeaks

\* mem_malloc refuses only what no unused struct can hold: none of them is
\* below lfree, and the scan does not stop before the last one.
RefusesOnlyIfFull ==
    \A n \in Sizes :
        (Possible(n) /\ \E m \in DOMAIN ram \ {RamEnd} : Fits(ram, m, BlockSize(n))) => Found(heap, n) # Null
=============================================================================
