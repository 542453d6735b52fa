----------------------------- MODULE MemProofs -----------------------------
(***************************************************************************)
(* For every size of the heap and every width of mem_size_t: the calls of  *)
(* mem.c keep the list whole and the blocks of the callers apart, and      *)
(* mem_malloc refuses only what no unused struct can hold.                 *)
(*                                                                         *)
(* Inside a call the list is not what it is between calls: mem_free marks  *)
(* a struct before plug_holes joins it with its neighbours.  ListInv is    *)
(* what holds all the time, and HeapInv adds what every call restores.     *)
(***************************************************************************)
EXTENDS Mem, WellFoundedInduction, TLAPS

Struct == [next : Nat, prev : Nat, used : BOOLEAN]

\* Structs at the offsets C.
Structs(C) == [C -> Struct]

\* The list between two assignments of a call: the structs lie in the order of
\* their offsets, each behind the smallest data of the one before it, and the
\* links of neighbours agree. Unused neighbours are allowed.
ListInv(r) ==
    /\ DOMAIN r \subseteq Offsets /\ {0, RamEnd} \subseteq DOMAIN r
    /\ r \in [DOMAIN r -> Struct]
    /\ \A m \in DOMAIN r \ {RamEnd} :
          /\ r[m].next \in DOMAIN r /\ m + SizeofMem + MinSize <= r[m].next
          /\ r[m].next = RamEnd \/ r[r[m].next].prev = m
    /\ \A m \in DOMAIN r \ {0, RamEnd} :
          r[m].prev \in DOMAIN r \ {RamEnd} /\ r[r[m].prev].next = m
    /\ \A m, o \in DOMAIN r : m < o => r[m].next <= o
    /\ r[0].prev = 0
    /\ r[RamEnd] = [next |-> RamEnd, prev |-> RamEnd, used |-> TRUE]

\* No two unused structs follow each other.
NoHoles(r) == \A m \in DOMAIN r \ {RamEnd} : r[m].used \/ r[r[m].next].used

\* l is the lowest unused struct, or the end.
LfreeInv(r, l) ==
    /\ l \in DOMAIN r /\ (l = RamEnd \/ ~r[l].used)
    /\ \A o \in DOMAIN r : ~r[o].used => l <= o

\* The used structs are those of the callers, and hold what they asked for.
HeldInv(r, f) ==
    /\ f \in [DOMAIN f -> Nat] /\ DOMAIN f \subseteq Int
    /\ \A p \in DOMAIN f :
          /\ p - SizeofMem \in DOMAIN r \ {RamEnd} /\ r[p - SizeofMem].used
          /\ p + f[p] <= r[p - SizeofMem].next
    /\ \A m \in DOMAIN r \ {RamEnd} : r[m].used => m + SizeofMem \in DOMAIN f

\* What every call keeps.
HeapInv(h) ==
    /\ h = [ram |-> h.ram, lfree |-> h.lfree, held |-> h.held, stuck |-> h.stuck]
    /\ h.stuck \in BOOLEAN
    /\ ListInv(h.ram) /\ NoHoles(h.ram)
    /\ LfreeInv(h.ram, h.lfree) /\ HeldInv(h.ram, h.held)

\* n becomes a part of m.
Merge(r, m, n) == Forget(Link(r, m, r[n].next), n)

LEMMA OffsetFacts ==
    ASSUME NEW o \in Offsets
    PROVE  o \in Nat /\ o <= MemSize /\ o % 4 = 0
BY MemAssumption DEF Offsets, Alignment

LEMMA EndFacts ==
    MemSize \in Nat /\ MemSize % 4 = 0 /\ MemSize > 24 /\ RamEnd = MemSize /\ RamEnd \in Nat
BY MemAssumption DEF RamEnd, Alignment, SizeofMem, MinSize

\* The struct behind m.
LEMMA NextFacts ==
    ASSUME NEW r, ListInv(r), NEW m \in DOMAIN r \ {RamEnd}
    PROVE  /\ m \in Nat /\ m < RamEnd
           /\ r[m].next \in DOMAIN r /\ r[m].next \in Nat /\ r[m].next <= RamEnd
           /\ m + 24 <= r[m].next
           /\ r[m].next = RamEnd \/ r[r[m].next].prev = m
<1>1. r[m].next \in DOMAIN r /\ m + SizeofMem + MinSize <= r[m].next
      /\ (r[m].next = RamEnd \/ r[r[m].next].prev = m)
  BY DEF ListInv
<1>2. m \in Offsets /\ r[m].next \in Offsets
  BY <1>1 DEF ListInv
<1>3. m \in Nat /\ r[m].next \in Nat /\ r[m].next <= RamEnd
  BY <1>2, OffsetFacts, EndFacts
<1>4. m + 24 <= r[m].next
  BY <1>1, <1>3 DEF SizeofMem, MinSize
<1> QED BY <1>1, <1>3, <1>4, EndFacts

\* The struct before m.
LEMMA PrevFacts ==
    ASSUME NEW r, ListInv(r), NEW m \in DOMAIN r \ {0, RamEnd}
    PROVE  /\ r[m].prev \in DOMAIN r \ {RamEnd} /\ r[r[m].prev].next = m
           /\ r[m].prev \in Nat /\ r[m].prev < m
<1>1. r[m].prev \in DOMAIN r \ {RamEnd} /\ r[r[m].prev].next = m
  BY DEF ListInv
<1> QED BY <1>1, NextFacts

\* What Link does to a list.
LEMMA LinkForm ==
    ASSUME NEW D, NEW r \in [D -> Struct], NEW m \in D, NEW n \in D, m # n, m \in Nat, n \in Nat
    PROVE  /\ Link(r, m, n) =
                [o \in D |->
                    IF o = m THEN [next |-> n, prev |-> r[o].prev, used |-> r[o].used]
                    ELSE IF o = n /\ n # RamEnd
                         THEN [next |-> r[o].next, prev |-> m, used |-> r[o].used]
                    ELSE r[o]]
           /\ Link(r, m, n) \in [D -> Struct]
<1> DEFINE s == [r EXCEPT ![m].next = n]
           t == [s EXCEPT ![n].prev = m]
<1>1. \A o \in D : r[o] = [next |-> r[o].next, prev |-> r[o].prev, used |-> r[o].used]
  BY DEF Struct
<1>2. s = [o \in D |-> IF o = m THEN [next |-> n, prev |-> r[o].prev, used |-> r[o].used]
                       ELSE r[o]]
  <2>1. [r[m] EXCEPT !.next = n] = [next |-> n, prev |-> r[m].prev, used |-> r[m].used]
    BY <1>1
  <2>2. s = [o \in D |-> IF o = m THEN [r[m] EXCEPT !.next = n] ELSE r[o]]
    BY Zenon
  <2> HIDE DEF s
  <2> QED BY Zenon, <2>1, <2>2
<1>3. t = [o \in D |-> IF o = m THEN [next |-> n, prev |-> r[o].prev, used |-> r[o].used]
                       ELSE IF o = n THEN [next |-> r[o].next, prev |-> m, used |-> r[o].used]
                       ELSE r[o]]
  <2> HIDE DEF s
  <2>1. s[n] = [next |-> r[n].next, prev |-> r[n].prev, used |-> r[n].used]
    BY <1>1, <1>2
  <2>2. [s[n] EXCEPT !.prev = m] = [next |-> r[n].next, prev |-> m, used |-> r[n].used]
    BY <2>1
  <2>3. t = [o \in D |-> IF o = n THEN [s[n] EXCEPT !.prev = m] ELSE s[o]]
    BY <1>2
  <2> HIDE DEF t
  <2> QED BY <1>2, <2>2, <2>3
<1>4. Link(r, m, n) = IF n # RamEnd THEN t ELSE s
  BY DEF Link
<1> HIDE DEF s, t
<1>5. Link(r, m, n) =
                [o \in D |->
                    IF o = m THEN [next |-> n, prev |-> r[o].prev, used |-> r[o].used]
                    ELSE IF o = n /\ n # RamEnd
                         THEN [next |-> r[o].next, prev |-> m, used |-> r[o].used]
                    ELSE r[o]]
  BY <1>2, <1>3, <1>4
<1> QED BY <1>5 DEF Struct

\* A list with another struct behind m.
\* s is r with a struct at m2, between m and n.
IsSplit(C, r, s, m, n, m2) ==
    /\ s \in Structs(C \cup {m2})
    /\ s[m2] = [next |-> n, prev |-> m, used |-> FALSE]
    /\ s[m] = [next |-> m2, prev |-> r[m].prev, used |-> r[m].used]
    /\ n # RamEnd => s[n] = [next |-> r[n].next, prev |-> m2, used |-> r[n].used]
    /\ \A o \in C : o # m /\ (o # n \/ n = RamEnd) => s[o] = r[o]

LEMMA SplitForm ==
    ASSUME NEW C, NEW r \in Structs(C), NEW m \in Nat, NEW n \in Nat, NEW m2 \in Nat,
           m \in C, n \in C, m2 \notin C, r[m].next = n, n # m
    PROVE  IsSplit(C, r, Split(r, m, m2), m, n, m2)
<1> DEFINE g == With(r, m2, [next |-> n, prev |-> m, used |-> FALSE])
           k == Link(g, m2, n)
           D == C \cup {m2}
<1>r. r \in [C -> Struct]
  BY DEF Structs
<1>1. g = [o \in D |-> IF o = m2 THEN [next |-> n, prev |-> m, used |-> FALSE] ELSE r[o]]
  BY <1>r DEF With
<1>2. g \in [D -> Struct]
  <2>1. [next |-> n, prev |-> m, used |-> FALSE] \in Struct
    BY DEF Struct
  <2>2. \A o \in C : r[o] \in Struct
    BY <1>r
  <2> HIDE DEF g
  <2> QED BY <1>1, <2>1, <2>2
<1> HIDE DEF g
<1>a. m \in D /\ m2 \in D /\ n \in D /\ n # m2 /\ m # m2 /\ n # m
  OBVIOUS
<1> HIDE DEF D
<1>3. /\ k = [o \in D |-> IF o = m2 THEN [next |-> n, prev |-> g[o].prev, used |-> g[o].used]
                          ELSE IF o = n /\ n # RamEnd
                               THEN [next |-> g[o].next, prev |-> m2, used |-> g[o].used]
                          ELSE g[o]]
      /\ k \in [D -> Struct]
  BY <1>a, <1>2, LinkForm
<1>4. Split(r, m, m2) = Link(k, m, m2)
  BY DEF Split, g
<1> HIDE DEF k
<1>5. Link(k, m, m2) =
         [o \in D |-> IF o = m THEN [next |-> m2, prev |-> k[o].prev, used |-> k[o].used]
                      ELSE IF o = m2 /\ m2 # RamEnd
                           THEN [next |-> k[o].next, prev |-> m, used |-> k[o].used]
                      ELSE k[o]]
  <2>1. k \in [D -> Struct]
    BY <1>3
  <2> QED BY <1>a, <2>1, LinkForm
<1>6. \A o \in D : k[o] = IF o = m2 THEN [next |-> n, prev |-> m, used |-> FALSE]
                          ELSE IF o = n /\ n # RamEnd
                               THEN [next |-> r[o].next, prev |-> m2, used |-> r[o].used]
                          ELSE r[o]
  BY <1>1, <1>3, <1>a
<1>7. \A o \in D : Split(r, m, m2)[o] =
                 IF o = m2 THEN [next |-> n, prev |-> m, used |-> FALSE]
                 ELSE IF o = m THEN [next |-> m2, prev |-> r[m].prev, used |-> r[m].used]
                 ELSE IF o = n /\ o # RamEnd
                      THEN [next |-> r[o].next, prev |-> m2, used |-> r[o].used]
                 ELSE r[o]
  <2> SUFFICES ASSUME NEW o \in D
               PROVE  Split(r, m, m2)[o] =
                        IF o = m2 THEN [next |-> n, prev |-> m, used |-> FALSE]
                        ELSE IF o = m THEN [next |-> m2, prev |-> r[m].prev, used |-> r[m].used]
                        ELSE IF o = n /\ o # RamEnd
                             THEN [next |-> r[o].next, prev |-> m2, used |-> r[o].used]
                        ELSE r[o]
    BY Zenon
  <2>1. Split(r, m, m2)[o] = IF o = m THEN [next |-> m2, prev |-> k[o].prev, used |-> k[o].used]
                             ELSE IF o = m2 /\ m2 # RamEnd
                                  THEN [next |-> k[o].next, prev |-> m, used |-> k[o].used]
                             ELSE k[o]
    BY Zenon, <1>4, <1>5
  <2>2. CASE o = m
    <3>1. k[o] = r[o]
      BY Zenon, <1>6, <1>a, <2>2
    <3> QED BY <2>1, <2>2, <3>1, <1>a
  <2>3. CASE o = m2
    <3>1. k[o] = [next |-> n, prev |-> m, used |-> FALSE]
      BY Zenon, <1>6, <2>3
    <3> QED BY <2>1, <2>3, <3>1, <1>a
  <2>4. CASE o # m /\ o # m2
    BY <2>1, <2>4, <1>6
  <2> QED BY <2>2, <2>3, <2>4
<1>8. Split(r, m, m2) \in [D -> Struct]
  <2>1. k \in [D -> Struct]
    BY <1>3
  <2> QED BY <1>4, <1>a, <2>1, LinkForm
<1> HIDE DEF k
<1> QED BY Zenon, <1>7, <1>8, <1>a DEF D, Structs, IsSplit

\* What plug_holes does to a list.
LEMMA MergeForm ==
    ASSUME NEW r, ListInv(r), NEW m \in DOMAIN r \ {RamEnd}, r[m].next # RamEnd
    PROVE  /\ r[m].next \in DOMAIN r \ {0, RamEnd}
           /\ r[r[m].next].next \in DOMAIN r
           /\ m < r[m].next /\ r[m].next < r[r[m].next].next
           /\ Merge(r, m, r[m].next) =
             [o \in DOMAIN r \ {r[m].next} |->
                 IF o = m THEN [next |-> r[r[m].next].next, prev |-> r[m].prev, used |-> r[m].used]
                 ELSE IF o = r[r[m].next].next /\ o # RamEnd
                      THEN [next |-> r[o].next, prev |-> m, used |-> r[o].used]
                 ELSE r[o]]
<1> DEFINE n == r[m].next
           e == r[n].next
           D == DOMAIN r
           k == Link(r, m, e)
<1>1. D \subseteq Nat /\ r \in [D -> Struct]
  BY OffsetFacts DEF ListInv
<1>2. n \in D \ {RamEnd} /\ m < n /\ e \in D /\ n < e
  <2>1. n \in D /\ m + 24 <= n
    BY NextFacts
  <2>2. e \in D /\ n + 24 <= e
    BY <2>1, NextFacts
  <2> QED BY <1>1, <2>1, <2>2
<1> HIDE DEF n, e, D
<1>3. m \in Nat /\ e \in Nat /\ m \in D /\ e # m /\ n # 0
  BY <1>1, <1>2 DEF D
<1>4. k = [o \in D |->
                    IF o = m THEN [next |-> e, prev |-> r[o].prev, used |-> r[o].used]
                    ELSE IF o = e /\ e # RamEnd
                         THEN [next |-> r[o].next, prev |-> m, used |-> r[o].used]
                    ELSE r[o]]
  BY <1>1, <1>2, <1>3, LinkForm
<1>5. Merge(r, m, n) = [o \in D \ {n} |-> k[o]]
  <2>1. DOMAIN k = D
    BY <1>4
  <2> QED BY <2>1 DEF Merge, Forget, Restrict, e
<1> HIDE DEF k
<1>6. Merge(r, m, n) = [o \in D \ {n} |->
                    IF o = m THEN [next |-> e, prev |-> r[m].prev, used |-> r[m].used]
                    ELSE IF o = e /\ o # RamEnd
                         THEN [next |-> r[o].next, prev |-> m, used |-> r[o].used]
                    ELSE r[o]]
  BY <1>4, <1>5
<1> QED BY <1>2, <1>3, <1>6 DEF n, e, D

\* The list stays whole when a struct becomes a part of the one before it.
LEMMA MergeList ==
    ASSUME NEW r, ListInv(r), NEW m \in DOMAIN r \ {RamEnd}, r[m].next # RamEnd
    PROVE  ListInv(Merge(r, m, r[m].next))
<1> DEFINE n == r[m].next
           e == r[n].next
           D == DOMAIN r
           E == D \ {n}
           s == Merge(r, m, n)
<1>1. n \in D \ {0, RamEnd} /\ e \in D /\ m < n /\ n < e /\ m \in D /\ m # RamEnd
  BY Zenon, MergeForm
<1>2. s = [o \in E |->
                 IF o = m THEN [next |-> e, prev |-> r[m].prev, used |-> r[m].used]
                 ELSE IF o = e /\ o # RamEnd
                      THEN [next |-> r[o].next, prev |-> m, used |-> r[o].used]
                 ELSE r[o]]
  BY MergeForm
<1>3. D \subseteq Offsets /\ {0, RamEnd} \subseteq D /\ D \subseteq Nat /\ r \in [D -> Struct]
      /\ n \in Nat /\ e \in Nat /\ m \in Nat
  BY OffsetFacts, <1>1 DEF ListInv
<1>4. \A o \in D : /\ o # RamEnd => /\ r[o].next \in D /\ o + 24 <= r[o].next /\ r[o].next \in Nat
                                    /\ r[o].next = RamEnd \/ r[r[o].next].prev = o
                   /\ o \notin {0, RamEnd} =>
                        r[o].prev \in D \ {RamEnd} /\ r[r[o].prev].next = o
                   /\ \A x \in D : o < x => r[o].next <= x
  BY NextFacts, PrevFacts DEF ListInv
<1>5. r[0].prev = 0 /\ r[RamEnd] = [next |-> RamEnd, prev |-> RamEnd, used |-> TRUE]
  BY DEF ListInv
<1>6. \A o \in D : r[o].used \in BOOLEAN /\ r[o].prev \in Nat /\ r[o].next \in Nat
  BY <1>3 DEF Struct
<1>7. n + 24 <= e /\ m + 24 <= n
  BY <1>1, <1>4
<1> HIDE DEF n, e, D, s
<1>8. DOMAIN s = E /\ E \subseteq Offsets /\ {0, RamEnd} \subseteq E /\ m \in E /\ e \in E
  BY <1>1, <1>2, <1>3
<1>9. \A o \in E : /\ s[o].used = r[o].used
                   /\ s[o].next = IF o = m THEN e ELSE r[o].next
                   /\ s[o].prev = IF o = e /\ o # RamEnd THEN m ELSE r[o].prev
  BY <1>2, <1>1, <1>3
<1>10. s \in [E -> Struct]
  <2>1. \A o \in E : s[o] \in Struct
    <3> TAKE o \in E
    <3>1. CASE o = m
      BY <3>1, <1>2, <1>6, <1>3, <1>8 DEF Struct
    <3>2. CASE o = e /\ o # m /\ o # RamEnd
      BY <3>2, <1>2, <1>6, <1>3, <1>8 DEF Struct
    <3>3. CASE o # m /\ ~(o = e /\ o # RamEnd)
      <4>1. s[o] = r[o]
        BY <3>3, <1>2
      <4> QED BY <1>3, <4>1
    <3> QED BY <3>1, <3>2, <3>3
  <2> QED BY <1>2, <2>1
<1> HIDE DEF E
<1>e. E \subseteq D /\ n \notin E /\ (\A o \in D : o # n => o \in E)
  BY DEF E
<1>11. ASSUME NEW o \in E \ {RamEnd}
       PROVE  /\ s[o].next \in E /\ o + SizeofMem + MinSize <= s[o].next
              /\ s[o].next = RamEnd \/ s[s[o].next].prev = o
  <2>1. CASE o = m
    <3>1. s[o].next = e
      BY <1>9, <2>1
    <3>2. e = RamEnd \/ s[e].prev = m
      BY <1>8, <1>9
    <3> QED BY <2>1, <3>1, <3>2, <1>7, <1>8, <1>3 DEF SizeofMem, MinSize
  <2>2. CASE o # m
    <3>1. s[o].next = r[o].next /\ r[o].next # n
      \* The links agree: n has one predecessor.
      <4>1. r[o].next = n => r[n].prev = o
        BY <1>e, <1>4, <1>1
      <4>2. r[n].prev = m
        BY <1>4, <1>1 DEF n
      <4> QED BY <4>1, <4>2, <2>2, <1>9
    <3>2. r[o].next # e \/ e = RamEnd
      <4>1. e # RamEnd => r[e].prev = n
        BY <1>4, <1>1 DEF e
      <4> QED BY <4>1, <1>4, <1>e
    <3>3. r[o].next \in E /\ o + 24 <= r[o].next /\ (r[o].next = RamEnd \/ r[r[o].next].prev = o)
      BY <3>1, <1>4, <1>e
    <3>4. s[o].next = RamEnd \/ s[s[o].next].prev = o
      BY <3>1, <3>2, <3>3, <1>9
    <3> QED BY <3>1, <3>3, <3>4, <1>3, <1>e DEF SizeofMem, MinSize
  <2> QED BY <2>1, <2>2
<1>12. ASSUME NEW o \in E \ {0, RamEnd}
       PROVE  s[o].prev \in E \ {RamEnd} /\ s[s[o].prev].next = o
  <2>1. CASE o = e
    <3>1. s[o].prev = m
      BY <1>9, <2>1
    <3> QED BY <3>1, <1>8, <1>9, <1>1, <2>1
  <2>2. CASE o # e
    <3>1. s[o].prev = r[o].prev /\ r[o].prev \in D \ {RamEnd} /\ r[r[o].prev].next = o
      BY <1>9, <2>2, <1>4, <1>e
    <3>2. r[o].prev # n
      BY <3>1, <2>2 DEF e
    <3>3. r[o].prev # m
      BY <3>1, <1>e DEF n
    <3> QED BY <3>1, <3>2, <3>3, <1>9, <1>e
  <2> QED BY <2>1, <2>2
<1>13. ASSUME NEW o \in E, NEW x \in E, o < x
       PROVE  s[o].next <= x
  <2>1. CASE o = m
    <3>1. r[m].next <= x
      BY <1>13, <2>1, <1>4, <1>e
    <3>2. n < x
      BY <3>1, <1>e, <1>3 DEF n
    <3> QED BY <3>2, <2>1, <1>9, <1>4, <1>1, <1>e DEF e
  <2>2. CASE o # m
    BY <1>13, <2>2, <1>9, <1>4, <1>e
  <2> QED BY <2>1, <2>2
<1>14. s[0].prev = 0
  <2>1. e # 0
    BY <1>1, <1>3
  <2> QED BY <2>1, <1>8, <1>9, <1>5
<1>15. s[RamEnd] = [next |-> RamEnd, prev |-> RamEnd, used |-> TRUE]
  BY <1>1, <1>2, <1>5, <1>8 DEF E
<1> QED BY <1>8, <1>10, <1>11, <1>12, <1>13, <1>14, <1>15 DEF ListInv, s, n

\* The list s is r with an unused struct at m2, behind m.
SplitOff(r, s, m, m2) ==
    /\ m2 \notin DOMAIN r /\ ListInv(s) /\ DOMAIN s = DOMAIN r \cup {m2}
    /\ \A o \in DOMAIN r : s[o].used = r[o].used /\ (o # m => s[o].next = r[o].next)
    /\ s[m].next = m2
    /\ ~s[m2].used /\ s[m2].next = r[m].next

\* The list stays whole when a struct is put behind the data of another one.
LEMMA SplitList ==
    ASSUME NEW r, ListInv(r), NEW m \in Nat, m \in DOMAIN r \ {RamEnd}, r[m].next \in Nat,
           NEW m2 \in Nat, m2 \in Offsets, m + 24 <= m2, m2 + 24 <= r[m].next
    PROVE  SplitOff(r, Split(r, m, m2), m, m2)
<1> DEFINE n == r[m].next
           D == DOMAIN r
           E == D \cup {m2}
           s == Split(r, m, m2)
<1>1. D \subseteq Offsets /\ {0, RamEnd} \subseteq D /\ D \subseteq Nat /\ r \in [D -> Struct]
      /\ m \in D /\ m # RamEnd /\ m2 \in Nat /\ n \in D /\ n \in Nat /\ m \in Nat /\ m < n
  BY OffsetFacts, NextFacts DEF ListInv
<1>4. \A o \in D : /\ o # RamEnd => /\ r[o].next \in D /\ o + 24 <= r[o].next /\ r[o].next \in Nat
                                    /\ r[o].next = RamEnd \/ r[r[o].next].prev = o
                   /\ o \notin {0, RamEnd} =>
                        r[o].prev \in D \ {RamEnd} /\ r[r[o].prev].next = o
                   /\ \A x \in D : o < x => r[o].next <= x
  BY NextFacts, PrevFacts DEF ListInv
<1>5. r[0].prev = 0 /\ r[RamEnd] = [next |-> RamEnd, prev |-> RamEnd, used |-> TRUE]
  BY DEF ListInv
<1>6. \A o \in D : r[o].used \in BOOLEAN /\ r[o].prev \in Nat /\ r[o].next \in Nat
  BY <1>1 DEF Struct
<1>7. m2 \notin D
  BY <1>1, <1>4
<1>2. /\ s \in [E -> Struct]
      /\ s[m2] = [next |-> n, prev |-> m, used |-> FALSE]
      /\ s[m] = [next |-> m2, prev |-> r[m].prev, used |-> r[m].used]
      /\ n # RamEnd => s[n] = [next |-> r[n].next, prev |-> m2, used |-> r[n].used]
      /\ \A o \in D : o # m /\ (o # n \/ n = RamEnd) => s[o] = r[o]
  <2>1. n # m
    BY <1>1
  <2>2. r \in Structs(D)
    BY <1>1 DEF Structs
  <2>3. IsSplit(D, r, s, m, n, m2)
    BY <1>1, <1>7, <2>1, <2>2, SplitForm
  <2>4. E = D \cup {m2}
    OBVIOUS
  <2> HIDE DEF s, E, D, n
  <2> QED BY <2>3, <2>4 DEF Structs, IsSplit
<1>a. m + 24 <= m2 /\ m2 + 24 <= n /\ m2 \in Offsets
  OBVIOUS
<1> HIDE DEF n, D, s
<1>8. DOMAIN s = E /\ E \subseteq Offsets /\ {0, RamEnd} \subseteq E /\ m \in E /\ m2 \in E /\ n \in E
  BY <1>1, <1>2
<1>9. \A o \in D : /\ s[o].used = r[o].used
                   /\ s[o].next = IF o = m THEN m2 ELSE r[o].next
                   /\ s[o].prev = IF o = n /\ o # RamEnd THEN m2 ELSE r[o].prev
  <2> TAKE o \in D
  <2>1. CASE o = m
    BY <2>1, <1>2, <1>1
  <2>2. CASE o = n /\ n # RamEnd
    BY <2>2, <1>2, <1>1
  <2>3. CASE o # m /\ (o # n \/ n = RamEnd)
    BY <2>3, <1>2
  <2> QED BY <2>1, <2>2, <2>3
<1>b. s[m2] = [next |-> n, prev |-> m, used |-> FALSE]
  BY <1>2
<1>10. s \in [E -> Struct]
  BY <1>2
<1> HIDE DEF E
<1>e. D \subseteq E /\ m2 \in E /\ \A o \in E : o = m2 \/ o \in D
  BY DEF E
<1>11. ASSUME NEW o \in E \ {RamEnd}
       PROVE  /\ s[o].next \in E /\ o + SizeofMem + MinSize <= s[o].next
              /\ s[o].next = RamEnd \/ s[s[o].next].prev = o
  <2>1. CASE o = m2
    <3>1. s[o].next = n /\ (n = RamEnd \/ s[n].prev = m2)
      BY <1>b, <1>9, <1>1, <2>1
    <3> QED BY <2>1, <3>1, <1>a, <1>8, <1>1 DEF SizeofMem, MinSize
  <2>2. CASE o = m
    <3>1. s[o].next = m2 /\ s[m2].prev = m
      BY <1>9, <1>b, <1>1, <2>2
    <3> QED BY <2>2, <3>1, <1>a, <1>8, <1>1 DEF SizeofMem, MinSize
  <2>3. CASE o # m /\ o # m2
    <3>0. o \in D
      BY <2>3, <1>e
    <3>1. s[o].next = r[o].next /\ r[o].next \in D /\ o + 24 <= r[o].next
          /\ (r[o].next = RamEnd \/ r[r[o].next].prev = o)
      BY <3>0, <2>3, <1>9, <1>4
    <3>2. r[o].next # n \/ n = RamEnd
      <4>1. n # RamEnd => r[n].prev = m
        BY <1>4, <1>1 DEF n
      <4> QED BY <3>1, <4>1, <2>3
    <3>3. s[o].next = RamEnd \/ s[s[o].next].prev = o
      BY <3>1, <3>2, <1>9
    <3>4. o \in Nat /\ r[o].next \in Nat
      BY <3>0, <1>1, <1>6
    <3>5. o + SizeofMem + MinSize <= s[o].next
      BY <3>1, <3>4 DEF SizeofMem, MinSize
    <3> QED BY Zenon, <3>1, <3>3, <3>5, <1>e
  <2> QED BY <2>1, <2>2, <2>3
<1>12. ASSUME NEW o \in E \ {0, RamEnd}
       PROVE  s[o].prev \in E \ {RamEnd} /\ s[s[o].prev].next = o
  <2>1. CASE o = m2
    BY <1>b, <1>9, <1>1, <1>e, <2>1
  <2>2. CASE o = n
    <3>0. m2 # RamEnd
      BY <1>1, <1>7
    <3>1. s[o].prev = m2
      BY <2>2, <1>9, <1>1
    <3> QED BY <3>0, <3>1, <2>2, <1>b, <1>e
  <2>3. CASE o # m2 /\ o # n
    <3>1. o \in D /\ s[o].prev = r[o].prev /\ r[o].prev \in D \ {RamEnd} /\ r[r[o].prev].next = o
      BY <2>3, <1>e, <1>9, <1>4
    <3>2. r[o].prev # m
      BY <3>1, <2>3 DEF n
    <3> QED BY <3>1, <3>2, <1>9, <1>e
  <2> QED BY <2>1, <2>2, <2>3
<1>13. ASSUME NEW o \in E, NEW x \in E, o < x
       PROVE  s[o].next <= x
  <2>1. CASE o = m2
    <3>1. x \in D /\ m < x
      <4>1. x # m2 /\ x \in D
        BY <1>13, <2>1, <1>e, <1>1
      <4>2. x \in Nat
        BY <4>1, <1>1
      <4> QED BY <4>1, <4>2, <1>13, <2>1, <1>a, <1>1
    <3>2. n <= x
      BY <3>1, <1>4, <1>1 DEF n
    <3> QED BY <3>2, <2>1, <1>b
  <2>2. CASE o = m
    <3>1. CASE x = m2
      BY <3>1, <2>2, <1>9, <1>1
    <3>2. CASE x # m2
      <4>1. x \in D /\ n <= x
        BY <3>2, <2>2, <1>e, <1>4, <1>1, <1>13 DEF n
      <4> QED BY <4>1, <2>2, <1>9, <1>1, <1>a
    <3> QED BY <3>1, <3>2
  <2>3. CASE o # m /\ o # m2
    <3>0. o \in D /\ s[o].next = r[o].next
      BY Zenon, <2>3, <1>e, <1>9
    <3>1. CASE x = m2
      <4>1. CASE m < o
        \* The struct lies behind n.
        <5>1. n <= o
          BY <4>1, <3>0, <1>4, <1>1 DEF n
        <5> QED BY <5>1, <3>1, <1>13, <1>a, <1>1, <3>0
      <4>2. CASE o < m
        <5>1. r[o].next <= m
          BY <4>2, <3>0, <1>4, <1>1
        <5> QED BY <5>1, <3>0, <3>1, <1>a, <1>1, <1>6
      <4> QED BY <4>1, <4>2, <2>3, <3>0, <1>1
    <3>2. CASE x # m2
      BY <3>0, <3>2, <1>4, <1>e, <1>13
    <3> QED BY <3>1, <3>2
  <2> QED BY <2>1, <2>2, <2>3
<1>14. s[0].prev = 0
  <2>1. n # 0
    BY <1>1
  <2> QED BY <2>1, <1>1, <1>9, <1>5
<1>15. s[RamEnd] = [next |-> RamEnd, prev |-> RamEnd, used |-> TRUE]
  BY Zenon, <1>1, <1>2, <1>5
<1>16. ListInv(s)
  BY <1>8, <1>10, <1>11, <1>12, <1>13, <1>14, <1>15 DEF ListInv
<1>17. SplitOff(r, s, m, m2)
  BY <1>16, <1>7, <1>8, <1>9, <1>b DEF D, E, n, SplitOff
<1> QED BY <1>17 DEF s

\* Marking a struct used or unused leaves the list whole.
LEMMA MarkList ==
    ASSUME NEW r, ListInv(r), NEW m \in DOMAIN r \ {RamEnd}, NEW b \in BOOLEAN
    PROVE  /\ ListInv([r EXCEPT ![m].used = b])
           /\ DOMAIN [r EXCEPT ![m].used = b] = DOMAIN r
           /\ \A o \in DOMAIN r :
                 /\ [r EXCEPT ![m].used = b][o].used = (IF o = m THEN b ELSE r[o].used)
                 /\ [r EXCEPT ![m].used = b][o].next = r[o].next
                 /\ [r EXCEPT ![m].used = b][o].prev = r[o].prev
<1> DEFINE s == [r EXCEPT ![m].used = b]
           D == DOMAIN r
<1>1. D \subseteq Offsets /\ {0, RamEnd} \subseteq D /\ r \in [D -> Struct]
  BY DEF ListInv
<1>2. s = [o \in D |-> IF o = m THEN [r[m] EXCEPT !.used = b] ELSE r[o]]
  OBVIOUS
<1>3. [r[m] EXCEPT !.used = b] = [next |-> r[m].next, prev |-> r[m].prev, used |-> b]
  BY <1>1 DEF Struct
<1> HIDE DEF s
<1>4. DOMAIN s = D /\ \A o \in D : /\ s[o].used = (IF o = m THEN b ELSE r[o].used)
                                   /\ s[o].next = r[o].next /\ s[o].prev = r[o].prev
  BY Zenon, <1>2, <1>3
<1>5. s \in [D -> Struct]
  <2>1. [next |-> r[m].next, prev |-> r[m].prev, used |-> b] \in Struct
    BY <1>1 DEF Struct
  <2> QED BY <1>1, <1>2, <1>3, <2>1
<1>6. \A o \in D : /\ o # RamEnd => /\ r[o].next \in D /\ o + SizeofMem + MinSize <= r[o].next
                                    /\ r[o].next = RamEnd \/ r[r[o].next].prev = o
                   /\ o \notin {0, RamEnd} =>
                        r[o].prev \in D \ {RamEnd} /\ r[r[o].prev].next = o
                   /\ \A x \in D : o < x => r[o].next <= x
  BY DEF ListInv
<1>7. r[0].prev = 0 /\ r[RamEnd] = [next |-> RamEnd, prev |-> RamEnd, used |-> TRUE]
  BY DEF ListInv
<1>8. s[RamEnd] = r[RamEnd]
  BY <1>1, <1>2
<1> HIDE DEF D
<1>9. /\ \A o \in D \ {RamEnd} : /\ s[o].next \in D /\ o + SizeofMem + MinSize <= s[o].next
                                 /\ s[o].next = RamEnd \/ s[s[o].next].prev = o
      /\ \A o \in D \ {0, RamEnd} : s[o].prev \in D \ {RamEnd} /\ s[s[o].prev].next = o
      /\ \A o, x \in D : o < x => s[o].next <= x
      /\ s[0].prev = 0
  BY <1>1, <1>4, <1>6, <1>7
<1>10. ListInv(s)
  BY <1>1, <1>4, <1>5, <1>7, <1>8, <1>9 DEF ListInv
<1> QED BY <1>4, <1>10 DEF s, D

\* What plug_holes leaves alone, and where the lowest unused struct is then.
LEMMA MergeKeeps ==
    ASSUME NEW r, ListInv(r), NEW m \in DOMAIN r \ {RamEnd}, NEW l, NEW f,
           r[m].next # RamEnd, ~r[m].used, ~r[r[m].next].used,
           LfreeInv(r, l), HeldInv(r, f)
    PROVE  LET n == r[m].next
               s == Merge(r, m, n)
           IN  /\ ListInv(s) /\ LfreeInv(s, Merged(l, n, m)) /\ HeldInv(s, f)
               /\ DOMAIN s = DOMAIN r \ {n}
               /\ \A o \in DOMAIN s : s[o].used = r[o].used
               /\ \A o \in DOMAIN s : s[o].next = IF o = m THEN r[n].next ELSE r[o].next
               /\ s[m].prev = r[m].prev
<1> DEFINE n == r[m].next
           e == r[n].next
           s == Merge(r, m, n)
           D == DOMAIN r
<1>1. ListInv(s)
  BY MergeList
<1>2. n \in D \ {0, RamEnd} /\ e \in D /\ m < n /\ n < e /\ m \in D
  BY Zenon, MergeForm
<1>3. s = [o \in D \ {n} |->
                 IF o = m THEN [next |-> e, prev |-> r[m].prev, used |-> r[m].used]
                 ELSE IF o = e /\ o # RamEnd
                      THEN [next |-> r[o].next, prev |-> m, used |-> r[o].used]
                 ELSE r[o]]
  BY MergeForm
<1>0. D \subseteq Nat /\ m \in Nat /\ n \in Nat /\ e \in Nat /\ m # RamEnd /\ m # n /\ n # RamEnd
      /\ ~r[m].used /\ ~r[n].used
  BY OffsetFacts, <1>2 DEF ListInv
<1> HIDE DEF s, n, e
<1>4. DOMAIN s = D \ {n} /\ m \in DOMAIN s
  BY <1>3, <1>2, <1>0
<1>5. \A o \in D \ {n} : /\ s[o].used = r[o].used
                         /\ s[o].next = IF o = m THEN e ELSE r[o].next
  BY <1>3
<1>6. s[m].prev = r[m].prev
  BY <1>3, <1>4
<1>7. LfreeInv(s, Merged(l, n, m))
  <2>1. l \in D /\ (l = RamEnd \/ ~r[l].used) /\ \A o \in D : ~r[o].used => l <= o
    BY DEF LfreeInv
  <2>2. CASE l = n
    <3>1. l <= m
      BY <2>1, <1>0, <1>2
    <3> QED BY <3>1, <2>2, <1>2, <1>0
  <2>3. CASE l # n
    BY <2>1, <2>3, <1>4, <1>5 DEF LfreeInv, Merged
  <2> QED BY <2>2, <2>3
<1>8. HeldInv(s, f)
  <2>1. /\ f \in [DOMAIN f -> Nat] /\ DOMAIN f \subseteq Int
        /\ \A p \in DOMAIN f :
              /\ p - SizeofMem \in D \ {RamEnd} /\ r[p - SizeofMem].used
              /\ p + f[p] <= r[p - SizeofMem].next
        /\ \A o \in D \ {RamEnd} : r[o].used => o + SizeofMem \in DOMAIN f
    BY DEF HeldInv
  <2>2. ASSUME NEW p \in DOMAIN f
        PROVE  /\ p - SizeofMem \in DOMAIN s \ {RamEnd} /\ s[p - SizeofMem].used
               /\ p + f[p] <= s[p - SizeofMem].next
    <3>1. p - SizeofMem # n /\ p - SizeofMem # m
      BY <2>1, <1>0
    <3> QED BY <3>1, <2>1, <1>4, <1>5
  <2>3. ASSUME NEW o \in DOMAIN s \ {RamEnd}, s[o].used
        PROVE  o + SizeofMem \in DOMAIN f
    BY <2>1, <2>3, <1>4, <1>5
  <2> QED BY <2>1, <2>2, <2>3 DEF HeldInv
<1> QED BY <1>1, <1>4, <1>5, <1>6, <1>7, <1>8 DEF s, n, e

\* plug_holes closes the hole around a struct that has just become unused.
LEMMA PlugStep ==
    ASSUME NEW h, NEW m \in DOMAIN h.ram \ {RamEnd},
           h = [ram |-> h.ram, lfree |-> h.lfree, held |-> h.held, stuck |-> h.stuck],
           h.stuck \in BOOLEAN, ~h.ram[m].used,
           ListInv(h.ram), LfreeInv(h.ram, h.lfree), HeldInv(h.ram, h.held),
           \A o \in DOMAIN h.ram \ {RamEnd} :
              o = m \/ h.ram[o].next = m \/ h.ram[o].used \/ h.ram[h.ram[o].next].used
    PROVE  HeapInv(PlugHoles(h, m))
<1> DEFINE n == h.ram[m].next
           fwd == Absorbs(h.ram, m, n)
           r == IF fwd THEN Merge(h.ram, m, n) ELSE h.ram
           l == IF fwd THEN Merged(h.lfree, n, m) ELSE h.lfree
           p == r[m].prev
           bwd == Absorbs(r, p, m)
           s == IF bwd THEN Merge(r, p, m) ELSE r
           k == IF bwd THEN Merged(l, m, p) ELSE l
<1>1. PlugHoles(h, m) = [ram |-> s, lfree |-> k, held |-> h.held, stuck |-> h.stuck]
  <2>1. PlugHoles(h, m) = [h EXCEPT !.ram = s, !.lfree = k]
    BY DEF PlugHoles, Merge
  <2> HIDE DEF s, k
  <2> QED BY Zenon, <2>1
<1>2. m # n /\ n \in DOMAIN h.ram
  BY NextFacts
<1>3. /\ ListInv(r) /\ LfreeInv(r, l) /\ HeldInv(r, h.held)
      /\ m \in DOMAIN r \ {RamEnd} /\ ~r[m].used
      /\ \A o \in DOMAIN r \ {RamEnd} : r[o].next = m \/ r[o].used \/ r[r[o].next].used
  <2>1. CASE fwd
    <3>1. n # RamEnd /\ ~h.ram[n].used
      BY <2>1 DEF Absorbs
    <3>a. r = Merge(h.ram, m, n) /\ l = Merged(h.lfree, n, m)
      BY <2>1
    <3>2. /\ ListInv(r) /\ LfreeInv(r, l) /\ HeldInv(r, h.held)
          /\ DOMAIN r = DOMAIN h.ram \ {n}
          /\ \A o \in DOMAIN r : r[o].used = h.ram[o].used
          /\ \A o \in DOMAIN r : r[o].next = IF o = m THEN h.ram[n].next ELSE h.ram[o].next
      <4> HIDE DEF r, l, fwd
      <4>1. h.ram[m].next = n
        OBVIOUS
      <4> HIDE DEF n
      <4> QED BY <3>1, <3>a, <4>1, MergeKeeps
    <3> HIDE DEF r, l, fwd
    <3>3. h.ram[n].next # m /\ n # m /\ h.ram[n].next \in DOMAIN h.ram /\ h.ram[n].next # n
      BY <1>2, <3>1, NextFacts
    <3>4. h.ram[h.ram[n].next].used
      BY <3>1, <3>3, <1>2
    <3>5. ASSUME NEW o \in DOMAIN r \ {RamEnd}
          PROVE  r[o].next = m \/ r[o].used \/ r[r[o].next].used
      <4>1. CASE o = m
        BY <4>1, <3>2, <3>3, <3>4
      <4>2. CASE o # m
        <5>1. o \in DOMAIN h.ram \ {RamEnd} /\ r[o].next = h.ram[o].next
          BY <3>2, <4>2
        <5>2. r[o].next \in DOMAIN r
          BY <3>2, NextFacts
        <5> QED BY <3>2, <4>2, <5>1, <5>2
      <4> QED BY <4>1, <4>2
    <3> QED BY <3>2, <3>5, <1>2
  <2>2. CASE ~fwd
    <3>1. r = h.ram /\ l = h.lfree
      BY <2>2
    <3>2. h.ram[n].used
      <4>1. n = RamEnd => h.ram[n].used
        BY DEF ListInv
      <4> QED BY <4>1, <2>2, <1>2 DEF Absorbs
    <3> HIDE DEF r, l, fwd
    <3> QED BY <3>1, <3>2
  <2> QED BY Zenon, <2>1, <2>2
<1> HIDE DEF r, l
<1>4. \A o \in DOMAIN r \ {RamEnd} : r[o].next = m => o = p /\ m # p
  BY <1>3, NextFacts
<1>5. p # m => p \in DOMAIN r \ {RamEnd} /\ r[p].next = m
  <2>1. m = 0 => p = 0
    BY <1>3 DEF ListInv
  <2> QED BY <1>3, <2>1, PrevFacts
<1>6. ListInv(s) /\ LfreeInv(s, k) /\ HeldInv(s, h.held) /\ NoHoles(s)
  <2>1. CASE bwd
    <3>1. p # m /\ ~r[p].used /\ m # RamEnd
      BY <2>1 DEF Absorbs
    <3>a. s = Merge(r, p, m) /\ k = Merged(l, m, p)
      BY <2>1
    <3> HIDE DEF s, k, bwd
    <3>2. /\ ListInv(s) /\ LfreeInv(s, k) /\ HeldInv(s, h.held)
          /\ DOMAIN s = DOMAIN r \ {m}
          /\ \A o \in DOMAIN s : s[o].used = r[o].used
          /\ \A o \in DOMAIN s : s[o].next = IF o = p THEN r[m].next ELSE r[o].next
      <4> HIDE DEF p
      <4>1. p \in DOMAIN r \ {RamEnd} /\ r[p].next = m
        BY <3>1, <1>5
      <4>2. ListInv(r) /\ LfreeInv(r, l) /\ HeldInv(r, h.held) /\ ~r[m].used
        BY <1>3
      <4> DEFINE z == Merge(r, p, r[p].next)
      <4>3. /\ ListInv(z) /\ LfreeInv(z, Merged(l, r[p].next, p)) /\ HeldInv(z, h.held)
            /\ DOMAIN z = DOMAIN r \ {r[p].next}
            /\ \A o \in DOMAIN z : z[o].used = r[o].used
            /\ \A o \in DOMAIN z : z[o].next = IF o = p THEN r[r[p].next].next ELSE r[o].next
        BY <3>1, <4>1, <4>2, MergeKeeps
      <4>4. z = s /\ Merged(l, r[p].next, p) = k
        BY <3>a, <4>1
      <4> HIDE DEF z
      <4> QED BY <4>1, <4>3, <4>4
    <3>3. r[m].next # m
      BY <1>3, NextFacts
    <3>4. ASSUME NEW o \in DOMAIN s \ {RamEnd}
          PROVE  s[o].used \/ s[s[o].next].used
      <4>1. s[o].next \in DOMAIN s
        BY <3>2, NextFacts
      <4>2. CASE o = p
        <5>1. r[r[m].next].used
          BY <1>3, <3>3
        <5> QED BY <5>1, <4>1, <4>2, <3>2
      <4>3. CASE o # p
        BY <4>1, <4>3, <3>2, <1>3, <1>4
      <4> QED BY <4>2, <4>3
    <3> QED BY <3>2, <3>4 DEF NoHoles
  <2>2. CASE ~bwd
    <3>1. s = r /\ k = l
      BY <2>2
    <3>2. p = m \/ r[p].used
      BY <2>2, <1>3 DEF Absorbs
    <3> HIDE DEF s, k, bwd, p
    <3> QED BY <3>1, <3>2, <1>3, <1>4 DEF NoHoles
  <2> QED BY <2>1, <2>2
<1> HIDE DEF s, k
<1> QED BY <1>1, <1>6 DEF HeapInv

\* Another list and another lowest unused struct.
LEMMA HeapForm ==
    ASSUME NEW h, NEW u, NEW v,
           h = [ram |-> h.ram, lfree |-> h.lfree, held |-> h.held, stuck |-> h.stuck]
    PROVE  [h EXCEPT !.ram = u, !.lfree = v] =
             [ram |-> u, lfree |-> v, held |-> h.held, stuck |-> h.stuck]
<1> DEFINE x == [h EXCEPT !.ram = u, !.lfree = v]
<1>1. x = [h EXCEPT !.ram = u, !.lfree = v]
  OBVIOUS
<1> HIDE DEF x
<1>2. x = [ram |-> u, lfree |-> v, held |-> h.held, stuck |-> h.stuck]
  BY Zenon, <1>1
<1> QED BY Zenon, <1>1, <1>2

\* mem_free of a block that a caller holds.
LEMMA FreeStep ==
    ASSUME NEW h, HeapInv(h), NEW p \in DOMAIN h.held
    PROVE  HeapInv(MemFree(h, p))
<1> DEFINE m == p - SizeofMem
           D == DOMAIN h.ram
           f == Restrict(h.held, DOMAIN h.held \ {p})
           r == [h.ram EXCEPT ![m].used = FALSE]
           l == IF m < h.lfree THEN m ELSE h.lfree
           g == [ram |-> r, lfree |-> l, held |-> f, stuck |-> h.stuck]
<1>1. /\ h = [ram |-> h.ram, lfree |-> h.lfree, held |-> h.held, stuck |-> h.stuck]
      /\ h.stuck \in BOOLEAN /\ ListInv(h.ram) /\ NoHoles(h.ram)
      /\ LfreeInv(h.ram, h.lfree) /\ HeldInv(h.ram, h.held)
  BY DEF HeapInv
<1>2. /\ h.held \in [DOMAIN h.held -> Nat] /\ DOMAIN h.held \subseteq Int
      /\ \A q \in DOMAIN h.held :
            /\ q - SizeofMem \in D \ {RamEnd} /\ h.ram[q - SizeofMem].used
            /\ q + h.held[q] <= h.ram[q - SizeofMem].next
      /\ \A o \in D \ {RamEnd} : h.ram[o].used => o + SizeofMem \in DOMAIN h.held
  BY <1>1 DEF HeldInv
<1>3. m \in D \ {RamEnd} /\ h.ram[m].used /\ p \in Int /\ m = p - 12 /\ m \in Nat
      /\ D \subseteq Nat
  BY <1>1, <1>2, OffsetFacts DEF SizeofMem, ListInv
<1>4. Legal(h.ram, p)
  <2>1. m \in Offsets
    BY <1>1, <1>3 DEF ListInv
  <2>2. p % Alignment = 0 /\ m >= 0
    BY <2>1, <1>3, OffsetFacts DEF Alignment
  <2>3. h.ram[m].next \in Nat /\ h.ram[m].next <= RamEnd /\ m + 24 <= h.ram[m].next
        /\ (h.ram[m].next = RamEnd \/ h.ram[h.ram[m].next].prev = m)
    BY <1>1, <1>3, NextFacts
  <2>4. p + MinSize <= RamEnd
    BY <2>3, <1>3, EndFacts DEF MinSize
  <2>5. h.ram[m].prev \in Nat /\ h.ram[m].prev <= MemSize
        /\ (h.ram[m].prev = m \/ h.ram[h.ram[m].prev].next = m)
    <3>1. CASE m = 0
      BY <3>1, <1>1, EndFacts DEF ListInv
    <3>2. CASE m # 0
      BY <3>2, <1>1, <1>3, PrevFacts, NextFacts, EndFacts
    <3> QED BY <3>1, <3>2
  <2> QED BY <2>2, <2>3, <2>4, <2>5, <1>3, EndFacts DEF Legal, LinkValid
<1>5. MemFree(h, p) = PlugHoles(g, m)
  <2>1. [h EXCEPT !.held = f] = [ram |-> h.ram, lfree |-> h.lfree, held |-> f, stuck |-> h.stuck]
    BY <1>1
  <2>2. [[h EXCEPT !.held = f] EXCEPT !.ram = [@ EXCEPT ![m].used = FALSE],
                                      !.lfree = IF m < @ THEN m ELSE @] = g
    <3> DEFINE b == [h EXCEPT !.held = f]
    <3>1. b = [ram |-> h.ram, lfree |-> h.lfree, held |-> f, stuck |-> h.stuck]
      BY <2>1
    <3> HIDE DEF b, f, m
    <3> DEFINE u == [b.ram EXCEPT ![m].used = FALSE]
               v == IF m < b.lfree THEN m ELSE b.lfree
    <3>2. [b EXCEPT !.ram = u, !.lfree = v] =
             [ram |-> u, lfree |-> v, held |-> b.held, stuck |-> b.stuck]
      <4>1. b = [ram |-> b.ram, lfree |-> b.lfree, held |-> b.held, stuck |-> b.stuck]
        BY <3>1
      <4> HIDE DEF u, v
      <4> QED BY Zenon, <4>1, HeapForm
    <3>3. b.ram = h.ram /\ b.lfree = h.lfree /\ b.held = f /\ b.stuck = h.stuck
      BY <3>1
    <3> QED BY <3>2, <3>3 DEF b
  <2> HIDE DEF g, f
  <2> QED BY <1>4, <2>2 DEF MemFree, f
<1>6. /\ ListInv(r) /\ DOMAIN r = D
      /\ \A o \in D : /\ r[o].used = (IF o = m THEN FALSE ELSE h.ram[o].used)
                      /\ r[o].next = h.ram[o].next
  BY Zenon, <1>1, <1>3, MarkList
<1> HIDE DEF m, r
<1>7. LfreeInv(r, l)
  <2>1. h.lfree \in D /\ (h.lfree = RamEnd \/ ~h.ram[h.lfree].used)
        /\ \A o \in D : ~h.ram[o].used => h.lfree <= o
    BY <1>1 DEF LfreeInv
  <2>2. l \in D /\ (l = RamEnd \/ ~r[l].used)
    BY Zenon, <2>1, <1>3, <1>6
  <2>3. ASSUME NEW o \in D, ~r[o].used PROVE l <= o
    <3>1. h.lfree \in Nat /\ m \in Nat /\ o \in Nat
      BY <2>1, <1>3
    <3>2. CASE o = m
      BY <3>1, <3>2
    <3>3. CASE o # m
      <4>1. h.lfree <= o
        BY Zenon, <2>1, <2>3, <3>3, <1>6
      <4> QED BY <3>1, <4>1
    <3> QED BY <3>2, <3>3
  <2> HIDE DEF l
  <2> QED BY <2>2, <2>3, <1>6 DEF LfreeInv
<1>8. HeldInv(r, f)
  <2>1. DOMAIN f = DOMAIN h.held \ {p} /\ \A q \in DOMAIN f : f[q] = h.held[q]
    BY DEF Restrict
  <2>2. f \in [DOMAIN f -> Nat] /\ DOMAIN f \subseteq Int
    BY <1>2, <2>1 DEF Restrict
  <2> HIDE DEF f
  <2>3. ASSUME NEW q \in DOMAIN f
        PROVE  /\ q - SizeofMem \in DOMAIN r \ {RamEnd} /\ r[q - SizeofMem].used
               /\ q + f[q] <= r[q - SizeofMem].next
    <3>1. q - SizeofMem # m
      BY <2>1, <1>2, <1>3 DEF SizeofMem
    <3> QED BY Zenon, <3>1, <2>1, <1>2, <1>6
  <2>4. ASSUME NEW o \in DOMAIN r \ {RamEnd}, r[o].used
        PROVE  o + SizeofMem \in DOMAIN f
    <3>1. o # m /\ h.ram[o].used /\ o \in D
      BY Zenon, <2>4, <1>6
    <3>2. o + SizeofMem \in DOMAIN h.held
      BY <3>1, <1>2
    <3>3. o + SizeofMem # p
      BY <3>1, <1>3 DEF SizeofMem
    <3> QED BY <3>2, <3>3, <2>1
  <2> QED BY <2>2, <2>3, <2>4 DEF HeldInv
<1>9. \A o \in D \ {RamEnd} : o = m \/ r[o].next = m \/ r[o].used \/ r[r[o].next].used
  <2> TAKE o \in D \ {RamEnd}
  <2>1. h.ram[o].used \/ h.ram[h.ram[o].next].used
    BY <1>1 DEF NoHoles
  <2>2. h.ram[o].next \in D
    BY <1>1, NextFacts
  <2> QED BY Zenon, <2>1, <2>2, <1>6
<1> HIDE DEF l, f
<1>10. g.ram = r /\ g.lfree = l /\ g.held = f /\ g.stuck = h.stuck
  OBVIOUS
<1>11. g = [ram |-> g.ram, lfree |-> g.lfree, held |-> g.held, stuck |-> g.stuck]
  OBVIOUS
<1> HIDE DEF g
<1>12. /\ m \in DOMAIN g.ram \ {RamEnd} /\ ~g.ram[m].used /\ g.stuck \in BOOLEAN
       /\ ListInv(g.ram) /\ LfreeInv(g.ram, g.lfree) /\ HeldInv(g.ram, g.held)
  BY Zenon, <1>1, <1>3, <1>6, <1>7, <1>8, <1>10
<1>13. \A o \in DOMAIN g.ram \ {RamEnd} :
          o = m \/ g.ram[o].next = m \/ g.ram[o].used \/ g.ram[g.ram[o].next].used
  BY <1>6, <1>9, <1>10
<1>14. HeapInv(PlugHoles(g, m))
  BY <1>11, <1>12, <1>13, PlugStep
<1> QED BY <1>5, <1>14

\* A nonempty set of numbers has a least one.
LEMMA LeastExists ==
    ASSUME NEW S \in SUBSET Nat, S # {}
    PROVE  \E i \in S : \A j \in S : i <= j
<1> DEFINE R == OpToRel(<, Nat)
<1>1. IsWellFoundedOn(R, Nat)
  BY NatLessThanWellFounded, Zenon
<1>2. \A i, j \in S : j < i => <<j, i>> \in R
  BY DEF OpToRel
<1> HIDE DEF R
<1>3. PICK i \in S : \A j \in S : ~ (<<j, i>> \in R)
  BY <1>1, WFMin, Zenon
<1>4. \A j \in S : i \in Nat /\ j \in Nat /\ ~ (j < i)
  BY Zenon, <1>2, <1>3
<1>5. \A j \in S : i <= j
  BY <1>4
<1> QED BY <1>5

\* The lowest of some offsets.
LEMMA LowestFacts ==
    ASSUME NEW S \in SUBSET (0 .. MemSize), S # {}
    PROVE  Lowest(S) \in S /\ \A x \in S : Lowest(S) <= x
<1>1. S \in SUBSET Nat
  BY EndFacts
<1>2. \E o \in S : \A x \in S : o <= x
  BY <1>1, LeastExists
<1> QED BY Zenon, <1>2 DEF Lowest

\* The rounding keeps offsets aligned, and its tests rule out that it wraps.
LEMMA BlockFacts ==
    ASSUME NEW n \in 1 .. Width - 1
    PROVE  /\ BlockSize(n) \in Nat /\ BlockSize(n) % 4 = 0 /\ BlockSize(n) >= 12
           /\ Possible(n) => n <= BlockSize(n) /\ BlockSize(n) <= MemSize
<1> DEFINE a == ((n + 3) \div 4) * 4
<1>1. Width \in Nat /\ Width % 4 = 0 /\ Width > 48
  BY MemAssumption DEF Alignment, SizeofMem, MinSize
<1>2. a \in Nat /\ a % 4 = 0 /\ a >= n /\ a < n + 4
  OBVIOUS
<1>3. a <= Width
  BY <1>1, <1>2
<1>4. Aligned(n) = a
  BY DEF Aligned, Alignment
<1> HIDE DEF a
<1>5. a % Width = IF a = Width THEN 0 ELSE a
  BY <1>1, <1>2, <1>3
<1>6. (a % Width) \in Nat /\ (a % Width) % 4 = 0
  BY <1>1, <1>2, <1>5
<1>7. BlockSize(n) = IF a % Width < 12 THEN 12 ELSE a % Width
  BY <1>4 DEF BlockSize, MinSize
<1> QED BY <1>6, <1>7 DEF Possible

\* The scan finds an unused struct that is large enough.
LEMMA FoundFacts ==
    ASSUME NEW h, HeapInv(h), NEW n \in 1 .. Width - 1, Found(h, n) # Null
    PROVE  LET m == Found(h, n)
           IN  /\ Possible(n) /\ m \in DOMAIN h.ram \ {RamEnd} /\ ~h.ram[m].used
               /\ h.lfree <= m /\ m + 12 + BlockSize(n) <= h.ram[m].next
<1> DEFINE size == BlockSize(n)
           fits == {o \in DOMAIN h.ram : h.lfree <= o /\ o < MemSize - size /\ Fits(h.ram, o, size)}
<1>0. ListInv(h.ram)
  BY DEF HeapInv
<1>1. Possible(n) /\ Found(h, n) = FirstFit(h.ram, h.lfree, size)
  BY DEF Found
<1>2. fits # {} /\ Found(h, n) = Lowest(fits)
  BY <1>1 DEF FirstFit
<1>3. DOMAIN h.ram \subseteq 0 .. MemSize
  BY <1>0, EndFacts, OffsetFacts DEF ListInv
<1>4. fits \in SUBSET (0 .. MemSize)
  BY <1>3
<1>5. Found(h, n) \in fits
  <2> HIDE DEF fits
  <2> QED BY <1>2, <1>4, LowestFacts
<1> DEFINE m == Found(h, n)
<1> HIDE DEF m
<1>6. m \in DOMAIN h.ram /\ h.lfree <= m /\ Fits(h.ram, m, size)
  BY <1>5 DEF m
<1>7. ~h.ram[m].used /\ h.ram[m].next - (m + 12) >= size
  BY <1>6 DEF Fits, Room, SizeofMem
<1>8. m # RamEnd
  BY <1>0, <1>7 DEF ListInv
<1>9. m \in Nat /\ h.ram[m].next \in Nat /\ size \in Nat
  BY <1>0, <1>6, <1>8, NextFacts, BlockFacts
<1>10. m + 12 + size <= h.ram[m].next
  BY <1>7, <1>9
<1> QED BY <1>1, <1>6, <1>7, <1>8, <1>10 DEF m

\* mem_malloc when it finds a struct.
LEMMA MallocStep ==
    ASSUME NEW h, HeapInv(h), NEW n \in 1 .. Width - 1, Found(h, n) # Null
    PROVE  HeapInv(MemMalloc(h, n))
<1> DEFINE m == Found(h, n)
           size == BlockSize(n)
           D == DOMAIN h.ram
           m2 == m + SizeofMem + size
           split == Room(h.ram, m) >= size + SizeofMem + MinSize
           r == IF split THEN Split(h.ram, m, m2) ELSE h.ram
           s == [r EXCEPT ![m].used = TRUE]
           l == IF m = h.lfree THEN NextFree(s, h.lfree) ELSE h.lfree
           f == With(h.held, m + SizeofMem, n)
<1>1. /\ h = [ram |-> h.ram, lfree |-> h.lfree, held |-> h.held, stuck |-> h.stuck]
      /\ h.stuck \in BOOLEAN /\ ListInv(h.ram) /\ NoHoles(h.ram)
      /\ LfreeInv(h.ram, h.lfree) /\ HeldInv(h.ram, h.held)
  BY DEF HeapInv
<1>2. /\ Possible(n) /\ m \in D \ {RamEnd} /\ ~h.ram[m].used
      /\ h.lfree <= m /\ m + 12 + size <= h.ram[m].next
  BY FoundFacts
<1>3. size \in Nat /\ size % 4 = 0 /\ size >= 12 /\ n <= size /\ n \in Nat
  BY <1>2, BlockFacts
<1>4. MemMalloc(h, n) = [ram |-> s, lfree |-> l, held |-> f, stuck |-> h.stuck]
  <2> DEFINE x == MemMalloc(h, n)
  <2>1. x = [h EXCEPT !.ram = s, !.lfree = l, !.held = f]
    BY DEF MemMalloc
  <2> HIDE DEF x, s, l, f
  <2>2. x = [ram |-> s, lfree |-> l, held |-> f, stuck |-> h.stuck]
    BY Zenon, <1>1, <2>1
  <2> QED BY <2>2 DEF x
<1>5. m \in Nat /\ m \in Offsets /\ h.ram[m].next \in Nat /\ h.ram[m].next \in D /\ h.ram[m].next # m
      /\ h.ram[m].next <= RamEnd /\ D \subseteq Nat /\ D \subseteq 0 .. MemSize
  BY <1>1, <1>2, NextFacts, OffsetFacts DEF ListInv
<1> HIDE DEF m, size
<1>6. /\ ListInv(r) /\ D \subseteq DOMAIN r /\ m + 12 + size <= r[m].next
      /\ \A o \in D : /\ r[o].used = h.ram[o].used
                      /\ o # m => r[o].next = h.ram[o].next
      /\ \A o \in DOMAIN r \ D : ~r[o].used /\ r[o].next = h.ram[m].next /\ m < o
  <2>1. CASE split
    <3>0. h.ram[m].next - (m + 12) >= size + 24
      BY <2>1, <1>3 DEF Room, SizeofMem, MinSize
    <3>1. m2 = m + 12 + size /\ m + 24 <= m2 /\ m2 + 24 <= h.ram[m].next
      BY <3>0, <1>3, <1>5 DEF SizeofMem
    <3>2. m2 \in Offsets
      <4>1. m % 4 = 0
        BY <1>5, OffsetFacts
      <4> QED BY <3>1, <4>1, <1>3, <1>5, EndFacts DEF Offsets, Alignment
    <3>3. r = Split(h.ram, m, m2)
      BY <2>1
    <3> HIDE DEF m2, r
    <3>4. /\ ListInv(r) /\ DOMAIN r = D \cup {m2}
          /\ \A o \in D : /\ r[o].used = h.ram[o].used
                          /\ o # m => r[o].next = h.ram[o].next
          /\ r[m].next = m2
          /\ ~r[m2].used /\ r[m2].next = h.ram[m].next
      <4>1. m2 \in Nat
        BY <3>2, OffsetFacts
      <4>2. m \in Nat /\ h.ram[m].next \in Nat
        BY <1>5
      <4>3. ListInv(h.ram) /\ m \in D \ {RamEnd}
        BY <1>1, <1>2
      <4>4. SplitOff(h.ram, Split(h.ram, m, m2), m, m2)
        BY <3>1, <3>2, <4>1, <4>2, <4>3, SplitList
      <4>5. SplitOff(h.ram, r, m, m2)
        BY <3>3, <4>4
      <4> QED BY <4>5 DEF SplitOff
    <3>5. m2 \in Nat /\ m < m2 /\ m2 = m + 12 + size
      BY <3>1, <1>3, <1>5
    <3> QED BY <3>4, <3>5, <1>2, <1>3, <1>5
  <2>2. CASE ~split
    BY <2>2, <1>1, <1>2
  <2> QED BY <2>1, <2>2
<1> HIDE DEF r, split
<1>7. m \in DOMAIN r \ {RamEnd}
  BY <1>2, <1>6
<1>8. /\ ListInv(s) /\ DOMAIN s = DOMAIN r
      /\ \A o \in DOMAIN r : /\ s[o].used = (IF o = m THEN TRUE ELSE r[o].used)
                             /\ s[o].next = r[o].next
  BY Zenon, <1>6, <1>7, MarkList
<1> HIDE DEF s
<1>9. NoHoles(s)
  <2> SUFFICES ASSUME NEW o \in DOMAIN s \ {RamEnd}
               PROVE  s[o].used \/ s[s[o].next].used
    BY DEF NoHoles
  <2>1. CASE o = m
    BY Zenon, <2>1, <1>8
  <2>2. CASE o \in D /\ o # m
    <3>1. h.ram[o].used \/ h.ram[h.ram[o].next].used
      BY <1>1, <2>2 DEF NoHoles
    <3>2. h.ram[o].next \in D /\ s[o].next = h.ram[o].next
      BY Zenon, <1>1, <2>2, <1>6, <1>8, NextFacts
    <3>3. \A x \in D : h.ram[x].used => s[x].used
      BY Zenon, <1>6, <1>8
    <3> QED BY <2>2, <3>1, <3>2, <3>3
  <2>3. CASE o \notin D
    <3>1. s[o].next = h.ram[m].next
      BY Zenon, <2>3, <1>6, <1>8
    <3>2. h.ram[h.ram[m].next].used
      BY <1>1, <1>2 DEF NoHoles
    <3>3. h.ram[m].next \in D
      BY Zenon, <1>5
    <3>4. \A x \in D : h.ram[x].used => s[x].used
      BY Zenon, <1>6, <1>8
    <3> QED BY Zenon, <3>1, <3>2, <3>3, <3>4
  <2> QED BY <2>1, <2>2, <2>3
<1>10. LfreeInv(s, l)
  <2>1. h.lfree \in D /\ (h.lfree = RamEnd \/ ~h.ram[h.lfree].used)
        /\ \A o \in D : ~h.ram[o].used => h.lfree <= o
    BY <1>1 DEF LfreeInv
  <2>2. ASSUME NEW o \in DOMAIN s, ~s[o].used PROVE h.lfree <= o /\ o # m
    <3>1. o # m
      BY Zenon, <2>2, <1>8
    <3>2. CASE o \in D
      BY Zenon, <2>1, <2>2, <3>1, <3>2, <1>6, <1>8
    <3>3. CASE o \notin D
      <4>1. m < o
        BY <3>3, <1>6, <1>8
      <4>2. o \in Nat /\ h.lfree \in Nat
        BY <1>8, <2>1, <1>5, OffsetFacts DEF ListInv
      <4> QED BY <4>1, <4>2, <3>1, <1>2, <1>5
    <3> QED BY <3>1, <3>2, <3>3
  <2>3. CASE m = h.lfree
    <3> DEFINE S == {o \in DOMAIN s : m <= o /\ (o = RamEnd \/ ~s[o].used)}
    <3>1. S \in SUBSET (0 .. MemSize)
      <4>1. DOMAIN s \subseteq 0 .. MemSize
        BY <1>8, OffsetFacts DEF ListInv
      <4> QED BY <4>1
    <3>2. RamEnd \in S
      <4>1. RamEnd \in DOMAIN s
        BY <1>8 DEF ListInv
      <4>2. m <= RamEnd
        BY <1>1, <1>2, NextFacts, EndFacts
      <4> QED BY <4>1, <4>2
    <3>3. l = Lowest(S)
      BY <2>3 DEF NextFree
    <3> HIDE DEF l
    <3>4. l \in S /\ \A x \in S : l <= x
      <4> HIDE DEF S
      <4> QED BY <3>1, <3>2, <3>3, LowestFacts
    <3>5. \A o \in DOMAIN s : ~s[o].used => o \in S
      BY <2>2, <2>3
    <3> QED BY <3>4, <3>5 DEF LfreeInv
  <2>4. CASE m # h.lfree
    <3>1. l = h.lfree
      BY <2>4
    <3>2. l \in DOMAIN s /\ (l = RamEnd \/ ~s[l].used)
      BY Zenon, <2>1, <2>4, <3>1, <1>6, <1>8
    <3> HIDE DEF l
    <3> QED BY <2>2, <3>1, <3>2 DEF LfreeInv
  <2> QED BY <2>3, <2>4
<1>11. HeldInv(s, f)
  <2> DEFINE F == DOMAIN h.held \cup {m + 12}
  <2>1. /\ h.held \in [DOMAIN h.held -> Nat] /\ DOMAIN h.held \subseteq Int
        /\ \A q \in DOMAIN h.held :
              /\ q - SizeofMem \in D \ {RamEnd} /\ h.ram[q - SizeofMem].used
              /\ q + h.held[q] <= h.ram[q - SizeofMem].next
        /\ \A o \in D \ {RamEnd} : h.ram[o].used => o + SizeofMem \in DOMAIN h.held
    BY <1>1 DEF HeldInv
  <2>2. f = [q \in F |-> IF q = m + 12 THEN n ELSE h.held[q]]
    BY DEF With, SizeofMem
  <2> HIDE DEF f
  <2>3. DOMAIN f = F /\ f \in [F -> Nat] /\ F \subseteq Int
    BY <2>1, <2>2, <1>3, <1>5
  <2>4. ASSUME NEW q \in F
        PROVE  /\ q - SizeofMem \in DOMAIN s \ {RamEnd} /\ s[q - SizeofMem].used
               /\ q + f[q] <= s[q - SizeofMem].next
    <3>1. CASE q = m + 12
      <4>1. q - SizeofMem = m /\ f[q] = n
        BY <3>1, <2>2, <1>5 DEF SizeofMem
      <4>2. s[m].used /\ s[m].next = r[m].next /\ m \in DOMAIN s
        BY Zenon, <1>7, <1>8
      <4>3. r[m].next \in Nat
        BY <1>6, <1>7, NextFacts
      <4>4. q + n <= r[m].next
        BY <3>1, <4>3, <1>3, <1>5, <1>6
      <4> QED BY <4>1, <4>2, <4>4, <1>2
    <3>2. CASE q # m + 12
      <4>1. q \in DOMAIN h.held /\ f[q] = h.held[q]
        BY <3>2, <2>2
      <4>2. /\ q - SizeofMem \in D \ {RamEnd} /\ h.ram[q - SizeofMem].used
            /\ q + h.held[q] <= h.ram[q - SizeofMem].next
        BY <4>1, <2>1
      <4>3. q - SizeofMem # m
        BY <4>2, <1>2
      <4>4. \A o \in D : o # m => /\ o \in DOMAIN s /\ s[o].used = h.ram[o].used
                                  /\ s[o].next = h.ram[o].next
        BY Zenon, <1>6, <1>8
      <4> QED BY Zenon, <4>1, <4>2, <4>3, <4>4
    <3> QED BY <3>1, <3>2
  <2>5. ASSUME NEW o \in DOMAIN s \ {RamEnd}, s[o].used
        PROVE  o + SizeofMem \in F
    <3>1. CASE o = m
      BY <3>1 DEF SizeofMem
    <3>2. CASE o # m
      <4>1. o \in D /\ h.ram[o].used
        BY Zenon, <3>2, <2>5, <1>6, <1>8
      <4> QED BY <4>1, <2>1
    <3> QED BY <3>1, <3>2
  <2> QED BY <2>3, <2>4, <2>5 DEF HeldInv
<1> HIDE DEF l, f
<1> QED BY <1>1, <1>4, <1>8, <1>9, <1>10, <1>11 DEF HeapInv

\* A block that keeps n bytes, and a struct for what is cut off.
LEMMA CutList ==
    ASSUME NEW r, ListInv(r), NoHoles(r), NEW f, HeldInv(r, f),
           NEW m \in DOMAIN r \ {RamEnd}, NEW p \in DOMAIN f, p = m + SizeofMem,
           r[r[m].next].used,
           NEW m2 \in Nat, m2 \in Offsets, m + 24 <= m2, m2 + 24 <= r[m].next,
           NEW n \in Nat, p + n <= m2
    PROVE  LET s == Split(r, m, m2)
           IN  ListInv(s) /\ NoHoles(s) /\ HeldInv(s, [f EXCEPT ![p] = n])
<1>0. SplitOff(r, Split(r, m, m2), m, m2)
  <2>1. m \in Nat /\ r[m].next \in Nat
    BY NextFacts
  <2> QED BY <2>1, SplitList
<1> DEFINE s == Split(r, m, m2)
           g == [f EXCEPT ![p] = n]
           D == DOMAIN r
<1>1. /\ f \in [DOMAIN f -> Nat] /\ DOMAIN f \subseteq Int
      /\ \A q \in DOMAIN f :
            /\ q - SizeofMem \in D \ {RamEnd} /\ r[q - SizeofMem].used
            /\ q + f[q] <= r[q - SizeofMem].next
      /\ \A o \in D \ {RamEnd} : r[o].used => o + SizeofMem \in DOMAIN f
  BY DEF HeldInv
<1>2. m \in D \ {RamEnd} /\ r[m].used /\ r[m].next \in D /\ m \in Nat /\ r[m].next \in Nat
      /\ m = p - SizeofMem
  <2>1. m \in Nat /\ r[m].next \in D /\ r[m].next \in Nat
    BY NextFacts
  <2>2. m = p - SizeofMem
    BY <2>1 DEF SizeofMem
  <2> QED BY <1>1, <2>1, <2>2
<1>3. /\ m2 \notin D /\ ListInv(s) /\ DOMAIN s = D \cup {m2}
      /\ \A o \in D : s[o].used = r[o].used /\ (o # m => s[o].next = r[o].next)
      /\ s[m].next = m2
      /\ ~s[m2].used /\ s[m2].next = r[m].next
  <2> HIDE DEF s
  <2>1. SplitOff(r, s, m, m2)
    BY <1>0 DEF s
  <2> QED BY <2>1 DEF SplitOff
<1> HIDE DEF s
<1>4. NoHoles(s)
  <2> SUFFICES ASSUME NEW o \in DOMAIN s \ {RamEnd}
               PROVE  s[o].used \/ s[s[o].next].used
    BY DEF NoHoles
  <2>1. CASE o = m2
    BY <2>1, <1>2, <1>3
  <2>2. CASE o = m
    BY <2>2, <1>2, <1>3
  <2>3. CASE o # m /\ o # m2
    <3>1. o \in D \ {RamEnd} /\ (r[o].used \/ r[r[o].next].used)
      BY <2>3, <1>3 DEF NoHoles
    <3>2. r[o].next \in D /\ s[o].next = r[o].next /\ s[o].used = r[o].used
      BY <2>3, <3>1, <1>3, NextFacts
    <3>3. s[r[o].next].used = r[r[o].next].used
      BY <3>2, <1>3
    <3> QED BY <3>1, <3>2, <3>3
  <2> QED BY <2>1, <2>2, <2>3
<1>5. HeldInv(s, g)
  <2>1. DOMAIN g = DOMAIN f /\ g \in [DOMAIN f -> Nat] /\ g[p] = n
        /\ \A q \in DOMAIN f : q # p => g[q] = f[q]
    BY <1>1
  <2> HIDE DEF g
  <2>2. ASSUME NEW q \in DOMAIN f
        PROVE  /\ q - SizeofMem \in DOMAIN s \ {RamEnd} /\ s[q - SizeofMem].used
               /\ q + g[q] <= s[q - SizeofMem].next
    <3>1. CASE q = p
      BY <3>1, <2>1, <1>2, <1>3
    <3>2. CASE q # p
      <4>1. q - SizeofMem # m
        BY <3>2, <1>1 DEF SizeofMem
      <4> QED BY <3>2, <4>1, <2>1, <1>1, <1>3
    <3> QED BY <3>1, <3>2
  <2>3. ASSUME NEW o \in DOMAIN s \ {RamEnd}, s[o].used
        PROVE  o + SizeofMem \in DOMAIN f
    <3>1. o \in D /\ r[o].used
      BY <2>3, <1>3
    <3> QED BY <3>1, <1>1
  <2> QED BY <2>1, <2>2, <2>3, <1>1 DEF HeldInv
<1> QED BY <1>3, <1>4, <1>5 DEF s

LEMMA SameStructs ==
    ASSUME NEW D, NEW f \in Structs(D), NEW g \in Structs(D), \A o \in D : f[o] = g[o]
    PROVE  f = g
BY DEF Structs

\* The unused struct that mem_trim moves down is, in the list, first a part of
\* the block and then split off again.
LEMMA MoveForm ==
    ASSUME NEW r, ListInv(r), NEW m \in DOMAIN r \ {RamEnd}, NEW k, k = r[m].next, k # RamEnd,
           NEW m2 \in Nat, m < m2, m2 < k
    PROVE  Split(Forget([r EXCEPT ![m].next = r[k].next], k), m, m2) = Split(Merge(r, m, k), m, m2)
<1> DEFINE e == r[k].next
           D == DOMAIN r \ {k}
           x == [r EXCEPT ![m].next = e]
           a == Forget(x, k)
           b == Merge(r, m, k)
<1>1. /\ k \in DOMAIN r \ {0, RamEnd} /\ e \in DOMAIN r /\ m < k /\ k < e
      /\ b = [o \in D |->
                 IF o = m THEN [next |-> e, prev |-> r[m].prev, used |-> r[m].used]
                 ELSE IF o = e /\ o # RamEnd
                      THEN [next |-> r[o].next, prev |-> m, used |-> r[o].used]
                 ELSE r[o]]
  BY MergeForm
<1>2. r \in [DOMAIN r -> Struct] /\ DOMAIN r \subseteq Nat
  BY OffsetFacts DEF ListInv
<1>3. m \in D /\ e \in D /\ e \in Nat /\ m \in Nat /\ k \in Nat /\ e # m /\ m2 \notin D
  <2>1. \A o \in DOMAIN r : m < o => k <= o
    BY DEF ListInv
  <2> QED BY <1>1, <1>2, <2>1
<1>4. a = [o \in D |-> IF o = m THEN [next |-> e, prev |-> r[m].prev, used |-> r[m].used]
                       ELSE r[o]]
  <2> HIDE DEF e
  <2>1. [r[m] EXCEPT !.next = e] = [next |-> e, prev |-> r[m].prev, used |-> r[m].used]
    BY <1>2 DEF Struct
  <2>2. x = [o \in DOMAIN r |-> IF o = m THEN [r[m] EXCEPT !.next = e] ELSE r[o]]
    OBVIOUS
  <2> HIDE DEF x
  <2>3. a = [o \in D |-> x[o]]
    BY <2>2 DEF Forget, Restrict
  <2> QED BY <2>1, <2>2, <2>3
<1>5. \A o \in DOMAIN r : r[o] \in Struct
  BY <1>2
<1> HIDE DEF a, b, e, D, x
<1>6. [next |-> e, prev |-> r[m].prev, used |-> r[m].used] \in Struct
  BY <1>3, <1>5 DEF Struct
<1>7. \A o \in DOMAIN r : [next |-> r[o].next, prev |-> m, used |-> r[o].used] \in Struct
  BY <1>3, <1>5 DEF Struct
<1>8. a \in [D -> Struct] /\ b \in [D -> Struct]
  BY <1>1, <1>4, <1>5, <1>6, <1>7 DEF D
<1>9. DOMAIN a = D /\ DOMAIN b = D /\ a[m].next = e /\ b[m].next = e
  BY <1>1, <1>3, <1>4
<1>12. \A o \in D : /\ a[o].next = b[o].next /\ a[o].used = b[o].used
                    /\ o = m => a[o].prev = b[o].prev
                    /\ ~(o = e /\ o # RamEnd) => a[o] = b[o]
  BY <1>1, <1>3, <1>4
<1>13. a \in Structs(D) /\ b \in Structs(D)
  BY <1>8 DEF Structs
<1>14. Split(a, m, m2) = Split(b, m, m2)
  <2>1. a[m] = b[m]
    BY <1>1, <1>3, <1>4
  <2>4. a[e].next = b[e].next
    BY <1>3, <1>12
  <2>5. a[e].used = b[e].used
    BY <1>3, <1>12
  <2>6. \A o \in D : o # e \/ e = RamEnd => a[o] = b[o]
    BY <1>12
  <2>2. IsSplit(D, a, Split(a, m, m2), m, e, m2)
    BY <1>3, <1>9, <1>13, SplitForm, Zenon
  <2>3. IsSplit(D, b, Split(b, m, m2), m, e, m2)
    BY <1>3, <1>9, <1>13, SplitForm, Zenon
  <2> DEFINE f == Split(a, m, m2)
             g == Split(b, m, m2)
             E == D \cup {m2}
  <2> HIDE DEF f, g
  <2>7. \A o \in E : f[o] = g[o]
    BY <2>1, <2>2, <2>3, <2>4, <2>5, <2>6 DEF IsSplit, f, g
  <2>8. f \in Structs(E) /\ g \in Structs(E)
    BY <2>2, <2>3 DEF IsSplit, f, g
  <2> HIDE DEF E
  <2>9. f = g
    BY <2>7, <2>8, SameStructs
  <2> QED BY <2>9 DEF f, g
<1> QED BY <1>14 DEF a, b, e, x

\* A caller may ask for less in its block.
LEMMA HeldLess ==
    ASSUME NEW r, NEW f, HeldInv(r, f), NEW p \in DOMAIN f, NEW n \in Nat,
           p + n <= r[p - SizeofMem].next
    PROVE  HeldInv(r, [f EXCEPT ![p] = n])
<1> DEFINE g == [f EXCEPT ![p] = n]
<1>1. f \in [DOMAIN f -> Nat] /\ DOMAIN f \subseteq Int
      /\ \A q \in DOMAIN f :
            /\ q - SizeofMem \in DOMAIN r \ {RamEnd} /\ r[q - SizeofMem].used
            /\ q + f[q] <= r[q - SizeofMem].next
      /\ \A m \in DOMAIN r \ {RamEnd} : r[m].used => m + SizeofMem \in DOMAIN f
  BY DEF HeldInv
<1>2. DOMAIN g = DOMAIN f /\ g \in [DOMAIN g -> Nat]
      /\ \A q \in DOMAIN f : g[q] = IF q = p THEN n ELSE f[q]
  BY <1>1
<1> HIDE DEF g
<1>3. \A q \in DOMAIN g : q + g[q] <= r[q - SizeofMem].next
  BY <1>1, <1>2
<1>4. HeldInv(r, g)
  BY <1>1, <1>2, <1>3 DEF HeldInv
<1> QED BY <1>4 DEF g

\* The unused struct k behind m, a part of m: the list b of mem_trim before it
\* splits what is left off again.
Swallowed(r, b, m, k, f) ==
    /\ ListInv(b) /\ NoHoles(b) /\ HeldInv(b, f) /\ DOMAIN b = DOMAIN r \ {k}
    /\ \A o \in DOMAIN r \ {k} : b[o].used = r[o].used
    /\ b[m].next = r[k].next /\ r[r[k].next].used /\ r[k].next \in DOMAIN r \ {k}

LEMMA SwallowKeeps ==
    ASSUME NEW r, ListInv(r), NoHoles(r), NEW f, HeldInv(r, f),
           NEW m \in DOMAIN r \ {RamEnd}, r[m].next # RamEnd, r[m].used, ~r[r[m].next].used
    PROVE  Swallowed(r, Merge(r, m, r[m].next), m, r[m].next, f)
<1> DEFINE k == r[m].next
           e == r[k].next
           b == Merge(r, m, k)
           D == DOMAIN r \ {k}
<1>1. /\ k \in DOMAIN r \ {0, RamEnd} /\ e \in DOMAIN r /\ m < k /\ k < e
      /\ b = [o \in D |->
                 IF o = m THEN [next |-> e, prev |-> r[m].prev, used |-> r[m].used]
                 ELSE IF o = e /\ o # RamEnd
                      THEN [next |-> r[o].next, prev |-> m, used |-> r[o].used]
                 ELSE r[o]]
  BY Zenon, MergeForm
<1>2. ListInv(b)
  BY MergeList
<1>3. m \in Nat /\ k \in Nat /\ e \in Nat /\ k + 24 <= e
  <2>1. m \in Nat /\ k \in Nat
    BY NextFacts
  <2>2. e \in Nat /\ k + 24 <= e
    BY <1>1, NextFacts
  <2> QED BY <2>1, <2>2
<1>4. r[e].used
  <2>1. r[k].used \/ r[r[k].next].used
    BY <1>1 DEF NoHoles
  <2> QED BY <2>1
<1>5. \A o \in DOMAIN r \ {RamEnd} :
         /\ r[o].used \/ r[r[o].next].used
         /\ r[o].next \in DOMAIN r
         /\ r[o].next = k => o = m
  <2> TAKE o \in DOMAIN r \ {RamEnd}
  <2>1. r[o].next \in DOMAIN r
    BY NextFacts
  <2>2. r[o].used \/ r[r[o].next].used
    BY DEF NoHoles
  <2>3. ASSUME r[o].next = k PROVE o = m
    <3>1. r[k].prev = o
      BY <1>1, <2>3, NextFacts
    <3>2. r[k].prev = m
      BY <1>1, NextFacts
    <3> QED BY SMTT(30), <3>1, <3>2
  <2> QED BY <2>1, <2>2, <2>3
<1> HIDE DEF b, e
<1>6. DOMAIN b = D /\ m \in D /\ e \in D
  BY <1>1, <1>3
<1>7. /\ \A o \in D : b[o].used = r[o].used /\ (o # m => b[o].next = r[o].next)
      /\ b[m].next = e
  BY Zenon, <1>1, <1>6
<1> HIDE DEF k
<1>8. NoHoles(b)
  <2> SUFFICES ASSUME NEW o \in D \ {RamEnd} PROVE b[o].used \/ b[b[o].next].used
    BY <1>6 DEF NoHoles
  <2>1. CASE o = m
    BY <2>1, <1>6, <1>7
  <2>2. CASE o # m
    <3>1. r[o].next \in D /\ (r[o].used \/ r[r[o].next].used)
      BY <2>2, <1>5
    <3> QED BY <2>2, <3>1, <1>7
  <2> QED BY <2>1, <2>2
<1>9. HeldInv(b, f)
  <2>1. f \in [DOMAIN f -> Nat] /\ DOMAIN f \subseteq Int
        /\ \A q \in DOMAIN f :
              /\ q - SizeofMem \in DOMAIN r \ {RamEnd} /\ r[q - SizeofMem].used
              /\ q + f[q] <= r[q - SizeofMem].next
        /\ \A o \in DOMAIN r \ {RamEnd} : r[o].used => o + SizeofMem \in DOMAIN f
    BY DEF HeldInv
  <2>2. ASSUME NEW q \in DOMAIN f
        PROVE  /\ q - SizeofMem \in D \ {RamEnd} /\ b[q - SizeofMem].used
               /\ q + f[q] <= b[q - SizeofMem].next
    <3> DEFINE o == q - SizeofMem
    <3>1. o \in DOMAIN r \ {RamEnd} /\ r[o].used /\ q + f[q] <= r[o].next /\ q \in Int /\ f[q] \in Nat
      BY <2>1
    <3>2. o # k /\ o \in D
      BY <3>1 DEF k
    <3>3. r[o].next \in Nat
      BY <3>1, NextFacts
    <3> HIDE DEF o
    <3>4. CASE o = m
      <4>1. q + f[q] <= k /\ b[o].next = e
        BY <3>1, <3>4, <1>7 DEF k
      <4>2. q + f[q] <= b[o].next
        BY <4>1, <1>3, <3>1
      <4>3. b[o].used
        BY <3>1, <3>2, <1>7
      <4> QED BY <3>1, <3>2, <4>2, <4>3 DEF o
    <3>5. CASE o # m
      <4>1. b[o].next = r[o].next /\ b[o].used
        BY <3>1, <3>2, <3>5, <1>7
      <4> QED BY <3>1, <3>2, <4>1 DEF o
    <3> QED BY <3>4, <3>5
  <2>3. \A o \in D \ {RamEnd} : b[o].used => o + SizeofMem \in DOMAIN f
    <3> SUFFICES ASSUME NEW o \in D \ {RamEnd}, b[o].used PROVE o + SizeofMem \in DOMAIN f
      OBVIOUS
    <3>1. o \in DOMAIN r \ {RamEnd} /\ r[o].used
      BY <1>7
    <3>2. r[o].used => o + SizeofMem \in DOMAIN f
      BY <3>1 DEF HeldInv
    <3> QED BY <3>1, <3>2
  <2> QED BY <2>1, <2>2, <2>3, <1>6 DEF HeldInv
<1>10. Swallowed(r, b, m, k, f)
  BY <1>2, <1>4, <1>6, <1>7, <1>8, <1>9 DEF e, Swallowed
<1> QED BY <1>10 DEF b, k

\* What is split off is the lowest unused struct, or lies above it.
LEMMA CutLfree ==
    ASSUME NEW r, ListInv(r), NEW l, LfreeInv(r, l), NEW m2 \in Nat, NEW s,
           DOMAIN s = DOMAIN r \cup {m2}, ~s[m2].used,
           \A o \in DOMAIN r : s[o].used = r[o].used
    PROVE  LfreeInv(s, TrimLfree(l, m2))
<1> DEFINE t == TrimLfree(l, m2)
<1>1. /\ l \in DOMAIN r /\ (l = RamEnd \/ ~r[l].used)
      /\ \A o \in DOMAIN r : ~r[o].used => l <= o
  BY DEF LfreeInv
<1>2. \A o \in DOMAIN r : o \in Nat
  BY OffsetFacts DEF ListInv
<1>3. l \in Nat
  BY <1>1, <1>2
<1>4. t <= l /\ t <= m2 /\ t \in Nat
  BY <1>3 DEF TrimLfree
<1>5. t \in DOMAIN s /\ (t = RamEnd \/ ~s[t].used)
  <2>1. CASE t = l
    BY <2>1, <1>1
  <2>2. CASE t = m2
    BY <2>2
  <2> QED BY <2>1, <2>2 DEF TrimLfree
<1> HIDE DEF t
<1>6. ASSUME NEW o \in DOMAIN s, ~s[o].used PROVE t <= o
  <2>1. CASE o = m2
    BY <2>1, <1>4
  <2>2. CASE o # m2
    <3>1. o \in DOMAIN r /\ ~r[o].used
      BY <2>2, <1>6
    <3>2. l <= o /\ o \in Nat
      BY <3>1, <1>1, <1>2
    <3> QED BY <3>2, <1>3, <1>4
  <2> QED BY <2>1, <2>2
<1>7. LfreeInv(s, t)
  BY <1>5, <1>6 DEF LfreeInv
<1> QED BY <1>7 DEF t

\* The unused struct k of r is at m2 in s.
Moved(r, s, k, m2) ==
    /\ DOMAIN s = (DOMAIN r \ {k}) \cup {m2} /\ ~s[m2].used
    /\ \A o \in DOMAIN r \ {k} : s[o].used = r[o].used

\* It is the lowest unused struct if it was.
LEMMA MoveLfree ==
    ASSUME NEW r, ListInv(r), NEW l, LfreeInv(r, l), NEW m \in DOMAIN r \ {RamEnd},
           ~r[r[m].next].used, NEW m2 \in Nat, m < m2, m2 < r[m].next,
           NEW s, Moved(r, s, r[m].next, m2)
    PROVE  LfreeInv(s, Merged(l, r[m].next, m2))
<1> DEFINE k == r[m].next
           t == Merged(l, k, m2)
<1>0. /\ DOMAIN s = (DOMAIN r \ {k}) \cup {m2} /\ ~s[m2].used
      /\ \A o \in DOMAIN r \ {k} : s[o].used = r[o].used
  BY DEF Moved
<1>1. /\ l \in DOMAIN r /\ (l = RamEnd \/ ~r[l].used)
      /\ \A o \in DOMAIN r : ~r[o].used => l <= o
  BY DEF LfreeInv
<1>2. \A o \in DOMAIN r : o \in Nat /\ (m < o => k <= o)
  BY OffsetFacts DEF ListInv
<1>3. m \in Nat /\ k \in Nat /\ k \in DOMAIN r /\ l \in Nat /\ l <= k
  <2>1. k \in DOMAIN r
    BY NextFacts
  <2> QED BY <2>1, <1>1, <1>2
<1>4. ASSUME NEW o \in DOMAIN s, ~s[o].used, o # m2 PROVE o \in DOMAIN r \ {k} /\ l <= o /\ o \in Nat
  <2>1. o \in DOMAIN r \ {k}
    BY <1>0, <1>4
  <2>2. ~r[o].used
    BY <1>0, <1>4, <2>1
  <2> QED BY <2>1, <2>2, <1>1, <1>2
<1>5. CASE l = k
  <2>1. t = m2
    BY <1>5 DEF Merged
  <2>2. \A o \in DOMAIN s : ~s[o].used => m2 <= o
    <3> SUFFICES ASSUME NEW o \in DOMAIN s, ~s[o].used, o # m2 PROVE m2 <= o
      OBVIOUS
    <3>1. o \in Nat /\ k <= o
      BY <1>4, <1>5
    <3> QED BY <3>1, <1>3
  <2> HIDE DEF t
  <2>3. LfreeInv(s, t)
    BY <1>0, <2>1, <2>2 DEF LfreeInv
  <2> QED BY <2>3 DEF t
<1>6. CASE l # k
  <2>1. t = l
    BY <1>6 DEF Merged
  <2>2. l <= m
    BY <1>1, <1>2, <1>3, <1>6
  <2>3. \A o \in DOMAIN s : ~s[o].used => l <= o
    <3> SUFFICES ASSUME NEW o \in DOMAIN s, ~s[o].used PROVE l <= o
      OBVIOUS
    <3>1. CASE o = m2
      BY <3>1, <2>2, <1>3
    <3>2. CASE o # m2
      BY <3>2, <1>4
    <3> QED BY <3>1, <3>2
  <2>4. l \in DOMAIN s /\ (l = RamEnd \/ ~s[l].used)
    BY <1>0, <1>1, <1>6
  <2> HIDE DEF t
  <2>5. LfreeInv(s, t)
    BY <2>1, <2>3, <2>4 DEF LfreeInv
  <2> QED BY <2>5 DEF t
<1> QED BY <1>5, <1>6

\* mem_trim keeps the heap sound.
LEMMA TrimStep ==
    ASSUME NEW h, HeapInv(h), NEW p \in DOMAIN h.held, NEW n \in 1 .. Width - 1,
           Possible(n), BlockSize(n) <= Room(h.ram, p - SizeofMem)
    PROVE  HeapInv(MemTrim(h, p, n))
<1> DEFINE m == p - SizeofMem
           size == BlockSize(n)
           D == DOMAIN h.ram
           m2 == m + SizeofMem + size
           k == h.ram[m].next
           f == [h.held EXCEPT ![p] = n]
           g == [h EXCEPT !.held[p] = n]
           x == MemTrim(h, p, n)
<1>1. /\ h = [ram |-> h.ram, lfree |-> h.lfree, held |-> h.held, stuck |-> h.stuck]
      /\ h.stuck \in BOOLEAN /\ ListInv(h.ram) /\ NoHoles(h.ram)
      /\ LfreeInv(h.ram, h.lfree) /\ HeldInv(h.ram, h.held)
  BY DEF HeapInv
<1>2. size \in Nat /\ size % 4 = 0 /\ size >= 12 /\ n <= size /\ n \in Nat
  BY BlockFacts
<1>3. p \in Int /\ m \in D \ {RamEnd} /\ h.ram[m].used /\ m \in Int /\ p = m + SizeofMem
  BY <1>1 DEF HeldInv, SizeofMem
<1>4. m \in Nat /\ m < RamEnd /\ k \in D /\ k \in Nat /\ k <= RamEnd /\ m + 24 <= k
  BY <1>1, <1>3, NextFacts
<1>5. m % 4 = 0 /\ k % 4 = 0 /\ k <= MemSize
  BY <1>1, <1>3, <1>4, OffsetFacts DEF ListInv
<1>6. size <= k - (m + 12) /\ Room(h.ram, m) = k - (m + 12)
  BY SMTT(30) DEF Room, SizeofMem
<1>7. m2 \in Nat /\ m2 = m + 12 + size /\ m + 24 <= m2 /\ m2 <= k /\ m2 % 4 = 0 /\ p + n <= m2
  BY <1>2, <1>3, <1>4, <1>5, <1>6 DEF SizeofMem
<1>8. m2 \in Offsets
  BY <1>4, <1>5, <1>7, EndFacts DEF Offsets, Alignment
<1>9. g = [ram |-> h.ram, lfree |-> h.lfree, held |-> f, stuck |-> h.stuck]
  <2> DEFINE y == [h EXCEPT !.held = f]
  <2>1. g = y
    OBVIOUS
  <2> HIDE DEF g, f
  <2>2. y = [ram |-> h.ram, lfree |-> h.lfree, held |-> f, stuck |-> h.stuck]
    BY <1>1
  <2> QED BY <2>1, <2>2
<1>10. x = IF size = Room(h.ram, m) THEN g
           ELSE IF ~h.ram[k].used THEN TrimMove(g, m, m2)
           ELSE IF size + SizeofMem + MinSize <= Room(h.ram, m) THEN TrimSplit(g, h, m, m2)
           ELSE g
  BY DEF MemTrim
<1> HIDE DEF x, g
<1>11. HeldInv(h.ram, f)
  <2>1. p + n <= h.ram[p - SizeofMem].next
    BY <1>2, <1>3, <1>4, <1>7
  <2> QED BY <1>1, <1>2, <2>1, HeldLess
<1> HIDE DEF m, size, m2
<1>12. HeapInv(g)
  <2> HIDE DEF f
  <2> QED BY <1>1, <1>9, <1>11 DEF HeapInv
<1>13. CASE size # Room(h.ram, m) /\ ~h.ram[k].used
  <2>1. m2 < k
    BY <1>2, <1>4, <1>6, <1>7, <1>13
  <2> DEFINE b == Merge(h.ram, m, k)
             s == Split(b, m, m2)
             l == Merged(h.lfree, k, m2)
  <2>2. k # RamEnd
    BY SMTT(30), <1>1, <1>13 DEF ListInv
  <2>3. /\ ListInv(b) /\ NoHoles(b) /\ HeldInv(b, h.held)
        /\ DOMAIN b = D \ {k}
        /\ \A o \in D \ {k} : b[o].used = h.ram[o].used
        /\ b[m].next = h.ram[k].next /\ h.ram[h.ram[k].next].used
        /\ h.ram[k].next \in D \ {k}
    <3>1. Swallowed(h.ram, b, m, k, h.held)
      BY <1>1, <1>3, <1>13, <2>2, SwallowKeeps
    <3> HIDE DEF b
    <3> QED BY Zenon, <3>1 DEF Swallowed
  <2>4. k \in D \ {RamEnd} /\ k + 24 <= h.ram[k].next /\ h.ram[k].next \in Nat
    BY SMTT(30), <1>1, <1>4, <2>2, NextFacts
  <2>5. /\ m \in DOMAIN b \ {RamEnd} /\ b[b[m].next].used /\ b[m].next \in Nat
        /\ m2 + 24 <= b[m].next
    <3>1. m \in DOMAIN b \ {RamEnd} /\ b[m].next = h.ram[k].next
      BY Zenon, <1>3, <1>4, <2>3
    <3>2. b[h.ram[k].next].used
      BY Zenon, <2>3
    <3> HIDE DEF b
    <3>3. m2 + 24 <= h.ram[k].next
      BY <1>4, <1>7, <2>1, <2>4
    <3> QED BY <3>1, <3>2, <3>3, <2>4
  <2> HIDE DEF b
  <2>6. ListInv(s) /\ NoHoles(s) /\ HeldInv(s, f)
    BY Zenon, <1>2, <1>3, <1>7, <1>8, <2>3, <2>5, CutList
  <2>7. /\ DOMAIN s = DOMAIN b \cup {m2} /\ ~s[m2].used
        /\ \A o \in DOMAIN b : s[o].used = b[o].used
    <3>1. SplitOff(b, s, m, m2)
      BY Zenon, <1>4, <1>7, <1>8, <2>3, <2>5, SplitList
    <3> HIDE DEF s
    <3> QED BY <3>1 DEF SplitOff
  <2> HIDE DEF s
  <2>8. LfreeInv(s, l)
    <3>1. /\ DOMAIN s = (D \ {k}) \cup {m2}
          /\ \A o \in D \ {k} : s[o].used = h.ram[o].used
      BY Zenon, <2>3, <2>7
    <3>2. m < m2
      BY SMTT(30), <1>4, <1>7
    <3>3. Moved(h.ram, s, k, m2)
      BY <2>7, <3>1 DEF Moved
    <3> QED BY Zenon, <1>1, <1>3, <1>7, <1>13, <2>1, <3>2, <3>3, MoveLfree
  <2>9. x = [ram |-> s, lfree |-> l, held |-> f, stuck |-> h.stuck]
    <3>1. Split(Forget([h.ram EXCEPT ![m].next = h.ram[k].next], k), m, m2) = s
      <4>1. m < m2
        BY <1>4, <1>7
      <4> QED BY <1>1, <1>3, <1>7, <2>1, <2>2, <4>1, MoveForm DEF s, b
    <3>2. /\ g.ram = h.ram /\ g.lfree = h.lfree /\ g.held = f /\ g.stuck = h.stuck
          /\ g = [ram |-> g.ram, lfree |-> g.lfree, held |-> g.held, stuck |-> g.stuck]
      BY <1>9
    <3>3. x = TrimMove(g, m, m2)
      BY <1>10, <1>13
    <3>4. TrimMove(g, m, m2) = [g EXCEPT !.ram = s, !.lfree = l]
      BY Zenon, <3>1, <3>2 DEF TrimMove
    <3> QED BY Zenon, <3>2, <3>3, <3>4, HeapForm
  <2> HIDE DEF l, f
  <2> QED BY <1>1, <2>6, <2>8, <2>9 DEF HeapInv, x
<1>14. CASE h.ram[k].used /\ size + SizeofMem + MinSize <= Room(h.ram, m)
  <2>1. m2 + 24 <= k
    BY <1>2, <1>4, <1>6, <1>7, <1>14 DEF SizeofMem, MinSize
  <2>2. x = TrimSplit(g, h, m, m2)
    BY <1>2, <1>4, <1>6, <1>10, <1>14 DEF SizeofMem, MinSize
  <2>3. /\ g.ram = h.ram /\ g.lfree = h.lfree /\ g.held = f /\ g.stuck = h.stuck
        /\ g = [ram |-> g.ram, lfree |-> g.lfree, held |-> g.held, stuck |-> g.stuck]
    BY <1>9
  <2>4. CASE k = RamEnd
    <3>1. x = [h EXCEPT !.stuck = TRUE]
      BY <2>2, <2>3, <2>4 DEF TrimSplit
    <3>2. x = [ram |-> h.ram, lfree |-> h.lfree, held |-> h.held, stuck |-> TRUE]
      BY Zenon, <3>1, <1>1
    <3> QED BY <1>1, <3>2 DEF HeapInv, x
  <2>5. CASE k # RamEnd
    <3> DEFINE s == Split(h.ram, m, m2)
               l == TrimLfree(h.lfree, m2)
    <3>1. ListInv(s) /\ NoHoles(s) /\ HeldInv(s, f)
      BY <1>1, <1>2, <1>3, <1>7, <1>8, <1>14, <2>1, CutList
    <3>2. /\ DOMAIN s = D \cup {m2} /\ ~s[m2].used
          /\ \A o \in D : s[o].used = h.ram[o].used
      <4>1. SplitOff(h.ram, s, m, m2)
        BY <1>1, <1>3, <1>4, <1>7, <1>8, <2>1, SplitList
      <4> HIDE DEF s
      <4> QED BY <4>1 DEF SplitOff
    <3>3. x = [g EXCEPT !.ram = s, !.lfree = l]
      BY <2>2, <2>3, <2>5 DEF TrimSplit
    <3> HIDE DEF s
    <3>4. LfreeInv(s, l)
      BY Zenon, <1>1, <1>7, <3>2, CutLfree
    <3>5. x = [ram |-> s, lfree |-> l, held |-> f, stuck |-> h.stuck]
      BY Zenon, <2>3, <3>3, HeapForm
    <3> HIDE DEF l, f
    <3> QED BY <1>1, <3>1, <3>4, <3>5 DEF HeapInv, x
  <2> QED BY <2>4, <2>5
<1>15. CASE /\ ~(size # Room(h.ram, m) /\ ~h.ram[k].used)
            /\ ~(h.ram[k].used /\ size + SizeofMem + MinSize <= Room(h.ram, m))
  <2>1. x = g
    BY <1>10, <1>15
  <2> QED BY <1>12, <2>1 DEF x
<1> QED BY <1>13, <1>14, <1>15

\* mem_init makes a heap of one unused struct.
LEMMA HeapInit == MemInit => HeapInv(heap)
<1> SUFFICES ASSUME MemInit PROVE HeapInv(heap)
  OBVIOUS
<1> DEFINE r == [o \in {0, RamEnd} |-> [next |-> RamEnd, prev |-> o, used |-> o = RamEnd]]
<1>1. heap = [ram |-> r, lfree |-> 0, held |-> <<>>, stuck |-> FALSE]
  BY DEF MemInit
<1>2. RamEnd \in Nat /\ RamEnd = MemSize /\ MemSize % 4 = 0 /\ MemSize > 24
  BY EndFacts
<1>3. DOMAIN r = {0, RamEnd} /\ 0 # RamEnd
  BY <1>2
<1>4. r[0] = [next |-> RamEnd, prev |-> 0, used |-> FALSE]
  <2>1. r[0] = [next |-> RamEnd, prev |-> 0, used |-> 0 = RamEnd]
    OBVIOUS
  <2>2. (0 = RamEnd) = FALSE
    BY <1>2
  <2> QED BY Zenon, <2>1, <2>2
<1>5. r[RamEnd] = [next |-> RamEnd, prev |-> RamEnd, used |-> TRUE]
  <2>1. r[RamEnd] = [next |-> RamEnd, prev |-> RamEnd, used |-> RamEnd = RamEnd]
    OBVIOUS
  <2>2. (RamEnd = RamEnd) = TRUE
    OBVIOUS
  <2> QED BY Zenon, <2>1, <2>2
<1>6. r \in [DOMAIN r -> Struct]
  <2>1. \A o \in {0, RamEnd} : [next |-> RamEnd, prev |-> o, used |-> o = RamEnd] \in Struct
    BY <1>2 DEF Struct
  <2> QED BY <2>1
<1> HIDE DEF r
<1>7. ListInv(r)
  <2>1. DOMAIN r \subseteq Offsets
    BY <1>2, <1>3 DEF Offsets, Alignment
  <2>2. \A m \in DOMAIN r \ {RamEnd} :
          /\ r[m].next \in DOMAIN r /\ m + SizeofMem + MinSize <= r[m].next
          /\ r[m].next = RamEnd \/ r[r[m].next].prev = m
    BY <1>2, <1>3, <1>4 DEF SizeofMem, MinSize
  <2>3. \A m, o \in DOMAIN r : m < o => r[m].next <= o
    BY <1>2, <1>3, <1>4, <1>5
  <2> QED BY <1>3, <1>4, <1>5, <1>6, <2>1, <2>2, <2>3 DEF ListInv
<1>8. NoHoles(r)
  BY <1>3, <1>4, <1>5 DEF NoHoles
<1>9. LfreeInv(r, 0)
  BY <1>2, <1>3, <1>4, <1>5 DEF LfreeInv
<1>10. HeldInv(r, <<>>)
  BY <1>3, <1>4 DEF HeldInv
<1> QED BY <1>1, <1>7, <1>8, <1>9, <1>10 DEF HeapInv

\* Every call keeps it.
LEMMA HeapStep == HeapInv(heap) /\ [MemNext]_heap => HeapInv(heap)'
<1> SUFFICES ASSUME HeapInv(heap), [MemNext]_heap PROVE HeapInv(heap')
  OBVIOUS
<1>1. ASSUME NEW n \in 1 .. (Width - 1), Malloc(n) PROVE HeapInv(heap')
  BY <1>1, MallocStep DEF Malloc
<1>2. ASSUME NEW p \in DOMAIN held, FreeBlock(p) PROVE HeapInv(heap')
  BY <1>2, FreeStep DEF FreeBlock, held
<1>3. ASSUME NEW p \in DOMAIN held, NEW n \in 1 .. (Width - 1), Trim(p, n) PROVE HeapInv(heap')
  BY <1>3, TrimStep DEF Trim, held, ram
<1>4. CASE UNCHANGED heap
  BY <1>4
<1> QED BY <1>1, <1>2, <1>3, <1>4 DEF MemNext

\* What the blocks of the callers are.
LEMMA BlockOf ==
    ASSUME NEW h, HeapInv(h), NEW p \in DOMAIN h.held
    PROVE  /\ p \in Nat /\ h.held[p] \in Nat /\ p - 12 \in DOMAIN h.ram \ {RamEnd}
           /\ p - 12 \in Nat /\ h.ram[p - 12].used
           /\ h.ram[p - 12].next \in Nat /\ h.ram[p - 12].next <= RamEnd
           /\ p + 12 <= h.ram[p - 12].next /\ p + h.held[p] <= h.ram[p - 12].next
<1>1. ListInv(h.ram) /\ HeldInv(h.ram, h.held)
  BY DEF HeapInv
<1>2. p \in Int /\ h.held[p] \in Nat /\ p - 12 \in DOMAIN h.ram \ {RamEnd} /\ h.ram[p - 12].used
      /\ p + h.held[p] <= h.ram[p - 12].next
  BY <1>1 DEF HeldInv, SizeofMem
<1> DEFINE m == p - 12
<1>3. m \in DOMAIN h.ram \ {RamEnd} /\ p = m + 12
  BY <1>2
<1> HIDE DEF m
<1>4. m \in Nat /\ m + 24 <= h.ram[m].next /\ h.ram[m].next \in Nat /\ h.ram[m].next <= RamEnd
  BY <1>1, <1>3, NextFacts
<1>5. m + 12 <= h.ram[m].next /\ p \in Nat /\ p + 12 <= h.ram[m].next
  BY <1>3, <1>4
<1> QED BY <1>2, <1>4, <1>5 DEF m

LEMMA HeapTypes == HeapInv(heap) => HeapTypeOK
<1> SUFFICES ASSUME HeapInv(heap) PROVE HeapTypeOK
  OBVIOUS
<1>1. ListInv(ram) /\ LfreeInv(ram, lfree) /\ heap.stuck \in BOOLEAN
  BY DEF HeapInv, ram, lfree
<1>2. DOMAIN ram \subseteq Offsets /\ {0, RamEnd} \subseteq DOMAIN ram
      /\ \A m \in DOMAIN ram : ram[m] \in Struct
  BY <1>1 DEF ListInv
<1>3. ASSUME NEW m \in DOMAIN ram
      PROVE  ram[m] \in [next : DOMAIN ram, prev : DOMAIN ram, used : BOOLEAN]
  <2>1. ram[m].next \in DOMAIN ram /\ ram[m].prev \in DOMAIN ram
    <3>1. CASE m = RamEnd
      BY <1>1, <1>2, <3>1 DEF ListInv
    <3>2. CASE m # RamEnd /\ m = 0
      BY <1>1, <1>2, <3>2, NextFacts DEF ListInv
    <3>3. CASE m # RamEnd /\ m # 0
      BY <1>1, <1>2, <3>3, NextFacts, PrevFacts
    <3> QED BY <3>1, <3>2, <3>3
  <2> QED BY <1>2, <2>1 DEF Struct
<1>4. lfree \in DOMAIN ram /\ (lfree = RamEnd \/ ~ram[lfree].used)
  BY <1>1 DEF LfreeInv
<1>5. DOMAIN held \subseteq Offsets
  <2> SUFFICES ASSUME NEW p \in DOMAIN heap.held PROVE p \in Offsets
    BY DEF held
  <2>1. p \in Nat /\ p - 12 \in DOMAIN heap.ram /\ p - 12 \in Nat
        /\ heap.ram[p - 12].next \in Nat /\ heap.ram[p - 12].next <= RamEnd
        /\ p + 12 <= heap.ram[p - 12].next
    BY BlockOf
  <2>2. (p - 12) % 4 = 0
    BY <1>2, <2>1, OffsetFacts DEF ram
  <2> QED BY <2>1, <2>2, EndFacts DEF Offsets, Alignment
<1> QED BY <1>1, <1>2, <1>3, <1>4, <1>5 DEF HeapTypeOK

LEMMA HeapSane == HeapInv(heap) => Sane
<1> SUFFICES ASSUME HeapInv(heap) PROVE Sane
  OBVIOUS
<1>1. ListInv(ram) /\ NoHoles(ram)
  BY DEF HeapInv, ram
<1>2. \A o \in DOMAIN ram : o \in Nat /\ o <= MemSize
  BY <1>1, OffsetFacts DEF ListInv
<1>3. ASSUME NEW m \in DOMAIN ram \ {RamEnd}
      PROVE  /\ ram[m].next >= m + SizeofMem + MinSize /\ LinkValid(ram, m)
             /\ ~\E o \in DOMAIN ram : m < o /\ o < ram[m].next
             /\ ram[m].used \/ ram[ram[m].next].used
  <2>1. /\ m \in Nat /\ ram[m].next \in DOMAIN ram /\ ram[m].next \in Nat /\ m + 24 <= ram[m].next
        /\ ram[m].next = RamEnd \/ ram[ram[m].next].prev = m
    BY <1>1, NextFacts
  <2>2. ram[m].prev \in DOMAIN ram /\ (ram[m].prev = m \/ ram[ram[m].prev].next = m)
    <3>1. CASE m = 0
      BY <1>1, <3>1 DEF ListInv
    <3>2. CASE m # 0
      BY <1>1, <3>2, PrevFacts
    <3> QED BY <3>1, <3>2
  <2>3. LinkValid(ram, m)
    BY <1>2, <2>1, <2>2 DEF LinkValid
  <2>4. \A o \in DOMAIN ram : m < o => ram[m].next <= o
    BY <1>1 DEF ListInv
  <2>5. ~\E o \in DOMAIN ram : m < o /\ o < ram[m].next
    BY <1>2, <2>1, <2>4
  <2>6. ram[m].used \/ ram[ram[m].next].used
    BY <1>1 DEF NoHoles
  <2> QED BY <2>1, <2>3, <2>5, <2>6 DEF SizeofMem, MinSize
<1>4. ram[0].prev = 0 /\ ram[RamEnd] = [next |-> RamEnd, prev |-> RamEnd, used |-> TRUE]
  BY <1>1 DEF ListInv
<1> QED BY <1>3, <1>4 DEF Sane

LEMMA HeapApart == HeapInv(heap) => BlocksApart
<1> SUFFICES ASSUME HeapInv(heap), NEW p \in DOMAIN heap.held
             PROVE  /\ p >= 12 /\ p + heap.held[p] <= RamEnd
                    /\ \A m \in DOMAIN heap.ram : m + 12 <= p \/ p + heap.held[p] <= m
                    /\ \A q \in DOMAIN heap.held \ {p} :
                          q + heap.held[q] <= p \/ p + heap.held[p] <= q
  BY DEF BlocksApart, held, ram, SizeofMem
<1>1. \A m, o \in DOMAIN heap.ram : m \in Nat /\ (m < o => heap.ram[m].next <= o)
  BY OffsetFacts DEF HeapInv, ListInv
<1>2. \A q \in DOMAIN heap.held :
         /\ q \in Nat /\ heap.held[q] \in Nat /\ q - 12 \in DOMAIN heap.ram /\ q - 12 \in Nat
         /\ heap.ram[q - 12].next \in Nat /\ heap.ram[q - 12].next <= RamEnd
         /\ q + heap.held[q] <= heap.ram[q - 12].next
  BY BlockOf
<1>3. p \in Nat /\ heap.held[p] \in Nat /\ p - 12 \in DOMAIN heap.ram /\ p - 12 \in Nat
      /\ heap.ram[p - 12].next \in Nat /\ heap.ram[p - 12].next <= RamEnd
      /\ p + heap.held[p] <= heap.ram[p - 12].next
  BY <1>2
<1>4. p >= 12 /\ p + heap.held[p] <= RamEnd
  BY <1>3, EndFacts
<1>5. ASSUME NEW m \in DOMAIN heap.ram PROVE m + 12 <= p \/ p + heap.held[p] <= m
  <2>1. m \in Nat /\ (p - 12 < m => heap.ram[p - 12].next <= m)
    BY <1>1, <1>3
  <2> QED BY <2>1, <1>3
<1>6. ASSUME NEW q \in DOMAIN heap.held \ {p}
      PROVE  q + heap.held[q] <= p \/ p + heap.held[p] <= q
  <2>1. q \in Nat /\ heap.held[q] \in Nat /\ q - 12 \in DOMAIN heap.ram /\ q - 12 \in Nat
        /\ heap.ram[q - 12].next \in Nat /\ q + heap.held[q] <= heap.ram[q - 12].next
    BY <1>2
  <2>2. /\ p - 12 < q - 12 => heap.ram[p - 12].next <= q - 12
        /\ q - 12 < p - 12 => heap.ram[q - 12].next <= p - 12
    BY <1>1, <1>3, <2>1
  <2> QED BY <2>1, <2>2, <1>3
<1> QED BY <1>4, <1>5, <1>6

LEMMA HeapLeaks == HeapInv(heap) => NothingLeaks
<1> SUFFICES ASSUME HeapInv(heap) PROVE NothingLeaks
  OBVIOUS
<1>1. \A m \in DOMAIN ram \ {RamEnd} : ram[m].used => m + SizeofMem \in DOMAIN held
  BY DEF HeapInv, HeldInv, ram, held
<1>2. ASSUME NEW p \in DOMAIN held
      PROVE  \E m \in {o \in DOMAIN ram \ {RamEnd} : ram[o].used} : p = m + SizeofMem
  <2>1. p \in Nat /\ p - 12 \in DOMAIN ram \ {RamEnd} /\ ram[p - 12].used
    BY BlockOf DEF held, ram
  <2>2. p = (p - 12) + SizeofMem
    BY <2>1 DEF SizeofMem
  <2> QED BY <2>1, <2>2
<1> QED BY Zenon, <1>1, <1>2 DEF NothingLeaks

LEMMA HeapServes == HeapInv(heap) => RefusesOnlyIfFull
<1> SUFFICES ASSUME HeapInv(heap), NEW n \in Sizes, Possible(n),
                    NEW m \in DOMAIN ram \ {RamEnd}, Fits(ram, m, BlockSize(n))
             PROVE  Found(heap, n) # Null
  BY DEF RefusesOnlyIfFull
<1> DEFINE S == {o \in DOMAIN heap.ram : /\ heap.lfree <= o /\ o < MemSize - BlockSize(n)
                                         /\ Fits(heap.ram, o, BlockSize(n))}
<1>1. Found(heap, n) = IF S = {} THEN Null ELSE Lowest(S)
  BY DEF Found, FirstFit
<1>2. ListInv(ram) /\ LfreeInv(ram, lfree)
  BY DEF HeapInv, ram, lfree
<1>3. n \in 1 .. (Width - 1)
  BY MemAssumption
<1>4. BlockSize(n) \in Nat
  BY <1>3, BlockFacts
<1>5. ~ram[m].used /\ ram[m].next - (m + 12) >= BlockSize(n)
  BY DEF Fits, Room, SizeofMem
<1>6. m \in Nat /\ ram[m].next \in Nat /\ ram[m].next <= RamEnd
  BY <1>2, NextFacts
<1>7. m < MemSize - BlockSize(n)
  BY <1>4, <1>5, <1>6, EndFacts
<1>8. lfree <= m
  BY <1>2, <1>5 DEF LfreeInv
<1>9. m \in S
  BY <1>7, <1>8 DEF ram, lfree
<1>10. S \in SUBSET (0 .. MemSize)
  <2>1. DOMAIN heap.ram \subseteq 0 .. MemSize
    BY <1>2 DEF ListInv, Offsets, ram
  <2> QED BY SMTT(30), <2>1
<1> HIDE DEF S
<1>11. Lowest(S) \in S
  BY <1>9, <1>10, LowestFacts
<1> QED BY <1>1, <1>9, <1>10, <1>11, EndFacts DEF Null

\* The inductive invariant of the heap.
THEOREM HeapInvariant == MemSpec => []HeapInv(heap)
<1>1. MemInit => HeapInv(heap)
  BY HeapInit
<1>2. HeapInv(heap) /\ [MemNext]_heap => HeapInv(heap)'
  BY HeapStep
<1> QED BY <1>1, <1>2, PTL DEF MemSpec

\* mem_malloc, mem_free and mem_trim keep the heap whole: mem_sanity finds
\* nothing, the blocks of the callers do not overlap, and nothing leaks.
THEOREM HeapKept == MemSpec => []HeapSound
<1>1. HeapInv(heap) => HeapSound
  BY HeapTypes, HeapSane, HeapApart, HeapLeaks DEF HeapSound
<1> QED BY <1>1, HeapInvariant, PTL

\* mem_malloc never refuses a size that an unused struct can hold.
THEOREM HeapServed == MemSpec => []RefusesOnlyIfFull
<1>1. HeapInv(heap) => RefusesOnlyIfFull
  BY HeapServes
<1> QED BY <1>1, HeapInvariant, PTL
=============================================================================
