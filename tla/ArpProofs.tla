----------------------------- MODULE ArpProofs -----------------------------
(***************************************************************************)
(* For every number of hosts and frame buffers, and for all sizes of the   *)
(* cache and of the queue as long as the queue is not the longer one: no   *)
(* packet is stranded in the queue of arp.c, every frame buffer has one    *)
(* owner, and every packet leaves for the MAC of its first hop.            *)
(*                                                                         *)
(* The invariant ties the two arrays together in both directions: a        *)
(* waiting packet has a request, and a request has a waiting packet.  The  *)
(* second direction is what keeps the last resort of arp_set_mac_request   *)
(* from being taken: if every cache entry were a request, then CacheMax    *)
(* packets for different addresses would wait in a queue with a free slot  *)
(* and at most CacheMax slots.                                             *)
(***************************************************************************)
EXTENDS Arp, FiniteSetTheorems, TLAPS

\* A nonempty set of numbers has a least one.
LEMMA LeastExists ==
    ASSUME NEW S \in SUBSET Nat, S # {}
    PROVE  \E i \in S : \A j \in S : i <= j
<1> DEFINE R == OpToRel(<, Nat)
<1>1. IsWellFoundedOn(R, Nat)
  BY NatLessThanWellFounded, Zenon
<1>2. \A i, j \in S : j < i => <<j, i>> \in R
  BY DEF OpToRel
<1> HIDE DEF R
<1>3. PICK i \in S : \A j \in S : ~ (<<j, i>> \in R)
  BY <1>1, WFMin, Zenon
<1>4. \A j \in S : i \in Nat /\ j \in Nat /\ ~ (j < i)
  BY Zenon, <1>2, <1>3
<1>5. \A j \in S : i <= j
  BY <1>4
<1> QED BY <1>5

LEMMA FirstIsMember ==
    ASSUME NEW n \in Nat, NEW S \in SUBSET (1 .. n), S # {}
    PROVE  First(S) \in S
<1>1. S \in SUBSET Nat
  OBVIOUS
<1>2. \E i \in S : \A j \in S : i <= j
  BY <1>1, LeastExists
<1>3. QED
  BY Zenon, <1>2 DEF First

\* What arp_get_cache_entry changes: ages only.
LEMMA AgedFacts ==
    ASSUME NEW c \in [Entries -> Entry], NEW ip
    PROVE  /\ Aged(c, ip) \in [Entries -> Entry]
           /\ \A i \in Entries : /\ Aged(c, ip)[i].state = c[i].state
                               /\ Aged(c, ip)[i].ip = c[i].ip
                               /\ Aged(c, ip)[i].mac = c[i].mac
<1> SUFFICES ASSUME NEW i \in Entries
             PROVE  /\ Aged(c, ip)[i] \in Entry
                    /\ Aged(c, ip)[i].state = c[i].state
                    /\ Aged(c, ip)[i].ip = c[i].ip
                    /\ Aged(c, ip)[i].mac = c[i].mac
  BY DEF Aged
<1>1. c[i] \in Entry
  OBVIOUS
<1>2. CASE Aged(c, ip)[i] = c[i]
  BY <1>1, <1>2
<1>3. CASE Aged(c, ip)[i] = [c[i] EXCEPT !.age = 0]
  BY <1>1, <1>3, SizesAssumption DEF Entry
<1>4. CASE c[i].age < MaxAge /\ Aged(c, ip)[i] = [c[i] EXCEPT !.age = @ + 1]
  BY <1>1, <1>4, SizesAssumption DEF Entry
<1>5. QED
  BY <1>2, <1>3, <1>4 DEF Aged

\* The entry that arp_set_mac_request takes is no request, unless all are.
LEMMA VictimFacts ==
    ASSUME NEW c \in [Entries -> Entry]
    PROVE  /\ Victim(c) \in Entries
           /\ (\E i \in Entries : c[i].state # "Requesting") => c[Victim(c)].state # "Requesting"
<1> DEFINE U == InState(c, "Unused")
           V == InState(c, "Valid")
<1>1. U \in SUBSET (1 .. CacheMax) /\ V \in SUBSET (1 .. CacheMax) /\ CacheMax \in Nat
  BY SizesAssumption DEF InState, Entries
<1>2. CASE U # {}
  <2>1. First(U) \in U
    BY Zenon, <1>1, <1>2, FirstIsMember
  <2>2. QED
    BY <1>2, <2>1 DEF Victim, InState
<1>3. CASE U = {} /\ V # {}
  <2> DEFINE A == {MaxAge - c[i].age : i \in V}
  <2>1. \A i \in V : c[i].age \in 0 .. MaxAge
    BY DEF InState, Entry
  <2>2. A \in SUBSET Nat /\ A # {}
    BY <1>3, <2>1, SizesAssumption
  <2>3. PICK a \in A : \A b \in A : a <= b
    <3> HIDE DEF A
    <3> QED
      BY <2>2, LeastExists
  <2>4. PICK i \in V : a = MaxAge - c[i].age
    OBVIOUS
  <2>5. \A j \in V : MaxAge - c[i].age <= MaxAge - c[j].age
    BY <2>3, <2>4
  <2>6. \A j \in V : c[j].age <= c[i].age
    BY <2>1, <2>5, SizesAssumption
  <2>7. Oldest(c, V) # {} /\ Oldest(c, V) \in SUBSET (1 .. CacheMax) /\ Oldest(c, V) \subseteq V
    BY <1>1, <2>6 DEF Oldest
  <2>8. First(Oldest(c, V)) \in V
    BY Zenon, <1>1, <2>7, FirstIsMember
  <2>9. QED
    BY <1>3, <2>8 DEF Victim, InState
<1>4. CASE U = {} /\ V = {}
  <2>1. Victim(c) = 1 /\ 1 \in Entries
    BY <1>4, SizesAssumption DEF Victim, Entries
  <2>2. \A i \in Entries : c[i].state = "Requesting"
    BY <1>4 DEF InState, Entry
  <2>3. QED
    BY <2>1, <2>2
<1>5. QED
  BY <1>2, <1>3, <1>4

----------------------------------------------------------------------------
Used(i) == cache[i].state # "Unused"

\* No address has two entries, and a valid entry has the MAC of its address.
EntriesSound ==
  /\ \A i \in Entries : Used(i) => cache[i].ip \in Hosts
  /\ \A i, j \in Entries : Used(i) /\ Used(j) /\ cache[i].ip = cache[j].ip => i = j
  /\ \A i \in Entries : cache[i].state = "Valid" => cache[i].mac = cache[i].ip

\* A free slot has no address, a slot in use that of the first hop.
SlotsSound ==
  \A s \in Slots : /\ queue[s].frame = None => queue[s].ip = None
                   /\ queue[s].frame # None => /\ queue[s].dst \in Destinations \ {Broadcast}
                                               /\ queue[s].ip = Route(queue[s].dst)
                                               /\ queue[s].ip \in Hosts

\* Every request was made for a packet, and the packet still waits.
RequestsHavePackets ==
  \A i \in Entries : cache[i].state = "Requesting" =>
    \E s \in Slots : queue[s].frame # None /\ queue[s].ip = cache[i].ip

IInv ==
  /\ TypeOK
  /\ EntriesSound
  /\ SlotsSound
  /\ NoPacketStranded
  /\ RequestsHavePackets
  /\ FramesAccounted
  /\ SentToFirstHop

\* The last resort of arp_set_mac_request is not needed while the queue has
\* a free slot.
LEMMA NotAllRequests ==
    ASSUME IInv, FreeSlots(queue) # {}
    PROVE  \E i \in Entries : cache[i].state # "Requesting"
<1> SUFFICES ASSUME \A i \in Entries : cache[i].state = "Requesting"
             PROVE  FALSE
  OBVIOUS
<1>1. PICK free \in Slots : queue[free].frame = None
  BY DEF FreeSlots
<1> DEFINE Busy == Slots \ {free}
           w == [i \in Entries |->
                   CHOOSE s \in Slots : queue[s].frame # None /\ queue[s].ip = cache[i].ip]
<1>2. \A i \in Entries : \E s \in Slots : queue[s].frame # None /\ queue[s].ip = cache[i].ip
  BY DEF IInv, RequestsHavePackets
<1>3. \A i \in Entries : w[i] \in Slots /\ queue[w[i]].frame # None /\ queue[w[i]].ip = cache[i].ip
  BY <1>2
<1>4. w \in [Entries -> Busy]
  BY <1>1, <1>3
<1>5. IsFiniteSet(Entries) /\ Cardinality(Entries) = CacheMax
  BY FS_Interval, SizesAssumption DEF Entries
<1>6. IsFiniteSet(Slots) /\ Cardinality(Slots) = QueueMax
  BY FS_Interval, SizesAssumption DEF Slots
<1>7. IsFiniteSet(Busy) /\ Cardinality(Busy) = QueueMax - 1
  BY <1>6, FS_RemoveElement
<1>8. PICK i, j \in Entries : i # j /\ w[i] = w[j]
  <2>1. Cardinality(Busy) < Cardinality(Entries)
    BY <1>5, <1>7, SizesAssumption
  <2> HIDE DEF w, Busy
  <2>2. QED
    BY <1>4, <1>5, <1>7, <2>1, FS_PigeonHole
<1>9. cache[i].ip = cache[j].ip
  BY <1>3, <1>8
<1>10. QED
  BY <1>8, <1>9 DEF IInv, EntriesSound, Used
----------------------------------------------------------------------------
LEMMA RouteIsHost == \A d \in Destinations \ {Broadcast} : Route(d) \in Hosts
BY AddressAssumption DEF Destinations, Route

\* The entry that arp_get_cache_entry finds is the only one of the address.
LEMMA HitFacts ==
    ASSUME IInv, NEW ip, Known(cache, ip) # {}
    PROVE  /\ First(Known(cache, ip)) \in Entries
           /\ Used(First(Known(cache, ip)))
           /\ cache[First(Known(cache, ip))].ip = ip
           /\ \A j \in Entries : Used(j) /\ cache[j].ip = ip => j = First(Known(cache, ip))
<1>1. Known(cache, ip) \in SUBSET (1 .. CacheMax) /\ CacheMax \in Nat
  BY SizesAssumption DEF Known, Entries
<1>2. First(Known(cache, ip)) \in Known(cache, ip)
  BY Zenon, <1>1, FirstIsMember
<1>3. QED
  BY Zenon, <1>2 DEF Known, Used, IInv, EntriesSound

LEMMA FreeSlotFacts ==
    ASSUME FreeSlots(queue) # {}
    PROVE  First(FreeSlots(queue)) \in Slots /\ queue[First(FreeSlots(queue))].frame = None
<1>1. FreeSlots(queue) \in SUBSET (1 .. QueueMax) /\ QueueMax \in Nat
  BY SizesAssumption DEF FreeSlots, Slots
<1>2. First(FreeSlots(queue)) \in FreeSlots(queue)
  BY Zenon, <1>1, FirstIsMember
<1>3. QED
  BY <1>2 DEF FreeSlots

THEOREM InitIInv == Init => IInv
<1> SUFFICES ASSUME Init PROVE IInv
  OBVIOUS
<1> USE SizesAssumption, AddressAssumption
<1>1. TypeOK
  BY DEF Init, TypeOK, Unused, NoSlot, Entry, Slot, Owner
<1>2. EntriesSound /\ RequestsHavePackets
  BY DEF Init, EntriesSound, RequestsHavePackets, Used, Unused
<1>3. SlotsSound /\ NoPacketStranded /\ FramesAccounted /\ SentToFirstHop
  BY DEF Init, SlotsSound, NoPacketStranded, FramesAccounted, SentToFirstHop, NoSlot
<1>4. QED
  BY <1>1, <1>2, <1>3 DEF IInv

LEMMA DirectStep ==
    ASSUME IInv, NEW f \in Frames, NEW d \in Destinations, frames[f] = "empty", SendDirect(f, d)
    PROVE  IInv'
<1> USE DEF SendDirect, Transmit, IInv
<1>1. TypeOK'
  BY DEF TypeOK, Owner, Destinations
<1>2. EntriesSound' /\ SlotsSound' /\ NoPacketStranded' /\ RequestsHavePackets'
  BY DEF EntriesSound, SlotsSound, NoPacketStranded, RequestsHavePackets, Used
<1>3. FramesAccounted'
  BY DEF FramesAccounted, TypeOK
<1>4. SentToFirstHop'
  BY AddressAssumption DEF SentToFirstHop
<1>5. QED
  BY <1>1, <1>2, <1>3, <1>4

LEMMA KnownStep ==
    ASSUME IInv, NEW f \in Frames, NEW d \in Destinations, frames[f] = "empty", SendKnown(f, d)
    PROVE  IInv'
<1> DEFINE ip == Route(d)
           k == First(Known(cache, ip))
<1>1. d # Broadcast /\ Known(cache, ip) # {} /\ cache[k].state = "Valid"
  BY DEF SendKnown
<1>2. cache' = Aged(cache, ip) /\ queue' = queue
      /\ frames' = [frames EXCEPT ![f] = "driver"] /\ wire' = {<<d, cache[k].mac>>}
  BY DEF SendKnown, Transmit
<1>3. k \in Entries /\ cache[k].mac = ip /\ ip \in Hosts
  BY <1>1, HitFacts, RouteIsHost DEF IInv, EntriesSound
<1>4. /\ cache' \in [Entries -> Entry]
      /\ \A i \in Entries : /\ cache'[i].state = cache[i].state
                          /\ cache'[i].ip = cache[i].ip
                          /\ cache'[i].mac = cache[i].mac
  BY <1>2, AgedFacts DEF IInv, TypeOK
<1> HIDE DEF ip, k
<1>5. TypeOK'
  BY <1>2, <1>3, <1>4 DEF IInv, TypeOK, Owner
<1>6. EntriesSound' /\ SlotsSound' /\ NoPacketStranded' /\ RequestsHavePackets'
  BY <1>2, <1>4 DEF IInv, EntriesSound, SlotsSound, NoPacketStranded, RequestsHavePackets, Used
<1>7. FramesAccounted'
  BY <1>2 DEF IInv, FramesAccounted, TypeOK
<1>8. SentToFirstHop'
  BY <1>2, <1>3 DEF SentToFirstHop, ip, Route
<1>9. QED
  BY <1>5, <1>6, <1>7, <1>8 DEF IInv

\* arp_add_waiting_packet fills one free slot.
LEMMA AddWaitingFacts ==
    ASSUME IInv, FreeSlots(queue) # {}, NEW f \in Frames, NEW d \in Destinations \ {Broadcast}
    PROVE  /\ AddWaiting(queue, f, Route(d), d) \in [Slots -> Slot]
           /\ \E k \in Slots :
                /\ queue[k].frame = None
                /\ AddWaiting(queue, f, Route(d), d)[k] = [frame |-> f, ip |-> Route(d), dst |-> d]
                /\ \A s \in Slots \ {k} : AddWaiting(queue, f, Route(d), d)[s] = queue[s]
<1> DEFINE k == First(FreeSlots(queue))
           new == [frame |-> f, ip |-> Route(d), dst |-> d]
<1>1. k \in Slots /\ queue[k].frame = None
  BY FreeSlotFacts
<1>2. new \in Slot
  BY RouteIsHost DEF Slot
<1>3. queue \in [Slots -> Slot]
  BY DEF IInv, TypeOK
<1>4. AddWaiting(queue, f, Route(d), d) = [queue EXCEPT ![k] = new]
  BY DEF AddWaiting
<1> HIDE DEF k, new
<1>5. /\ [queue EXCEPT ![k] = new] \in [Slots -> Slot]
      /\ [queue EXCEPT ![k] = new][k] = new
      /\ \A s \in Slots \ {k} : [queue EXCEPT ![k] = new][s] = queue[s]
  BY <1>1, <1>2, <1>3
<1>6. QED
  BY <1>1, <1>4, <1>5 DEF new

\* What a step that queues the packet keeps of the invariants about the queue.
LEMMA QueuedFacts ==
    ASSUME IInv, FreeSlots(queue) # {}, NEW f \in Frames, NEW d \in Destinations \ {Broadcast},
           frames[f] = "empty", queue' = AddWaiting(queue, f, Route(d), d),
           frames' \in [Frames -> Owner], frames'[f] = "queue",
           \A g \in Frames \ {f} : frames'[g] = "queue" <=> frames[g] = "queue"
    PROVE  /\ SlotsSound' /\ FramesAccounted' /\ queue' \in [Slots -> Slot]
           /\ \E s \in Slots : queue'[s].frame # None /\ queue'[s].ip = Route(d)
           /\ \A s \in Slots : queue'[s].frame # None =>
                queue'[s].ip = Route(d) \/ (queue[s].frame # None /\ queue[s].ip = queue'[s].ip)
           /\ \A s \in Slots : queue[s].frame # None =>
                queue'[s].frame # None /\ queue'[s].ip = queue[s].ip
<1>1. PICK k \in Slots :
         /\ queue[k].frame = None
         /\ queue'[k] = [frame |-> f, ip |-> Route(d), dst |-> d]
         /\ \A s \in Slots \ {k} : queue'[s] = queue[s]
  BY AddWaitingFacts
<1>2. queue' \in [Slots -> Slot]
  BY Zenon, AddWaitingFacts
<1>3. /\ queue'[k].frame = f /\ queue'[k].ip = Route(d) /\ queue'[k].dst = d
      /\ f # None /\ Route(d) \in Hosts
  BY <1>1, RouteIsHost, AddressAssumption
<1>4. SlotsSound'
  BY <1>1, <1>3 DEF IInv, SlotsSound
<1>5. \A s \in Slots : queue[s].frame # f
  BY DEF IInv, FramesAccounted
<1>6. FramesAccounted'
  <2>1. \A s, t \in Slots : queue'[s].frame = queue'[t].frame /\ queue'[s].frame # None => s = t
    BY <1>1, <1>3, <1>5 DEF IInv, FramesAccounted
  <2>2. \A g \in Frames : frames'[g] = "queue" <=> \E s \in Slots : queue'[s].frame = g
    <3> SUFFICES ASSUME NEW g \in Frames
                 PROVE  frames'[g] = "queue" <=> \E s \in Slots : queue'[s].frame = g
      OBVIOUS
    <3>1. CASE g = f
      BY <1>3, <3>1
    <3>2. CASE g # f
      <4>1. (\E s \in Slots : queue'[s].frame = g) <=> (\E s \in Slots : queue[s].frame = g)
        BY <1>1, <1>3, <3>2, AddressAssumption
      <4>2. QED
        BY <3>2, <4>1 DEF IInv, FramesAccounted
    <3>3. QED
      BY <3>1, <3>2
  <2>3. QED
    BY <2>1, <2>2 DEF FramesAccounted
<1>7. QED
  BY <1>1, <1>2, <1>3, <1>4, <1>6

\* A frame that is lost, or handed to the driver, was not in the queue.
LEMMA NotQueuedFacts ==
    ASSUME IInv, queue' = queue, frames' \in [Frames -> Owner],
           \A g \in Frames : frames'[g] = "queue" <=> frames[g] = "queue"
    PROVE  FramesAccounted' /\ SlotsSound'
BY DEF IInv, FramesAccounted, SlotsSound

LEMMA AskedStep ==
    ASSUME IInv, NEW f \in Frames, NEW d \in Destinations, frames[f] = "empty", SendAsked(f, d)
    PROVE  IInv'
<1> DEFINE ip == Route(d)
           k == First(Known(cache, ip))
<1>1. d \in Destinations \ {Broadcast} /\ Known(cache, ip) # {} /\ cache[k].state = "Requesting"
  BY DEF SendAsked
<1>2. cache' = Aged(cache, ip) /\ wire' = {}
  BY DEF SendAsked
<1>3. k \in Entries /\ cache[k].ip = ip
  BY <1>1, HitFacts
<1>4. /\ cache' \in [Entries -> Entry]
      /\ \A i \in Entries : /\ cache'[i].state = cache[i].state
                          /\ cache'[i].ip = cache[i].ip
                          /\ cache'[i].mac = cache[i].mac
  BY <1>2, AgedFacts DEF IInv, TypeOK
<1>5. EntriesSound' /\ SentToFirstHop'
  BY <1>2, <1>4 DEF IInv, EntriesSound, Used, SentToFirstHop
<1>6. CASE FreeSlots(queue) # {} /\ queue' = AddWaiting(queue, f, ip, d)
           /\ frames' = [frames EXCEPT ![f] = "queue"]
  <2>1. /\ frames' \in [Frames -> Owner] /\ frames'[f] = "queue"
        /\ \A g \in Frames \ {f} : frames'[g] = "queue" <=> frames[g] = "queue"
    BY <1>6 DEF IInv, TypeOK, Owner
  <2>2. /\ SlotsSound' /\ FramesAccounted' /\ queue' \in [Slots -> Slot]
        /\ \A s \in Slots : queue'[s].frame # None =>
             queue'[s].ip = ip \/ (queue[s].frame # None /\ queue[s].ip = queue'[s].ip)
        /\ \A s \in Slots : queue[s].frame # None =>
             queue'[s].frame # None /\ queue'[s].ip = queue[s].ip
    BY <1>1, <1>6, <2>1, QueuedFacts
  <2> HIDE DEF ip, k
  <2>3. TypeOK'
    BY <1>2, <1>4, <2>1, <2>2 DEF TypeOK
  <2>4. NoPacketStranded'
    BY <1>1, <1>3, <1>4, <2>2 DEF IInv, NoPacketStranded
  <2>5. RequestsHavePackets'
    BY <1>4, <2>2 DEF IInv, RequestsHavePackets
  <2>6. QED
    BY <1>5, <2>2, <2>3, <2>4, <2>5 DEF IInv
<1>7. CASE frames' = [frames EXCEPT ![f] = "lost"] /\ queue' = queue
  <2>1. /\ frames' \in [Frames -> Owner]
        /\ \A g \in Frames : frames'[g] = "queue" <=> frames[g] = "queue"
    BY <1>7 DEF IInv, TypeOK, Owner
  <2>2. FramesAccounted' /\ SlotsSound'
    BY <1>7, <2>1, NotQueuedFacts
  <2> HIDE DEF ip, k
  <2>3. TypeOK'
    BY <1>2, <1>4, <1>7, <2>1 DEF IInv, TypeOK
  <2>4. NoPacketStranded' /\ RequestsHavePackets'
    BY <1>4, <1>7 DEF IInv, NoPacketStranded, RequestsHavePackets
  <2>5. QED
    BY <1>5, <2>2, <2>3, <2>4 DEF IInv
<1>8. QED
  BY <1>6, <1>7 DEF SendAsked

\* arp_set_mac_request takes an entry that is no request, and changes no other.
LEMMA RequestFacts ==
    ASSUME IInv, FreeSlots(queue) # {}, NEW ip \in Hosts,
           cache' = SetMacRequest(Aged(cache, ip), ip)
    PROVE  /\ cache' \in [Entries -> Entry]
           /\ \E v \in Entries :
                /\ cache[v].state # "Requesting"
                /\ cache'[v].state = "Requesting" /\ cache'[v].ip = ip
                /\ \A i \in Entries \ {v} : /\ cache'[i].state = cache[i].state
                                          /\ cache'[i].ip = cache[i].ip
                                          /\ cache'[i].mac = cache[i].mac
<1> DEFINE c == Aged(cache, ip)
           v == Victim(c)
           new == [state |-> "Requesting", age |-> 0, ip |-> ip, mac |-> c[v].mac, retry |-> Retries]
<1>1. /\ c \in [Entries -> Entry]
      /\ \A i \in Entries : /\ c[i].state = cache[i].state
                          /\ c[i].ip = cache[i].ip
                          /\ c[i].mac = cache[i].mac
  BY AgedFacts DEF IInv, TypeOK
<1>2. cache' = [c EXCEPT ![v] = new]
  BY DEF SetMacRequest
<1> HIDE DEF c
<1>3. v \in Entries /\ c[v].state # "Requesting"
  BY <1>1, NotAllRequests, VictimFacts
<1> HIDE DEF v
<1>4. new \in Entry /\ new.state = "Requesting" /\ new.ip = ip
  BY <1>1, <1>3, SizesAssumption DEF Entry
<1> HIDE DEF new
<1>5. cache'[v] = new /\ \A i \in Entries \ {v} : cache'[i] = c[i]
  BY <1>1, <1>2, <1>3
<1>6. cache' \in [Entries -> Entry]
  BY Zenon, <1>1, <1>2, <1>4
<1>7. QED
  BY <1>1, <1>3, <1>4, <1>5, <1>6

LEMMA UnknownStep ==
    ASSUME IInv, NEW f \in Frames, NEW d \in Destinations, frames[f] = "empty", SendUnknown(f, d)
    PROVE  IInv'
<1> DEFINE ip == Route(d)
<1>1. d \in Destinations \ {Broadcast} /\ Known(cache, ip) = {} /\ wire' = {} /\ ip \in Hosts
  BY RouteIsHost DEF SendUnknown
<1>2. \A i \in Entries : cache[i].state # "Unused" => cache[i].ip # ip
  BY <1>1 DEF Known
<1>3. SentToFirstHop'
  BY <1>1 DEF SentToFirstHop
<1>4. CASE /\ FreeSlots(queue) # {}
           /\ queue' = AddWaiting(queue, f, ip, d)
           /\ cache' = SetMacRequest(Aged(cache, ip), ip)
           /\ \E S \in Granted(EmptyFrames \ {f}, 1) :
                frames' = Given([frames EXCEPT ![f] = "queue"], S, "driver")
  <2>1. PICK S \in SUBSET (EmptyFrames \ {f}) :
           frames' = Given([frames EXCEPT ![f] = "queue"], S, "driver")
    BY <1>4 DEF Granted
  <2>2. /\ frames' \in [Frames -> Owner] /\ frames'[f] = "queue"
        /\ \A g \in Frames \ {f} : frames'[g] = "queue" <=> frames[g] = "queue"
    BY <2>1 DEF IInv, TypeOK, Owner, Given, EmptyFrames
  <2>3. /\ SlotsSound' /\ FramesAccounted' /\ queue' \in [Slots -> Slot]
        /\ \E s \in Slots : queue'[s].frame # None /\ queue'[s].ip = ip
        /\ \A s \in Slots : queue'[s].frame # None =>
             queue'[s].ip = ip \/ (queue[s].frame # None /\ queue[s].ip = queue'[s].ip)
        /\ \A s \in Slots : queue[s].frame # None =>
             queue'[s].frame # None /\ queue'[s].ip = queue[s].ip
    BY Zenon, <1>1, <1>4, <2>2, QueuedFacts
  <2>4. cache' \in [Entries -> Entry]
    BY <1>1, <1>4, RequestFacts
  <2>5. PICK v \in Entries :
           /\ cache[v].state # "Requesting"
           /\ cache'[v].state = "Requesting" /\ cache'[v].ip = ip
           /\ \A i \in Entries \ {v} : /\ cache'[i].state = cache[i].state
                                     /\ cache'[i].ip = cache[i].ip
                                     /\ cache'[i].mac = cache[i].mac
    BY <1>1, <1>4, RequestFacts
  <2> HIDE DEF ip
  <2>6. TypeOK'
    BY <1>1, <2>2, <2>3, <2>4 DEF TypeOK
  <2>7. EntriesSound'
    BY <1>1, <1>2, <2>5 DEF IInv, EntriesSound, Used
  <2>8. NoPacketStranded'
    BY <2>3, <2>5 DEF IInv, NoPacketStranded
  <2>9. RequestsHavePackets'
    BY <2>3, <2>5 DEF IInv, RequestsHavePackets
  <2>10. QED
    BY <1>3, <2>3, <2>6, <2>7, <2>8, <2>9 DEF IInv
<1>5. CASE /\ cache' = Aged(cache, ip)
           /\ frames' = [frames EXCEPT ![f] = "lost"]
           /\ queue' = queue
  <2>1. /\ frames' \in [Frames -> Owner]
        /\ \A g \in Frames : frames'[g] = "queue" <=> frames[g] = "queue"
    BY <1>5 DEF IInv, TypeOK, Owner
  <2>2. FramesAccounted' /\ SlotsSound'
    BY <1>5, <2>1, NotQueuedFacts
  <2>3. /\ cache' \in [Entries -> Entry]
        /\ \A i \in Entries : /\ cache'[i].state = cache[i].state
                            /\ cache'[i].ip = cache[i].ip
                            /\ cache'[i].mac = cache[i].mac
    BY <1>5, AgedFacts DEF IInv, TypeOK
  <2> HIDE DEF ip
  <2>4. TypeOK'
    BY <1>1, <1>5, <2>1, <2>3 DEF IInv, TypeOK
  <2>5. EntriesSound' /\ NoPacketStranded' /\ RequestsHavePackets'
    BY <1>5, <2>3 DEF IInv, EntriesSound, Used, NoPacketStranded, RequestsHavePackets
  <2>6. QED
    BY <1>3, <2>2, <2>4, <2>5 DEF IInv
<1>6. QED
  BY Zenon, <1>4, <1>5 DEF SendUnknown

\* Sending or releasing all packets of some addresses frees their slots and
\* their buffers, and touches no other packet.
LEMMA ClearedFacts ==
    ASSUME IInv, NEW ips \in SUBSET Hosts, NEW fr \in [Frames -> Owner],
           queue' = Cleared(queue, ips), frames' = fr,
           \A f \in WaitingFrames(queue, ips) : fr[f] # "queue",
           \A f \in Frames \ WaitingFrames(queue, ips) : fr[f] = "queue" <=> frames[f] = "queue"
    PROVE  /\ SlotsSound' /\ FramesAccounted' /\ queue' \in [Slots -> Slot]
           /\ \A s \in Slots : queue[s].ip \in ips => queue'[s].frame = None
           /\ \A s \in Slots : queue[s].ip \notin ips => queue'[s] = queue[s]
<1>1. \A s \in Slots : /\ queue[s].ip \in ips => queue'[s] = NoSlot
                       /\ queue[s].ip \notin ips => queue'[s] = queue[s]
  BY DEF Cleared
<1>2. NoSlot \in Slot /\ NoSlot.frame = None /\ NoSlot.ip = None
  BY DEF NoSlot, Slot
<1>3. queue' \in [Slots -> Slot]
  BY <1>2 DEF Cleared, IInv, TypeOK
<1>4. SlotsSound'
  BY <1>1, <1>2 DEF IInv, SlotsSound
<1>5. \A s, t \in Slots : queue'[s].frame = queue'[t].frame /\ queue'[s].frame # None => s = t
  BY <1>1, <1>2 DEF IInv, FramesAccounted
<1>6. ASSUME NEW f \in Frames
      PROVE  frames'[f] = "queue" <=> \E s \in Slots : queue'[s].frame = f
  <2>1. CASE f \in WaitingFrames(queue, ips)
    <3>1. PICK s \in Slots : queue[s].frame = f /\ queue[s].ip \in ips
      BY <2>1 DEF WaitingFrames
    <3>2. f # None
      BY AddressAssumption
    <3>3. \A t \in Slots : queue[t].frame = f => t = s
      BY <3>1, <3>2 DEF IInv, FramesAccounted
    <3>4. \A t \in Slots : queue'[t].frame # f
      BY <1>1, <1>2, <3>1, <3>2, <3>3
    <3>5. QED
      BY <2>1, <3>4
  <2>2. CASE f \notin WaitingFrames(queue, ips)
    <3>1. \A s \in Slots : queue[s].frame = f => queue[s].ip \notin ips
      BY <2>2 DEF WaitingFrames
    <3>2. (\E s \in Slots : queue'[s].frame = f) <=> (\E s \in Slots : queue[s].frame = f)
      BY <1>1, <1>2, <3>1, AddressAssumption
    <3>3. QED
      BY <2>2, <3>2 DEF IInv, FramesAccounted
  <2>3. QED
    BY <2>1, <2>2
<1>7. FramesAccounted'
  BY <1>5, <1>6 DEF FramesAccounted
<1>8. QED
  BY <1>1, <1>2, <1>3, <1>4, <1>7

LEMMA ReplyStep ==
    ASSUME IInv, NEW h \in Hosts, ProcessReply(h)
    PROVE  IInv'
<1> DEFINE k == First(Known(cache, h))
           asked == Known(cache, h) # {} /\ cache[k].state = "Requesting"
           a == Aged(cache, h)
<1>1. /\ a \in [Entries -> Entry]
      /\ \A i \in Entries : /\ a[i].state = cache[i].state
                          /\ a[i].ip = cache[i].ip
                          /\ a[i].mac = cache[i].mac
  BY AgedFacts DEF IInv, TypeOK
<1>2. CASE ~ asked
  <2>1. cache' = a /\ queue' = queue /\ frames' = frames /\ wire' = {}
    BY <1>2 DEF ProcessReply
  <2> HIDE DEF a, k
  <2>2. TypeOK' /\ SentToFirstHop' /\ SlotsSound' /\ FramesAccounted'
    BY <1>1, <2>1 DEF IInv, TypeOK, SentToFirstHop, SlotsSound, FramesAccounted
  <2>3. EntriesSound' /\ NoPacketStranded' /\ RequestsHavePackets'
    BY <1>1, <2>1 DEF IInv, EntriesSound, Used, NoPacketStranded, RequestsHavePackets
  <2>4. QED
    BY <2>2, <2>3 DEF IInv
<1>3. CASE asked
  <2>1. /\ cache' = [a EXCEPT ![k] = ValidEntry(h)]
        /\ queue' = Cleared(queue, {h})
        /\ frames' = Given(frames, WaitingFrames(queue, {h}), "driver")
        /\ wire' = {<<queue[s].dst, h>> : s \in Waiting(queue, h)}
    BY <1>3 DEF ProcessReply
  <2>2. /\ k \in Entries /\ cache[k].ip = h
        /\ \A j \in Entries : Used(j) /\ cache[j].ip = h => j = k
    BY <1>3, HitFacts
  <2>3. /\ ValidEntry(h) \in Entry /\ ValidEntry(h).state = "Valid"
        /\ ValidEntry(h).ip = h /\ ValidEntry(h).mac = h
    BY SizesAssumption DEF ValidEntry, Entry
  <2> HIDE DEF a, k
  <2>4. /\ cache' \in [Entries -> Entry] /\ cache'[k] = ValidEntry(h)
        /\ \A i \in Entries \ {k} : cache'[i] = a[i]
    BY <1>1, <2>1, <2>2, <2>3
  <2>5. /\ frames' \in [Frames -> Owner]
        /\ \A f \in WaitingFrames(queue, {h}) : frames'[f] # "queue"
        /\ \A f \in Frames \ WaitingFrames(queue, {h}) : frames'[f] = "queue" <=> frames[f] = "queue"
    BY <2>1 DEF IInv, TypeOK, Owner, Given, WaitingFrames
  <2>6. /\ SlotsSound' /\ FramesAccounted' /\ queue' \in [Slots -> Slot]
        /\ \A s \in Slots : queue[s].ip \in {h} => queue'[s].frame = None
        /\ \A s \in Slots : queue[s].ip \notin {h} => queue'[s] = queue[s]
    <3>1. {h} \in SUBSET Hosts
      OBVIOUS
    <3>2. QED
      BY Zenon, <2>1, <2>5, <3>1, ClearedFacts
  <2>7. \A s \in Waiting(queue, h) : queue[s].dst \in Destinations \ {Broadcast} /\ Route(queue[s].dst) = h
    BY DEF Waiting, IInv, SlotsSound
  <2>8. SentToFirstHop'
    BY <2>1, <2>7 DEF SentToFirstHop, Route
  <2>9. TypeOK'
    <3>1. wire' \subseteq Destinations \X (Hosts \cup {Broadcast})
      BY <2>1, <2>7
    <3>2. QED
      BY <2>4, <2>5, <2>6, <3>1 DEF TypeOK
  <2>10. EntriesSound'
    BY <1>1, <2>2, <2>3, <2>4 DEF IInv, EntriesSound, Used
  <2>11. NoPacketStranded'
    <3> SUFFICES ASSUME NEW s \in Slots, queue'[s].frame # None
                 PROVE  \E i \in Entries : cache'[i].state = "Requesting" /\ cache'[i].ip = queue'[s].ip
      BY DEF NoPacketStranded
    <3>1. queue'[s] = queue[s] /\ queue[s].ip # h
      BY <2>6
    <3>2. PICK i \in Entries : cache[i].state = "Requesting" /\ cache[i].ip = queue[s].ip
      BY <3>1 DEF IInv, NoPacketStranded
    <3>3. i # k
      BY <2>2, <3>1, <3>2
    <3>4. QED
      BY <1>1, <2>4, <3>1, <3>2, <3>3
  <2>12. RequestsHavePackets'
    <3> SUFFICES ASSUME NEW i \in Entries, cache'[i].state = "Requesting"
                 PROVE  \E s \in Slots : queue'[s].frame # None /\ queue'[s].ip = cache'[i].ip
      BY DEF RequestsHavePackets
    <3>1. i # k /\ cache[i].state = "Requesting" /\ cache'[i].ip = cache[i].ip
      BY <1>1, <2>3, <2>4
    <3>2. cache[i].ip # h
      BY <2>2, <3>1 DEF Used
    <3>3. PICK s \in Slots : queue[s].frame # None /\ queue[s].ip = cache[i].ip
      BY <3>1 DEF IInv, RequestsHavePackets
    <3>4. QED
      BY <2>6, <3>1, <3>2, <3>3
  <2>13. QED
    BY <2>6, <2>8, <2>9, <2>10, <2>11, <2>12 DEF IInv
<1>4. QED
  BY <1>2, <1>3

LEMMA TimerStep ==
    ASSUME IInv, NEW E \in SUBSET Entries, Timer(E)
    PROVE  IInv'
<1> DEFINE again == {i \in E : cache[i].retry > 0}
           over == {cache[i].ip : i \in E \ again}
           dead == WaitingFrames(queue, over)
<1>1. /\ \A i \in E : cache[i].state = "Requesting"
      /\ cache' = [i \in Entries |->
                     IF i \in again THEN [cache[i] EXCEPT !.retry = @ - 1]
                     ELSE IF i \in E THEN Unused(cache[i].mac)
                     ELSE cache[i]]
      /\ queue' = Cleared(queue, over)
      /\ wire' = {}
  BY DEF Timer, InState
<1>2. PICK S \in SUBSET (EmptyFrames \cup dead) :
         frames' = Given(Given(frames, dead, "empty"), S, "driver")
  BY Zenon DEF Timer, Granted
<1>3. over \in SUBSET Hosts
  BY <1>1 DEF IInv, EntriesSound, Used
<1>4. /\ cache' \in [Entries -> Entry]
      /\ \A i \in Entries \ (E \ again) : /\ cache'[i].state = cache[i].state
                                        /\ cache'[i].ip = cache[i].ip
                                        /\ cache'[i].mac = cache[i].mac
      /\ \A i \in E \ again : cache'[i].state = "Unused"
  <2> SUFFICES ASSUME NEW i \in Entries
               PROVE  /\ cache'[i] \in Entry
                      /\ i \notin E \ again => /\ cache'[i].state = cache[i].state
                                             /\ cache'[i].ip = cache[i].ip
                                             /\ cache'[i].mac = cache[i].mac
                      /\ i \in E \ again => cache'[i].state = "Unused"
    BY Zenon, <1>1
  <2>1. cache[i] \in Entry
    BY DEF IInv, TypeOK
  <2>2. CASE i \in again
    BY <1>1, <2>1, <2>2, SizesAssumption DEF Entry
  <2>3. CASE i \in E \ again
    BY <1>1, <2>1, <2>3, SizesAssumption DEF Entry, Unused
  <2>4. CASE i \notin E
    BY <1>1, <2>1, <2>4
  <2>5. QED
    BY <2>2, <2>3, <2>4
<1>5. \A i \in E \ again : cache[i].ip \in over
  OBVIOUS
<1>6. \A j \in Entries : Used(j) /\ cache[j].ip \in over => j \in E \ again
  BY <1>1 DEF IInv, EntriesSound, Used
<1>7. /\ frames' \in [Frames -> Owner]
      /\ \A f \in dead : frames'[f] # "queue"
      /\ \A f \in Frames \ dead : frames'[f] = "queue" <=> frames[f] = "queue"
  BY <1>2 DEF IInv, TypeOK, Owner, Given, EmptyFrames, WaitingFrames
<1> HIDE DEF again, over
<1>8. /\ SlotsSound' /\ FramesAccounted' /\ queue' \in [Slots -> Slot]
      /\ \A s \in Slots : queue[s].ip \in over => queue'[s].frame = None
      /\ \A s \in Slots : queue[s].ip \notin over => queue'[s] = queue[s]
  BY <1>1, <1>3, <1>7, ClearedFacts
<1>9. TypeOK' /\ SentToFirstHop'
  BY <1>1, <1>4, <1>7, <1>8 DEF TypeOK, SentToFirstHop
<1>10. EntriesSound'
  BY <1>4 DEF IInv, EntriesSound, Used
<1>11. NoPacketStranded'
  <2> SUFFICES ASSUME NEW s \in Slots, queue'[s].frame # None
               PROVE  \E i \in Entries : cache'[i].state = "Requesting" /\ cache'[i].ip = queue'[s].ip
    BY DEF NoPacketStranded
  <2>1. queue'[s] = queue[s] /\ queue[s].ip \notin over
    BY <1>8
  <2>2. PICK i \in Entries : cache[i].state = "Requesting" /\ cache[i].ip = queue[s].ip
    BY <2>1 DEF IInv, NoPacketStranded
  <2>3. QED
    BY <1>4, <1>5, <2>1, <2>2
<1>12. RequestsHavePackets'
  <2> SUFFICES ASSUME NEW i \in Entries, cache'[i].state = "Requesting"
               PROVE  \E s \in Slots : queue'[s].frame # None /\ queue'[s].ip = cache'[i].ip
    BY DEF RequestsHavePackets
  <2>1. i \notin E \ again /\ cache[i].state = "Requesting" /\ cache'[i].ip = cache[i].ip
    BY <1>4
  <2>2. cache[i].ip \notin over
    BY <1>6, <2>1 DEF Used
  <2>3. PICK s \in Slots : queue[s].frame # None /\ queue[s].ip = cache[i].ip
    BY <2>1 DEF IInv, RequestsHavePackets
  <2>4. QED
    BY <1>8, <2>1, <2>2, <2>3
<1>13. QED
  BY <1>8, <1>9, <1>10, <1>11, <1>12 DEF IInv

\* A step that only moves a buffer between the driver and its free list.
LEMMA BufferStep ==
    ASSUME IInv, NEW f \in Frames, NEW to \in {"empty", "driver"}, frames[f] # "queue",
           frames' = [frames EXCEPT ![f] = to], wire' = {}, UNCHANGED <<cache, queue>>
    PROVE  IInv'
<1>1. /\ frames' \in [Frames -> Owner]
      /\ \A g \in Frames : frames'[g] = "queue" <=> frames[g] = "queue"
  BY DEF IInv, TypeOK, Owner
<1>2. FramesAccounted' /\ SlotsSound'
  BY <1>1, NotQueuedFacts
<1>3. TypeOK' /\ SentToFirstHop'
  BY <1>1 DEF IInv, TypeOK, SentToFirstHop
<1>4. EntriesSound' /\ NoPacketStranded' /\ RequestsHavePackets'
  BY DEF IInv, EntriesSound, Used, NoPacketStranded, RequestsHavePackets
<1>5. QED
  BY <1>2, <1>3, <1>4 DEF IInv

LEMMA StepIInv == IInv /\ [Next]_vars => IInv'
<1> SUFFICES ASSUME IInv, [Next]_vars PROVE IInv'
  OBVIOUS
<1>1. ASSUME NEW f \in Frames, NEW d \in Destinations, Send(f, d) PROVE IInv'
  BY <1>1, DirectStep, KnownStep, AskedStep, UnknownStep DEF Send
<1>2. ASSUME NEW h \in Hosts, ProcessReply(h) PROVE IInv'
  BY <1>2, ReplyStep
<1>3. CASE ProcessRequest
  <2>1. PICK f \in Frames : frames[f] = "empty" /\ frames' = [frames EXCEPT ![f] = "driver"]
    BY Zenon, <1>3 DEF ProcessRequest, EmptyFrames
  <2>2. QED
    BY Zenon, <1>3, <2>1, BufferStep DEF ProcessRequest
<1>4. ASSUME NEW E \in SUBSET Entries, Timer(E) PROVE IInv'
  BY <1>4, TimerStep
<1>5. ASSUME NEW f \in Frames, Sent(f) PROVE IInv'
  BY Zenon, <1>5, BufferStep DEF Sent
<1>6. CASE UNCHANGED vars
  <2>1. TypeOK' /\ FramesAccounted' /\ SlotsSound'
    BY <1>6 DEF vars, IInv, TypeOK, FramesAccounted, SlotsSound
  <2>2. EntriesSound' /\ NoPacketStranded' /\ RequestsHavePackets' /\ SentToFirstHop'
    BY <1>6 DEF vars, IInv, EntriesSound, Used, NoPacketStranded, RequestsHavePackets, SentToFirstHop
  <2>3. QED
    BY <2>1, <2>2 DEF IInv
<1>7. QED
  BY <1>1, <1>2, <1>3, <1>4, <1>5, <1>6 DEF Next

\* The inductive invariant of arp.c.
THEOREM ArpInvariant == Spec => []IInv
<1>1. IInv /\ [Next]_vars => IInv'
  BY StepIInv
<1>2. QED
  BY <1>1, InitIInv, PTL DEF Spec

\* The ages stay below ARP_CACHE_MAX_AGE, the retries at or below
\* ucArpRetries, and no array element holds anything else.
THEOREM ArpTyped == Spec => []TypeOK
<1>1. IInv => TypeOK
  BY DEF IInv
<1>2. QED
  BY <1>1, ArpInvariant, PTL

\* A packet that arp_send_ipv4_packet queued always has a pending request:
\* arp_set_mac_request never overwrites a request that a packet waits for.
THEOREM PacketsNotStranded == Spec => []NoPacketStranded
<1>1. IInv => NoPacketStranded
  BY DEF IInv
<1>2. QED
  BY <1>1, ArpInvariant, PTL

\* No frame buffer is in two slots of the packet queue, or in the queue and
\* in the driver at a time.
THEOREM BuffersHaveOneOwner == Spec => []FramesAccounted
<1>1. IInv => FramesAccounted
  BY DEF IInv
<1>2. QED
  BY <1>1, ArpInvariant, PTL

\* Every packet leaves for the MAC address of its first hop.
THEOREM PacketsGoToFirstHop == Spec => []SentToFirstHop
<1>1. IInv => SentToFirstHop
  BY DEF IInv
<1>2. QED
  BY <1>1, ArpInvariant, PTL
=============================================================================
