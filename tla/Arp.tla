-------------------------------- MODULE Arp --------------------------------
(***************************************************************************)
(* The address resolution of the in-house network stack                    *)
(* (src/src/networking/stack/arp.c) with its neighbours: the routing of    *)
(* ipv4.c above it, the echo answer of icmp.c, and the frame buffers of    *)
(* the Ethernet driver below it (eth.c).                                   *)
(*                                                                         *)
(* A packet for an unknown address waits in atPacketQueue while the cache  *)
(* entry of the address is in state Requesting.  The reply sends every     *)
(* waiting packet, and a request that got no reply releases them.  The     *)
(* cache and the queue are two arrays that only the IP address ties        *)
(* together: nothing in an entry says which packets wait for it.           *)
(*                                                                         *)
(* An IP address is the host it belongs to, and so is a MAC address: host  *)
(* h answers for address h with MAC h.                                     *)
(*                                                                         *)
(* VictimOfAnyState, SendKnownUnchecked and TimerRetriesForever are faulty *)
(* variants of the definitions that follow them; no action uses them.      *)
(***************************************************************************)
EXTENDS Integers, FiniteSets

CONSTANTS
  Hosts,      \* addresses in the network of the station
  Gateway,    \* the one of them that is ulGatewayIp
  Remote,     \* addresses outside the network
  Peers,      \* the local addresses the layers above send to
  Broadcast,  \* 255.255.255.255 and the multicast range, sent without a lookup
  Frames,     \* the frame buffers of the driver
  None,       \* no address, no frame
  CacheMax,   \* ARP_CACHE_MAX_ENTRIES
  QueueMax,   \* ARP_PACKET_QUEUE_MAX_ENTRIES
  MaxAge,     \* ARP_CACHE_MAX_AGE
  Retries     \* ucArpRetries

(* Both arrays have 8 entries in the code.  What the proofs need of that is *)
(* that the queue is not longer than the cache.                             *)
ASSUME SizesAssumption ==
  /\ CacheMax \in Nat \ {0}
  /\ QueueMax \in Nat \ {0}
  /\ QueueMax <= CacheMax
  /\ MaxAge \in Nat
  /\ Retries \in Nat

ASSUME AddressAssumption ==
  /\ Gateway \in Hosts
  /\ Peers \subseteq Hosts
  /\ None \notin Hosts \cup Remote \cup Frames \cup {Broadcast}
  /\ Broadcast \notin Hosts \cup Remote
  /\ Hosts \cap Remote = {}

VARIABLES
  cache,   \* aui_arp_cache
  queue,   \* atPacketQueue: frame = None is sizPacket = 0
  frames,  \* who has each frame buffer
  wire     \* what the last step handed to the driver: <<destination, MAC>>

vars == <<cache, queue, frames, wire>>

Entries == 1 .. CacheMax
Slots == 1 .. QueueMax
Destinations == Peers \cup Remote \cup {Broadcast}

Entry == [state : {"Unused", "Requesting", "Valid"}, age : 0 .. MaxAge,
          ip : Hosts \cup {None}, mac : Hosts \cup {None}, retry : 0 .. Retries]
Slot == [frame : Frames \cup {None}, ip : Hosts \cup {None}, dst : Destinations \cup {None}]
Owner == {"empty", "queue", "driver", "lost"}

(* An unused entry.  Of its old contents only the MAC survives until the    *)
(* entry is used again.                                                    *)
Unused(m) == [state |-> "Unused", age |-> 0, ip |-> None, mac |-> m, retry |-> 0]

(* An entry whose reply came.  The retry counter means nothing in it (the   *)
(* comment of uiRetryCnt says so) and is put to 0 here.                    *)
ValidEntry(h) == [state |-> "Valid", age |-> 0, ip |-> h, mac |-> h, retry |-> 0]

(* The array element a scan from the start of the array finds. *)
First(S) == CHOOSE i \in S : \A j \in S : i <= j

----------------------------------------------------------------------------
(* The cache and the queue. *)

(* The entries that arp_get_cache_entry(ip) would stop at. *)
Known(c, ip) == {i \in Entries : c[i].state # "Unused" /\ c[i].ip = ip}

(* The side effect of arp_get_cache_entry: used entries on the way to the  *)
(* hit grow older, the hit becomes young.                                  *)
Aged(c, ip) ==
  [i \in Entries |->
     IF c[i].state = "Unused" \/ \E j \in Known(c, ip) : j < i THEN c[i]
     ELSE IF c[i].ip = ip THEN [c[i] EXCEPT !.age = 0]
     ELSE IF c[i].age < MaxAge THEN [c[i] EXCEPT !.age = @ + 1]
     ELSE c[i]]

InState(c, s) == {i \in Entries : c[i].state = s}

Oldest(c, S) == {i \in S : \A j \in S : c[j].age <= c[i].age}

VictimOfAnyState(c) ==
  IF InState(c, "Unused") # {} THEN First(InState(c, "Unused"))
  ELSE First(Oldest(c, Entries))

(* The entry arp_set_mac_request takes: the first unused one, or the       *)
(* oldest valid one, or else the first of the array.                       *)
Victim(c) ==
  IF InState(c, "Unused") # {} THEN First(InState(c, "Unused"))
  ELSE IF InState(c, "Valid") # {} THEN First(Oldest(c, InState(c, "Valid")))
  ELSE 1

SetMacRequest(c, ip) ==
  [c EXCEPT ![Victim(c)] =
     [state |-> "Requesting", age |-> 0, ip |-> ip, mac |-> @.mac, retry |-> Retries]]

FreeSlots(q) == {s \in Slots : q[s].frame = None}
Waiting(q, ip) == {s \in Slots : q[s].frame # None /\ q[s].ip = ip}

AddWaiting(q, f, ip, d) ==
  [q EXCEPT ![First(FreeSlots(q))] = [frame |-> f, ip |-> ip, dst |-> d]]

NoSlot == [frame |-> None, ip |-> None, dst |-> None]

(* Every slot that waits for one of the addresses becomes free.  Nothing    *)
(* reads the address and the packet of a free slot.                        *)
Cleared(q, ips) == [s \in Slots |-> IF q[s].ip \in ips THEN NoSlot ELSE q[s]]

(* The frames that wait for one of the addresses. *)
WaitingFrames(q, ips) == {f \in Frames : \E s \in Slots : q[s].frame = f /\ q[s].ip \in ips}

EmptyFrames == {f \in Frames : frames[f] = "empty"}

(* The frames of the set S change hands. *)
Given(fr, S, to) == [f \in Frames |-> IF f \in S THEN to ELSE fr[f]]

(* eth_get_empty_packet, called n times: the driver may have no buffer.    *)
Granted(avail, n) == {S \in SUBSET avail : IsFiniteSet(S) /\ Cardinality(S) <= n}

----------------------------------------------------------------------------
Init ==
  /\ cache = [i \in Entries |-> Unused(None)]
  /\ queue = [s \in Slots |-> NoSlot]
  /\ frames = [f \in Frames |-> "empty"]
  /\ wire = {}

(* ipv4_get_destination_ip with a netmask set: the first hop. *)
Route(d) == IF d \in Remote THEN Gateway ELSE d

Transmit(f, d, mac) ==
  /\ frames' = [frames EXCEPT ![f] = "driver"]
  /\ wire' = {<<d, mac>>}

(* arp_send_ipv4_packet for a destination with a MAC of its own. *)
SendDirect(f, d) ==
  /\ d = Broadcast
  /\ Transmit(f, d, Broadcast)
  /\ UNCHANGED <<cache, queue>>

SendKnownUnchecked(f, d) ==
  LET ip == Route(d)
      hits == Known(cache, ip) IN
  /\ d # Broadcast
  /\ hits # {}
  /\ cache[First(hits)].mac # None
  /\ cache' = Aged(cache, ip)
  /\ Transmit(f, d, cache[First(hits)].mac)
  /\ UNCHANGED queue

(* ... for an address in the cache. *)
SendKnown(f, d) ==
  LET ip == Route(d)
      hits == Known(cache, ip) IN
  /\ d # Broadcast
  /\ hits # {}
  /\ cache[First(hits)].state = "Valid"
  /\ cache' = Aged(cache, ip)
  /\ Transmit(f, d, cache[First(hits)].mac)
  /\ UNCHANGED queue

(* ... for an address that was asked for already.  With no free slot the   *)
(* frame is neither queued nor released.                                   *)
SendAsked(f, d) ==
  LET ip == Route(d)
      hits == Known(cache, ip) IN
  /\ d # Broadcast
  /\ hits # {}
  /\ cache[First(hits)].state = "Requesting"
  /\ cache' = Aged(cache, ip)
  /\ wire' = {}
  /\ \/ /\ FreeSlots(queue) # {}
        /\ queue' = AddWaiting(queue, f, ip, d)
        /\ frames' = [frames EXCEPT ![f] = "queue"]
     \/ /\ FreeSlots(queue) = {}
        /\ frames' = [frames EXCEPT ![f] = "lost"]
        /\ UNCHANGED queue

(* ... for an unknown address: the packet is queued first, and only if     *)
(* that worked is the address requested.                                   *)
SendUnknown(f, d) ==
  LET ip == Route(d) IN
  /\ d # Broadcast
  /\ Known(cache, ip) = {}
  /\ wire' = {}
  /\ \/ /\ FreeSlots(queue) # {}
        /\ queue' = AddWaiting(queue, f, ip, d)
        /\ cache' = SetMacRequest(Aged(cache, ip), ip)
        /\ \E S \in Granted(EmptyFrames \ {f}, 1) :
             frames' = Given([frames EXCEPT ![f] = "queue"], S, "driver")
     \/ /\ FreeSlots(queue) = {}
        /\ cache' = Aged(cache, ip)
        /\ frames' = [frames EXCEPT ![f] = "lost"]
        /\ UNCHANGED queue

(* A UDP datagram or an echo reply to d, in the frame f that the sender     *)
(* got from the driver: icmp_process_packet or udp_send_packet, then       *)
(* ipv4_send_packet.                                                       *)
Send(f, d) ==
  /\ frames[f] = "empty"
  /\ SendDirect(f, d) \/ SendKnown(f, d) \/ SendAsked(f, d) \/ SendUnknown(f, d)

(* arp_process_reply for a reply of host h that is addressed to the        *)
(* station.  Even a reply nobody waits for makes entries older.            *)
ProcessReply(h) ==
  LET hits == Known(cache, h)
      i == First(hits)
      asked == hits # {} /\ cache[i].state = "Requesting" IN
  /\ cache' = IF asked THEN [Aged(cache, h) EXCEPT ![i] = ValidEntry(h)]
              ELSE Aged(cache, h)
  /\ queue' = IF asked THEN Cleared(queue, {h}) ELSE queue
  /\ frames' = IF asked THEN Given(frames, WaitingFrames(queue, {h}), "driver") ELSE frames
  /\ wire' = IF asked THEN {<<queue[s].dst, h>> : s \in Waiting(queue, h)} ELSE {}

(* arp_process_request: a host asks for the MAC of the station. *)
ProcessRequest ==
  /\ \E f \in EmptyFrames : frames' = [frames EXCEPT ![f] = "driver"]
  /\ wire' = {}
  /\ UNCHANGED <<cache, queue>>

TimerRetriesForever(E) ==
  /\ E # {}
  /\ E \subseteq InState(cache, "Requesting")
  /\ \E S \in Granted(EmptyFrames, Cardinality(E)) : frames' = Given(frames, S, "driver")
  /\ wire' = {}
  /\ UNCHANGED <<cache, queue>>

(* arp_timer, called when the time-out of the requests E has elapsed.  A   *)
(* request with a retry left is sent again if there is a frame for it; one  *)
(* without takes the packets that wait for it along.  Which buffers the    *)
(* driver grants is left open, those that this call just released included. *)
Timer(E) ==
  LET again == {i \in E : cache[i].retry > 0}
      over == {cache[i].ip : i \in E \ again}
      dead == WaitingFrames(queue, over) IN
  /\ E # {}
  /\ E \subseteq InState(cache, "Requesting")
  /\ cache' = [i \in Entries |->
                 IF i \in again THEN [cache[i] EXCEPT !.retry = @ - 1]
                 ELSE IF i \in E THEN Unused(cache[i].mac)
                 ELSE cache[i]]
  /\ queue' = Cleared(queue, over)
  /\ \E S \in Granted(EmptyFrames \cup dead, Cardinality(again)) :
       frames' = Given(Given(frames, dead, "empty"), S, "driver")
  /\ wire' = {}

(* External: the driver has sent the frame and takes it back. *)
Sent(f) ==
  /\ frames[f] = "driver"
  /\ frames' = [frames EXCEPT ![f] = "empty"]
  /\ wire' = {}
  /\ UNCHANGED <<cache, queue>>

Next ==
  \/ \E f \in Frames, d \in Destinations : Send(f, d)
  \/ \E h \in Hosts : ProcessReply(h)
  \/ ProcessRequest
  \/ \E E \in SUBSET Entries : Timer(E)
  \/ \E f \in Frames : Sent(f)

(* The timer of every pending request elapses: time goes on and the main   *)
(* loop of the stack keeps calling arp_timer.                              *)
Elapsed(i) == \E E \in SUBSET Entries : i \in E /\ Timer(E)

Spec == Init /\ [][Next]_vars /\ \A i \in Entries : WF_vars(Elapsed(i))

----------------------------------------------------------------------------
TypeOK ==
  /\ cache \in [Entries -> Entry]
  /\ queue \in [Slots -> Slot]
  /\ frames \in [Frames -> Owner]
  /\ wire \subseteq Destinations \X (Hosts \cup {Broadcast})

(* A packet in atPacketQueue always has a request that will end its wait:  *)
(* a cache entry in state Requesting for the same address.  The last       *)
(* resort of arp_set_mac_request, which overwrites entry 0 whatever its    *)
(* state, would break it: the packets of the overwritten request would     *)
(* keep their slots and buffers for good.  It is never taken, because each *)
(* request holds a slot of a queue that is no longer than the cache.       *)
NoPacketStranded ==
  \A s \in Slots : queue[s].frame # None =>
    \E i \in Entries : cache[i].state = "Requesting" /\ cache[i].ip = queue[s].ip

(* A frame buffer has one owner: it is in the queue exactly if one slot    *)
(* holds it, so that no buffer is sent or released while it still waits.   *)
FramesAccounted ==
  /\ \A s, t \in Slots : queue[s].frame = queue[t].frame /\ queue[s].frame # None => s = t
  /\ \A f \in Frames : frames[f] = "queue" <=> \E s \in Slots : queue[s].frame = f

(* An IP packet leaves for the MAC of its first hop: its destination, or   *)
(* the gateway for a destination outside the network.  A cache entry keeps *)
(* the MAC of its former address while the new one is being requested, so  *)
(* this needs the states to guard every use of tMac.                       *)
SentToFirstHop ==
  \A p \in wire : p[2] = IF p[1] \in Remote THEN Gateway ELSE p[1]

(* Whatever happens on the network, a packet does not wait for ever: the   *)
(* reply sends it or the last retry releases it, and its slot is free.     *)
WaitsEnd == \A s \in Slots : queue[s].frame # None ~> queue[s].frame = None
=============================================================================
