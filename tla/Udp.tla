-------------------------------- MODULE Udp --------------------------------
(***************************************************************************)
(* The UDP port table of the in-house network stack                        *)
(* (src/src/networking/stack/udp.c), shared by its TFTP, DHCP and DNS      *)
(* clients.                                                                *)
(*                                                                         *)
(* An entry is free if its local port is 0.  A datagram is handed to the   *)
(* first entry with its destination port; the sender is not looked at.     *)
(* Clients refer to an entry by its address, here its index, and 0 is the  *)
(* NULL pointer.                                                           *)
(***************************************************************************)
EXTENDS Integers, FiniteSets

CONSTANTS
  UdpMax,    \* UDP_PORTLIST_MAX
  MaxCalls   \* bound: requests of all clients together

ASSUME UdpAssumption == UdpMax \in Nat \ {0} /\ MaxCalls \in Nat

VARIABLES
  assoc,   \* atUdpPortAssoc
  calls    \* requests so far

Assocs == 1 .. UdpMax
NoAssoc == 0
Closed == [port |-> 0, remote |-> 0, handler |-> "none"]

Lowest(S) == CHOOSE i \in S : \A j \in S : i <= j

Opened(port) == {a \in Assocs : assoc[a].port = port}

(* The table after udp_registerPort; NewAssoc is what it returns. *)
NewAssoc == IF Opened(0) = {} THEN NoAssoc ELSE Lowest(Opened(0))

Registered(port, remote, handler) ==
  [a \in Assocs |-> IF a = NewAssoc THEN [port |-> port, remote |-> remote, handler |-> handler]
                    ELSE assoc[a]]

(* udp_unregisterPort.  Nothing reads the other fields of a free entry. *)
Unregistered(a) == [b \in Assocs |-> IF b = a THEN Closed ELSE assoc[b]]

(* Whose handler udp_process_packet calls for a datagram to the port. *)
Listener(port) == IF Opened(port) = {} THEN "none" ELSE assoc[Lowest(Opened(port))].handler

(* eth_get_empty_packet gives a frame or not.  A packet that is sent while  *)
(* the pointer to the association is NULL takes the frame and is not sent. *)
SentVia(a, frame, msgs) == IF frame /\ a # NoAssoc THEN msgs ELSE {}

UdpInit ==
  /\ assoc = [a \in Assocs |-> Closed]
  /\ calls = 0

(* A client is called. *)
Called ==
  /\ calls < MaxCalls
  /\ calls' = calls + 1
=============================================================================
