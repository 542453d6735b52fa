-------------------------------- MODULE Dns --------------------------------
(***************************************************************************)
(* The DNS client of the in-house stack (src/src/networking/stack/dns.c)   *)
(* and, as its environment, a name server and a network that loses,        *)
(* repeats, delays and reorders packets.                                   *)
(*                                                                         *)
(* The address of a host is the host itself.  dnsNet holds every query      *)
(* that was sent; an answer to it may come any number of times or never.   *)
(***************************************************************************)
EXTENDS Udp

CONSTANTS
  Names,       \* host names
  NoName,      \* none, and the address 0
  DnsPort,     \* DNS_SRC_PORT
  DnsRetries   \* ucDnsRetries

ASSUME DnsAssumption ==
  /\ NoName \notin Names
  /\ DnsPort \in Nat \ {0}
  /\ DnsRetries \in Nat

VARIABLES
  dns,      \* the static variables of dns.c
  dnsNet    \* the queries on the network

dnsVars == <<dns, dnsNet>>

DnsBusy == dns.state = "Request"

DnsInit ==
  /\ dns = [state |-> "Idle", assoc |-> NoAssoc, retry |-> 0, id |-> 0,
            name |-> NoName, ip |-> NoName, ok |-> FALSE]
  /\ dnsNet = {}

Query(id, name) == [id |-> id, name |-> name]
Answer(id, kind, ip) == [kind |-> kind, id |-> id, ip |-> ip]

(* dns_request.  Only the name is new if there is no free port.  ok is the  *)
(* result of the call.                                                     *)
DnsRequest(name) ==
  /\ Called
  /\ ~ DnsBusy
  /\ \E frame \in BOOLEAN :
       LET sent == NewAssoc # NoAssoc /\ frame IN
       /\ dns' = [dns EXCEPT
            !.name = name,
            !.ok = sent,
            !.id = IF NewAssoc # NoAssoc THEN @ + 1 ELSE @,
            !.assoc = IF sent THEN NewAssoc ELSE NoAssoc,
            !.state = IF sent THEN "Request" ELSE IF NewAssoc # NoAssoc THEN "Error" ELSE @,
            !.retry = IF sent THEN DnsRetries ELSE @]
       /\ assoc' = IF sent THEN Registered(DnsPort, 0, "dns") ELSE assoc
       /\ dnsNet' = dnsNet \cup IF sent THEN {Query(dns.id + 1, name)} ELSE {}

(* The checks of the header: the ID of the last query, a response, a        *)
(* standard query, not truncated.                                          *)
IsAnswer(m) == m.id = dns.id

(* dns_recHandler.  An answer ends the request, whatever it says; the       *)
(* association is not given back.  The retries of an ended request are not  *)
(* read and put to 0.                                                      *)
DnsRec(m) ==
  /\ Listener(DnsPort) = "dns"
  /\ DnsBusy
  /\ IsAnswer(m)
  /\ dns' = [dns EXCEPT
       !.state = CASE m.kind = "answer" -> "Ok"
                   [] m.kind \in {"other", "empty"} -> "NotFound"
                   [] m.kind = "failed" -> "Error",
       !.ip = IF m.kind \in {"answer", "other"} THEN m.ip ELSE @,
       !.retry = 0]
  /\ UNCHANGED <<assoc, calls, dnsNet>>

(* dns_timer when the time-out has elapsed. *)
DnsTimer ==
  /\ DnsBusy
  /\ \/ /\ dns.retry > 0
        /\ dns' = [dns EXCEPT !.retry = @ - 1]
        /\ \E frame \in BOOLEAN :
             dnsNet' = dnsNet \cup SentVia(dns.assoc, frame, {Query(dns.id, dns.name)})
        /\ UNCHANGED assoc
     \/ /\ dns.retry = 0
        /\ dns' = [dns EXCEPT !.state = "Error", !.assoc = NoAssoc]
        /\ assoc' = Unregistered(dns.assoc)
        /\ UNCHANGED dnsNet
  /\ UNCHANGED calls

(* External: what the name server may answer to the queries that were sent: *)
(* the address, records of other kinds only, none, or an error.  A response *)
(* that ends in the middle of the question changes nothing.                *)
Answers ==
  UNION {{Answer(q.id, "answer", q.name), Answer(q.id, "other", NoName),
          Answer(q.id, "empty", NoName), Answer(q.id, "failed", NoName)} : q \in dnsNet}

DnsNext ==
  \/ \E name \in Names : DnsRequest(name)
  \/ \E m \in Answers : DnsRec(m)
  \/ DnsTimer
=============================================================================
