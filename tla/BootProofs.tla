----------------------------- MODULE BootProofs -----------------------------
(***************************************************************************)
(* For every number of port table entries, files, hosts, servers, retries  *)
(* and calls: what the TFTP client stored is the file it was asked for,    *)
(* DHCP and DNS end with the answer to the last request only, and no       *)
(* client of the in-house stack loses its entry of the port table to       *)
(* another.                                                                *)
(*                                                                         *)
(* The invariant of NetBoot has one part per client, and each part speaks  *)
(* of the entries of its own client only.  A step of a client leaves the   *)
(* entries of the others alone (KeepsOthers), so each part is preserved by *)
(* the steps of its own client, and by the steps of the others because     *)
(* they do not touch it.  DHCP and DNS come first, then TFTP and the       *)
(* whole.                                                                  *)
(***************************************************************************)
EXTENDS NetBoot, FiniteSetTheorems, TLAPS

Entry == [port : {0, DhcpPort, DnsPort} \cup FirstPort .. LastPort,
          remote : {0, TftpPort} \cup 1 .. MaxSessions,
          handler : {"none", "tftp", "dhcp", "dns"}]

(* An entry without a port has no handler, and an entry with one has. *)
TableInv ==
  /\ assoc \in [Assocs -> Entry]
  /\ \A a \in Assocs : assoc[a].port = 0 <=> assoc[a].handler = "none"
  /\ calls \in 0 .. MaxCalls

Leases == [server : Servers \cup {NoServer}, xid : 0 .. MaxCalls]
Discovers == [kind : {"discover"}, xid : 0 .. MaxCalls]
Requests == [kind : {"request"}, xid : 0 .. MaxCalls, server : Servers \cup {NoServer},
             ip : Leases]

Settings == [ip : Leases \cup {Preset}, netmask : Leases \cup {Preset},
             gateway : Leases \cup {Preset}, dns : Leases \cup {Preset},
             boot : Leases \cup {Preset}]

DhcpType == [state : {"Idle", "Discover", "Request", "Ok", "Error"},
             assoc : {NoAssoc} \cup Assocs, retry : 0 .. DhcpRetries, xid : 0 .. MaxCalls,
             server : Servers \cup {NoServer}, ip : Leases]

(* The entry of the client; there is none after a request that was not sent. *)
DhcpPortInv ==
  /\ dhcp.state = "Request" => dhcp.assoc # NoAssoc
  /\ DhcpBusy /\ dhcp.assoc # NoAssoc => assoc[dhcp.assoc].handler = "dhcp"
  /\ \A a \in Assocs : assoc[a].handler = "dhcp" => DhcpBusy /\ dhcp.assoc = a

(* No request of an earlier transaction has the ID of this one, and all    *)
(* requests of this one ask for the same lease.                            *)
LeaseInv ==
  /\ \A m \in dhcpNet : m.xid <= dhcp.xid /\ (m.kind = "request" => m.ip.xid = m.xid)
  /\ dhcp.state = "Discover" => \A m \in dhcpNet : m.kind = "request" => m.xid # dhcp.xid
  /\ dhcp.state = "Request" =>
       /\ dhcp.ip.xid = dhcp.xid
       /\ \A m \in dhcpNet : m.kind = "request" /\ m.xid = dhcp.xid => m.ip = dhcp.ip

DhcpInv ==
  /\ dhcp \in DhcpType
  /\ settings \in Settings
  /\ dhcpNet \subseteq Discovers \cup Requests
  /\ dhcp.xid <= calls
  /\ DhcpPortInv
  /\ LeaseInv
  /\ SettingsBelongTogether

DnsEntries == {a \in Assocs : assoc[a].handler = "dns"}

DnsType == [state : {"Idle", "Request", "Ok", "NotFound", "Error"},
            assoc : {NoAssoc} \cup Assocs, retry : 0 .. DnsRetries, id : 0 .. MaxCalls,
            name : Names \cup {NoName}, ip : Names \cup {NoName}, ok : BOOLEAN]

(* No query on the network has the ID of the last one and another name. *)
DnsInv ==
  /\ dns \in DnsType
  /\ dnsNet \subseteq [id : 0 .. MaxCalls, name : Names]
  /\ dns.id <= calls
  /\ \A q \in dnsNet : q.id <= dns.id
  /\ DnsBusy => /\ dns.name \in Names
                /\ \A q \in dnsNet : q.id = dns.id => q.name = dns.name
                /\ dns.assoc \in Assocs
                /\ assoc[dns.assoc].handler = "dns"
  /\ AnswerFitsName
  /\ Cardinality(DnsEntries) <= dns.id

----------------------------------------------------------------------------
\* A nonempty set of numbers has a least one.
LEMMA LeastExists ==
    ASSUME NEW S \in SUBSET Nat, S # {}
    PROVE  \E i \in S : \A j \in S : i <= j
<1> DEFINE R == OpToRel(<, Nat)
<1>1. IsWellFoundedOn(R, Nat)
  BY NatLessThanWellFounded, Zenon
<1>2. \A i, j \in S : j < i => <<j, i>> \in R
  BY DEF OpToRel
<1> HIDE DEF R
<1>3. PICK i \in S : \A j \in S : ~ (<<j, i>> \in R)
  BY <1>1, WFMin, Zenon
<1>4. \A j \in S : i \in Nat /\ j \in Nat /\ ~ (j < i)
  BY Zenon, <1>2, <1>3
<1>5. \A j \in S : i <= j
  BY <1>4
<1> QED BY <1>5

----------------------------------------------------------------------------
(* The port table. *)

LEMMA LowestFacts ==
    ASSUME NEW S \in SUBSET Assocs, S # {}
    PROVE  Lowest(S) \in S
<1>1. S \in SUBSET Nat
  BY UdpAssumption DEF Assocs
<1>2. \E i \in S : \A j \in S : i <= j
  BY Zenon, <1>1, LeastExists
<1> QED BY <1>2 DEF Lowest

\* udp_registerPort hands out free entries only.
LEMMA NewAssocFacts ==
    ASSUME TableInv, NewAssoc # NoAssoc
    PROVE  NewAssoc \in Assocs /\ assoc[NewAssoc].handler = "none"
<1>1. Opened(0) # {} /\ NewAssoc = Lowest(Opened(0)) /\ Opened(0) \in SUBSET Assocs
  BY DEF NewAssoc, Opened
<1>2. NewAssoc \in Opened(0)
  BY <1>1, LowestFacts
<1> QED BY <1>2 DEF Opened, TableInv

\* A datagram that a handler gets was sent to the port of an entry of it.
LEMMA ListenerFacts ==
    ASSUME TableInv, NEW port, NEW h, Listener(port) = h, h # "none"
    PROVE  \E a \in Assocs : assoc[a].port = port /\ assoc[a].handler = h
<1>1. Opened(port) # {} /\ Opened(port) \in SUBSET Assocs
  BY DEF Listener, Opened
<1>2. Lowest(Opened(port)) \in Opened(port)
  BY <1>1, LowestFacts
<1> QED BY <1>1, <1>2 DEF Listener, Opened

\* What the other clients see of a step of the client with the handler h.
KeepsOthers(h) ==
  \A a \in Assocs :
    (assoc[a].handler \notin {h, "none"} \/ assoc'[a].handler \notin {h, "none"})
      => assoc'[a] = assoc[a]

LEMMA RegisteredFacts ==
    ASSUME TableInv, NewAssoc # NoAssoc,
           NEW port \in ({DhcpPort, DnsPort} \cup FirstPort .. LastPort),
           NEW remote \in {0, TftpPort}, NEW h \in {"tftp", "dhcp", "dns"},
           assoc' = Registered(port, remote, h)
    PROVE  /\ assoc' \in [Assocs -> Entry]
           /\ \A a \in Assocs : assoc'[a].port = 0 <=> assoc'[a].handler = "none"
           /\ KeepsOthers(h)
           /\ assoc'[NewAssoc] = [port |-> port, remote |-> remote, handler |-> h]
           /\ \A a \in Assocs : a # NewAssoc => assoc'[a] = assoc[a]
<1> DEFINE new == [port |-> port, remote |-> remote, handler |-> h]
<1>1. port # 0
  BY DhcpAssumption, DnsAssumption, TftpAssumption
<1>2. new \in Entry /\ new.handler = h /\ new.port = port
  BY DEF Entry
<1>3. NewAssoc \in Assocs /\ assoc[NewAssoc].handler = "none"
  BY NewAssocFacts
<1>4. \A a \in Assocs : assoc'[a] = IF a = NewAssoc THEN new ELSE assoc[a]
  BY DEF Registered
<1>5. assoc' \in [Assocs -> Entry]
  BY <1>2, <1>4 DEF Registered, TableInv
<1>6. \A a \in Assocs : assoc'[a].port = 0 <=> assoc'[a].handler = "none"
  BY <1>1, <1>2, <1>4 DEF TableInv
<1>7. KeepsOthers(h)
  BY <1>2, <1>3, <1>4 DEF KeepsOthers
<1> QED BY <1>3, <1>4, <1>5, <1>6, <1>7

LEMMA UnregisteredFacts ==
    ASSUME TableInv, NEW a \in {NoAssoc} \cup Assocs, NEW h,
           a # NoAssoc => assoc[a].handler = h, assoc' = Unregistered(a)
    PROVE  /\ assoc' \in [Assocs -> Entry]
           /\ \A b \in Assocs : assoc'[b].port = 0 <=> assoc'[b].handler = "none"
           /\ KeepsOthers(h)
           /\ a # NoAssoc => assoc'[a].handler = "none"
           /\ \A b \in Assocs : b # a => assoc'[b] = assoc[b]
<1>1. Closed \in Entry /\ Closed.port = 0 /\ Closed.handler = "none"
  BY DEF Closed, Entry
<1>2. \A b \in Assocs : assoc'[b] = IF b = a THEN Closed ELSE assoc[b]
  BY DEF Unregistered
<1>3. NoAssoc \notin Assocs
  BY DEF NoAssoc, Assocs
<1>4. assoc' \in [Assocs -> Entry]
  BY <1>1, <1>2 DEF Unregistered, TableInv
<1>5. \A b \in Assocs : assoc'[b].port = 0 <=> assoc'[b].handler = "none"
  BY <1>1, <1>2 DEF TableInv
<1>6. KeepsOthers(h)
  BY <1>1, <1>2, <1>3 DEF KeepsOthers
<1> QED BY <1>1, <1>2, <1>4, <1>5, <1>6

\* The table does not change, and a call is counted or not.
LEMMA SameTable ==
    ASSUME TableInv, assoc' = assoc, calls' \in calls .. MaxCalls, NEW h
    PROVE  TableInv' /\ KeepsOthers(h)
BY UdpAssumption DEF TableInv, KeepsOthers

\* A step that neither registers nor removes an entry, and calls nothing.
LEMMA QuietTable ==
    ASSUME TableInv, assoc' = assoc, calls' = calls, NEW h
    PROVE  TableInv' /\ KeepsOthers(h)
BY DEF TableInv, KeepsOthers

LEMMA CalledFacts ==
    ASSUME TableInv, Called
    PROVE  calls \in Nat /\ calls < MaxCalls /\ calls' = calls + 1 /\ calls' \in calls .. MaxCalls
           /\ calls' \in 0 .. MaxCalls /\ MaxCalls \in Nat
BY UdpAssumption DEF TableInv, Called

----------------------------------------------------------------------------
(* DNS *)

LEMMA DnsEntriesFinite ==
    ASSUME NEW S \in SUBSET Assocs
    PROVE  /\ IsFiniteSet(S) /\ Cardinality(S) \in Nat
           /\ \A T \in SUBSET S : Cardinality(T) <= Cardinality(S)
           /\ \A x : Cardinality(S \cup {x}) <= Cardinality(S) + 1
<1>1. IsFiniteSet(Assocs)
  BY UdpAssumption, FS_Interval DEF Assocs
<1>2. IsFiniteSet(S)
  BY <1>1, FS_Subset
<1>3. Cardinality(S) \in Nat
  BY <1>2, FS_CardinalityType
<1>4. \A T \in SUBSET S : Cardinality(T) <= Cardinality(S)
  BY <1>2, FS_Subset
<1>5. \A x : Cardinality(S \cup {x}) <= Cardinality(S) + 1
  BY <1>2, <1>3, FS_AddElement
<1> QED BY Zenon, <1>2, <1>3, <1>4, <1>5

\* The part of DNS holds whatever the others do.
LEMMA DnsKept ==
    ASSUME TableInv, DnsInv, TableInv', calls <= calls', UNCHANGED dnsVars,
           NEW h \in {"tftp", "dhcp"}, KeepsOthers(h)
    PROVE  DnsInv'
<1>1. dns' = dns /\ dnsNet' = dnsNet
  BY DEF dnsVars
<1>2. \A a \in Assocs : assoc'[a].handler = "dns" <=> assoc[a].handler = "dns"
  BY DEF KeepsOthers
<1>3. DnsEntries' = DnsEntries
  BY <1>2 DEF DnsEntries
<1>4. dns.id <= calls'
  BY DEF DnsInv, DnsType, TableInv
<1> QED BY <1>1, <1>2, <1>3, <1>4 DEF DnsInv, DnsBusy, AnswerFitsName

LEMMA DnsRequestStep ==
    ASSUME TableInv, DnsInv, NEW name \in Names, DnsRequest(name)
    PROVE  TableInv' /\ DnsInv' /\ KeepsOthers("dns")
<1>1. /\ calls \in Nat /\ calls < MaxCalls /\ calls' = calls + 1 /\ calls' \in calls .. MaxCalls
      /\ calls' \in 0 .. MaxCalls /\ MaxCalls \in Nat
  BY CalledFacts DEF DnsRequest
<1>2. PICK frame \in BOOLEAN :
       LET sent == NewAssoc # NoAssoc /\ frame IN
       /\ dns' = [dns EXCEPT
            !.name = name,
            !.ok = sent,
            !.id = IF NewAssoc # NoAssoc THEN @ + 1 ELSE @,
            !.assoc = IF sent THEN NewAssoc ELSE NoAssoc,
            !.state = IF sent THEN "Request" ELSE IF NewAssoc # NoAssoc THEN "Error" ELSE @,
            !.retry = IF sent THEN DnsRetries ELSE @]
       /\ assoc' = IF sent THEN Registered(DnsPort, 0, "dns") ELSE assoc
       /\ dnsNet' = dnsNet \cup IF sent THEN {Query(dns.id + 1, name)} ELSE {}
  BY Zenon DEF DnsRequest
<1>3. ~ DnsBusy /\ dns.id \in 0 .. MaxCalls /\ dns.id <= calls
  BY DEF DnsRequest, DnsInv, DnsType
<1>4. CASE NewAssoc # NoAssoc /\ frame
  <2>1. /\ dns' = [dns EXCEPT !.name = name, !.ok = TRUE, !.id = dns.id + 1, !.assoc = NewAssoc,
                              !.state = "Request", !.retry = DnsRetries]
        /\ assoc' = Registered(DnsPort, 0, "dns")
        /\ dnsNet' = dnsNet \cup {Query(dns.id + 1, name)}
    BY Zenon, <1>2, <1>4
  <2>2. /\ assoc' \in [Assocs -> Entry]
        /\ \A a \in Assocs : assoc'[a].port = 0 <=> assoc'[a].handler = "none"
        /\ KeepsOthers("dns")
        /\ assoc'[NewAssoc].handler = "dns"
        /\ \A a \in Assocs : a # NewAssoc => assoc'[a] = assoc[a]
        /\ NewAssoc \in Assocs
    <3>1. assoc'[NewAssoc] = [port |-> DnsPort, remote |-> 0, handler |-> "dns"]
      BY Zenon, <1>4, <2>1, RegisteredFacts
    <3>2. NewAssoc \in Assocs
      BY <1>4, NewAssocFacts
    <3>3. /\ assoc' \in [Assocs -> Entry]
          /\ \A a \in Assocs : assoc'[a].port = 0 <=> assoc'[a].handler = "none"
          /\ KeepsOthers("dns")
          /\ \A a \in Assocs : a # NewAssoc => assoc'[a] = assoc[a]
      BY Zenon, <1>4, <2>1, RegisteredFacts
    <3> QED BY <3>1, <3>2, <3>3
  <2>3. TableInv'
    BY <1>1, <2>2 DEF TableInv
  <2>4. DnsEntries' = DnsEntries \cup {NewAssoc}
    BY <2>2 DEF DnsEntries
  <2>5. DnsEntries \in SUBSET Assocs
    BY DEF DnsEntries
  <2>6. Cardinality(DnsEntries') <= dns.id + 1
    <3>1. Cardinality(DnsEntries) \in Nat
      BY <2>5, DnsEntriesFinite
    <3>2. Cardinality(DnsEntries \cup {NewAssoc}) <= Cardinality(DnsEntries) + 1
      BY Zenon, <2>5, DnsEntriesFinite
    <3>3. Cardinality(DnsEntries \cup {NewAssoc}) \in Nat
      BY <2>2, <2>5, DnsEntriesFinite
    <3>4. Cardinality(DnsEntries) <= dns.id
      BY DEF DnsInv
    <3> QED BY <1>3, <2>4, <3>1, <3>2, <3>3, <3>4
  <2>7. /\ dns' \in DnsType
        /\ dns'.id = dns.id + 1 /\ dns'.name = name /\ dns'.assoc = NewAssoc
        /\ dns'.state = "Request"
    <3>1. dns' = [state |-> "Request", assoc |-> NewAssoc, retry |-> DnsRetries, id |-> dns.id + 1,
                  name |-> name, ip |-> dns.ip, ok |-> TRUE]
      BY Zenon, <2>1 DEF DnsInv, DnsType
    <3> QED BY <1>1, <1>3, <2>2, <3>1, DnsAssumption DEF DnsInv, DnsType
  <2>8. \A q \in dnsNet' : q \in [id : 0 .. MaxCalls, name : Names] /\ q.id <= dns.id + 1
                           /\ (q.id = dns.id + 1 => q.name = name)
    BY <1>1, <1>3, <2>1 DEF DnsInv, Query
  <2>9. DnsInv'
    BY <1>1, <1>3, <2>2, <2>6, <2>7, <2>8 DEF DnsInv, DnsBusy, AnswerFitsName
  <2> QED BY <2>2, <2>3, <2>9
<1>5. CASE ~ (NewAssoc # NoAssoc /\ frame)
  <2>1. /\ dns' = [dns EXCEPT !.name = name, !.ok = FALSE,
                              !.id = IF NewAssoc # NoAssoc THEN dns.id + 1 ELSE dns.id,
                              !.assoc = NoAssoc,
                              !.state = IF NewAssoc # NoAssoc THEN "Error" ELSE dns.state]
        /\ assoc' = assoc /\ dnsNet' = dnsNet
    BY Zenon, <1>2, <1>5 DEF DnsInv
  <2>2. TableInv' /\ KeepsOthers("dns")
    BY <1>1, <2>1, SameTable
  <2>3. /\ dns' \in DnsType
        /\ dns'.id \in dns.id .. calls' /\ dns'.ok = FALSE /\ dns'.state # "Request"
    <3>1. dns' = [state |-> IF NewAssoc # NoAssoc THEN "Error" ELSE dns.state, assoc |-> NoAssoc,
                  retry |-> dns.retry, id |-> IF NewAssoc # NoAssoc THEN dns.id + 1 ELSE dns.id,
                  name |-> name, ip |-> dns.ip, ok |-> FALSE]
      BY Zenon, <2>1 DEF DnsInv, DnsType
    <3> QED BY <1>1, <1>3, <3>1 DEF DnsInv, DnsType, DnsBusy
  <2>4. DnsEntries' = DnsEntries /\ Cardinality(DnsEntries) \in Nat
    BY <2>1, DnsEntriesFinite DEF DnsEntries
  <2>5. Cardinality(DnsEntries') <= dns'.id
    BY <1>1, <1>3, <2>3, <2>4 DEF DnsInv
  <2>6. \A q \in dnsNet' : q \in [id : 0 .. MaxCalls, name : Names] /\ q.id <= dns'.id
    BY <1>1, <1>3, <2>1, <2>3 DEF DnsInv
  <2>7. DnsInv'
    BY <1>1, <2>3, <2>5, <2>6 DEF DnsInv, DnsBusy, AnswerFitsName
  <2> QED BY <2>2, <2>7
<1> QED BY <1>4, <1>5

LEMMA DnsRecStep ==
    ASSUME TableInv, DnsInv, NEW m \in Answers, DnsRec(m)
    PROVE  TableInv' /\ DnsInv' /\ KeepsOthers("dns")
<1>1. assoc' = assoc /\ calls' = calls /\ dnsNet' = dnsNet /\ DnsBusy /\ m.id = dns.id
  BY DEF DnsRec, IsAnswer
<1>2. TableInv' /\ KeepsOthers("dns")
  BY <1>1, QuietTable
<1>3. PICK q \in dnsNet : m \in {Answer(q.id, "answer", q.name), Answer(q.id, "other", NoName),
                                 Answer(q.id, "empty", NoName), Answer(q.id, "failed", NoName)}
  BY DEF Answers
<1>4. /\ m.id = q.id /\ m.kind \in {"answer", "other", "empty", "failed"}
      /\ m.kind = "answer" => m.ip = q.name
      /\ m.ip \in {q.name, NoName}
  BY <1>3 DEF Answer
<1>5. q.name = dns.name /\ dns.name \in Names
  BY <1>1, <1>4 DEF DnsInv
<1> DEFINE s == CASE m.kind = "answer" -> "Ok"
                  [] m.kind \in {"other", "empty"} -> "NotFound"
                  [] m.kind = "failed" -> "Error"
           a == IF m.kind \in {"answer", "other"} THEN m.ip ELSE dns.ip
<1>6. s \in {"Ok", "NotFound", "Error"} /\ (s = "Ok" => m.kind = "answer")
  BY <1>4
<1>7. dns' = [dns EXCEPT !.state = s, !.ip = a, !.retry = 0]
  BY DEF DnsRec
<1>8. a \in Names \cup {NoName} /\ (s = "Ok" => a = dns.name)
  BY <1>4, <1>5, <1>6 DEF DnsInv, DnsType
<1> HIDE DEF s, a
<1>9. dns' = [state |-> s, assoc |-> dns.assoc, retry |-> 0, id |-> dns.id,
              name |-> dns.name, ip |-> a, ok |-> dns.ok]
  BY Zenon, <1>7 DEF DnsInv, DnsType
<1>10. /\ dns' \in DnsType /\ dns'.state = s /\ s # "Request" /\ dns'.id = dns.id
       /\ dns'.name = dns.name /\ dns'.ip = a
  BY <1>6, <1>8, <1>9, DnsAssumption DEF DnsInv, DnsType
<1>11. DnsEntries' = DnsEntries
  BY <1>1 DEF DnsEntries
<1>12. DnsInv'
  BY <1>1, <1>8, <1>10, <1>11 DEF DnsInv, DnsBusy, AnswerFitsName
<1> QED BY <1>2, <1>12

LEMMA DnsTimerStep ==
    ASSUME TableInv, DnsInv, DnsTimer
    PROVE  TableInv' /\ DnsInv' /\ KeepsOthers("dns")
<1>1. /\ calls' = calls /\ calls \in 0 .. MaxCalls /\ MaxCalls \in Nat /\ DnsBusy
      /\ dns.assoc \in Assocs /\ assoc[dns.assoc].handler = "dns" /\ dns.name \in Names
      /\ dns \in DnsType /\ dns.retry \in Nat
  BY UdpAssumption, DnsAssumption DEF DnsTimer, DnsInv, DnsType, TableInv
<1>2. CASE dns.retry > 0 /\ dns' = [dns EXCEPT !.retry = @ - 1] /\ assoc' = assoc
           /\ \E frame \in BOOLEAN :
                dnsNet' = dnsNet \cup SentVia(dns.assoc, frame, {Query(dns.id, dns.name)})
  <2>1. TableInv' /\ KeepsOthers("dns")
    BY <1>1, <1>2, SameTable
  <2>2. dns' = [state |-> dns.state, assoc |-> dns.assoc, retry |-> dns.retry - 1, id |-> dns.id,
                name |-> dns.name, ip |-> dns.ip, ok |-> dns.ok]
    BY <1>1, <1>2 DEF DnsType
  <2>3. /\ dns' \in DnsType /\ dns'.state = dns.state /\ dns'.id = dns.id
        /\ dns'.name = dns.name /\ dns'.ip = dns.ip /\ dns'.ok = dns.ok /\ dns'.assoc = dns.assoc
    BY <1>1, <1>2, <2>2, DnsAssumption DEF DnsType
  <2>4. \A q \in dnsNet' : /\ q \in [id : 0 .. MaxCalls, name : Names]
                           /\ q.id <= dns.id
                           /\ q.id = dns.id => q.name = dns.name
    <3>1. \A q \in dnsNet' : q \in dnsNet \/ q = Query(dns.id, dns.name)
      BY <1>2 DEF SentVia
    <3>2. ASSUME NEW q \in dnsNet
          PROVE  /\ q \in [id : 0 .. MaxCalls, name : Names]
                 /\ q.id <= dns.id
                 /\ q.id = dns.id => q.name = dns.name
      BY <1>1 DEF DnsInv
    <3>3. /\ Query(dns.id, dns.name) \in [id : 0 .. MaxCalls, name : Names]
          /\ Query(dns.id, dns.name).id = dns.id
          /\ Query(dns.id, dns.name).name = dns.name /\ dns.id <= dns.id
      BY <1>1 DEF Query, DnsType
    <3> QED BY <3>1, <3>2, <3>3
  <2>5. DnsEntries' = DnsEntries
    BY <1>2 DEF DnsEntries
  <2>6. DnsInv'
    BY Zenon, <1>1, <1>2, <2>3, <2>4, <2>5 DEF DnsInv, DnsBusy, AnswerFitsName
  <2> QED BY <2>1, <2>6
<1>3. CASE /\ dns' = [dns EXCEPT !.state = "Error", !.assoc = NoAssoc]
           /\ assoc' = Unregistered(dns.assoc) /\ dnsNet' = dnsNet
  <2>1. /\ assoc' \in [Assocs -> Entry]
        /\ \A b \in Assocs : assoc'[b].port = 0 <=> assoc'[b].handler = "none"
        /\ KeepsOthers("dns")
        /\ assoc'[dns.assoc].handler = "none"
        /\ \A b \in Assocs : b # dns.assoc => assoc'[b] = assoc[b]
    <3>1. dns.assoc # NoAssoc
      BY <1>1 DEF NoAssoc, Assocs
    <3> QED BY <1>1, <1>3, <3>1, UnregisteredFacts
  <2>2. TableInv'
    BY <1>1, <2>1 DEF TableInv
  <2>3. dns' = [state |-> "Error", assoc |-> NoAssoc, retry |-> dns.retry, id |-> dns.id,
                name |-> dns.name, ip |-> dns.ip, ok |-> dns.ok]
    BY Zenon, <1>1, <1>3 DEF DnsType
  <2>4. dns' \in DnsType /\ dns'.state = "Error" /\ dns'.id = dns.id
    BY <1>1, <2>3 DEF DnsType
  <2>5. DnsEntries' \in SUBSET DnsEntries /\ DnsEntries \in SUBSET Assocs
    BY <2>1 DEF DnsEntries
  <2>6. Cardinality(DnsEntries') <= dns.id
    <3>1. Cardinality(DnsEntries') \in Nat /\ Cardinality(DnsEntries) \in Nat
      BY <2>5, DnsEntriesFinite
    <3>2. Cardinality(DnsEntries') <= Cardinality(DnsEntries)
      BY <2>5, DnsEntriesFinite
    <3> QED BY <1>1, <3>1, <3>2 DEF DnsInv, DnsType
  <2>7. DnsInv'
    BY <1>1, <1>3, <2>4, <2>6 DEF DnsInv, DnsBusy, AnswerFitsName
  <2> QED BY <2>1, <2>2, <2>7
<1> QED BY <1>2, <1>3 DEF DnsTimer

LEMMA DnsStep ==
    ASSUME TableInv, DnsInv, DnsNext
    PROVE  TableInv' /\ DnsInv' /\ KeepsOthers("dns")
BY DnsRequestStep, DnsRecStep, DnsTimerStep DEF DnsNext

----------------------------------------------------------------------------
(* DHCP *)

LEMMA DhcpKept ==
    ASSUME TableInv, DhcpInv, TableInv', calls <= calls', UNCHANGED dhcpVars,
           NEW h \in {"tftp", "dns"}, KeepsOthers(h)
    PROVE  DhcpInv'
<1>1. dhcp' = dhcp /\ dhcpNet' = dhcpNet /\ settings' = settings
  BY DEF dhcpVars
<1>2. \A a \in Assocs : assoc'[a].handler = "dhcp" <=> assoc[a].handler = "dhcp"
  BY DEF KeepsOthers
<1>3. dhcp.assoc \in {NoAssoc} \cup Assocs /\ dhcp.xid <= calls'
  BY DEF DhcpInv, DhcpType, TableInv
<1>4. DhcpPortInv'
  BY <1>1, <1>2, <1>3 DEF DhcpInv, DhcpPortInv, DhcpBusy
<1> QED BY Zenon, <1>1, <1>3, <1>4 DEF DhcpInv, LeaseInv, SettingsBelongTogether

LEMMA DhcpRequestStep ==
    ASSUME TableInv, DhcpInv, DhcpRequest
    PROVE  TableInv' /\ DhcpInv' /\ KeepsOthers("dhcp")
<1>1. /\ calls \in Nat /\ calls < MaxCalls /\ calls' = calls + 1 /\ calls' \in calls .. MaxCalls
      /\ calls' \in 0 .. MaxCalls /\ MaxCalls \in Nat
  BY CalledFacts DEF DhcpRequest
<1>2. /\ ~ DhcpBusy /\ dhcp \in DhcpType /\ dhcp.xid \in 0 .. MaxCalls /\ dhcp.xid <= calls
      /\ settings' = settings /\ NewAssoc # NoAssoc /\ NewAssoc \in Assocs
  BY NewAssocFacts DEF DhcpRequest, DhcpInv, DhcpType
<1>3. PICK frame \in BOOLEAN :
       /\ dhcp' = [dhcp EXCEPT
            !.xid = @ + 1,
            !.assoc = IF frame THEN NewAssoc ELSE NoAssoc,
            !.state = IF frame THEN "Discover" ELSE "Error",
            !.retry = IF frame THEN DhcpRetries ELSE @]
       /\ assoc' = IF frame THEN Registered(DhcpPort, 0, "dhcp") ELSE assoc
       /\ dhcpNet' = dhcpNet \cup IF frame THEN {Discover(dhcp.xid + 1)} ELSE {}
  BY Zenon DEF DhcpRequest
<1>4. dhcp' = [state |-> IF frame THEN "Discover" ELSE "Error",
               assoc |-> IF frame THEN NewAssoc ELSE NoAssoc,
               retry |-> IF frame THEN DhcpRetries ELSE dhcp.retry, xid |-> dhcp.xid + 1,
               server |-> dhcp.server, ip |-> dhcp.ip]
  BY Zenon, <1>2, <1>3 DEF DhcpType
<1>5. dhcp' \in DhcpType /\ dhcp'.xid = dhcp.xid + 1 /\ dhcp'.xid <= calls'
  BY <1>1, <1>2, <1>4, DhcpAssumption DEF DhcpType
<1>6. \A m \in dhcpNet' : \/ m \in dhcpNet
                          \/ m = Discover(dhcp.xid + 1)
  BY <1>3
<1>7. dhcpNet' \subseteq Discovers \cup Requests
  BY <1>1, <1>2, <1>6 DEF DhcpInv, Discover, Discovers
<1>8. \A m \in dhcpNet : m.xid <= dhcp.xid /\ m.xid \in Nat /\ (m.kind = "request" => m.ip.xid = m.xid)
  BY DEF DhcpInv, LeaseInv, Discovers, Requests
<1>9. LeaseInv'
  <2>1. \A m \in dhcpNet' : /\ m.xid <= dhcp.xid + 1
                            /\ m.kind = "request" => m.ip.xid = m.xid /\ m.xid # dhcp.xid + 1
    BY <1>2, <1>6, <1>8 DEF Discover
  <2>2. dhcp'.state # "Request"
    BY <1>4
  <2> QED BY <1>5, <2>1, <2>2 DEF LeaseInv
<1>10. SettingsBelongTogether'
  BY Zenon, <1>2, <1>4 DEF DhcpInv, SettingsBelongTogether
<1>11. CASE frame
  <2>1. assoc' = Registered(DhcpPort, 0, "dhcp") /\ dhcp'.assoc = NewAssoc
        /\ dhcp'.state = "Discover"
    BY <1>3, <1>4, <1>11
  <2>2. /\ assoc' \in [Assocs -> Entry]
        /\ \A a \in Assocs : assoc'[a].port = 0 <=> assoc'[a].handler = "none"
        /\ KeepsOthers("dhcp")
        /\ assoc'[NewAssoc] = [port |-> DhcpPort, remote |-> 0, handler |-> "dhcp"]
        /\ \A a \in Assocs : a # NewAssoc => assoc'[a] = assoc[a]
    BY Zenon, <1>2, <2>1, RegisteredFacts
  <2>3. TableInv'
    BY <1>1, <2>2 DEF TableInv
  <2>4. DhcpPortInv'
    BY <1>2, <2>1, <2>2 DEF DhcpInv, DhcpPortInv, DhcpBusy
  <2> QED BY <1>2, <1>5, <1>7, <1>9, <1>10, <2>2, <2>3, <2>4 DEF DhcpInv
<1>12. CASE ~ frame
  <2>1. assoc' = assoc /\ dhcp'.state = "Error"
    BY <1>3, <1>4, <1>12
  <2>2. TableInv' /\ KeepsOthers("dhcp")
    BY <1>1, <2>1, SameTable
  <2>3. DhcpPortInv'
    BY <1>2, <2>1 DEF DhcpInv, DhcpPortInv, DhcpBusy
  <2> QED BY <1>2, <1>5, <1>7, <1>9, <1>10, <2>2, <2>3 DEF DhcpInv
<1> QED BY <1>11, <1>12

\* dhcp_cleanup gives the entry back, if there is one.
LEMMA DhcpEndFacts ==
    ASSUME TableInv, DhcpInv, DhcpBusy, NEW st \in {"Ok", "Error"}, DhcpEnd(st), calls' = calls
    PROVE  /\ TableInv' /\ KeepsOthers("dhcp") /\ DhcpPortInv'
           /\ dhcp' = [state |-> st, assoc |-> NoAssoc, retry |-> 0, xid |-> dhcp.xid,
                       server |-> NoServer, ip |-> dhcp.ip]
           /\ dhcp' \in DhcpType /\ dhcpNet' = dhcpNet
           /\ dhcp'.xid <= calls' /\ LeaseInv'
<1>1. dhcp \in DhcpType /\ dhcp.assoc \in {NoAssoc} \cup Assocs
      /\ (dhcp.assoc # NoAssoc => assoc[dhcp.assoc].handler = "dhcp")
  BY DEF DhcpInv, DhcpType, DhcpPortInv
<1>2. assoc' = Unregistered(dhcp.assoc) /\ dhcpNet' = dhcpNet
      /\ dhcp' = [dhcp EXCEPT !.state = st, !.assoc = NoAssoc, !.retry = 0, !.server = NoServer]
  BY DEF DhcpEnd
<1>3. dhcp' = [state |-> st, assoc |-> NoAssoc, retry |-> 0, xid |-> dhcp.xid,
               server |-> NoServer, ip |-> dhcp.ip]
  BY Zenon, <1>1, <1>2 DEF DhcpType
<1>4. dhcp' \in DhcpType
  BY <1>1, <1>3, DhcpAssumption DEF DhcpType
<1>5. /\ assoc' \in [Assocs -> Entry]
      /\ \A b \in Assocs : assoc'[b].port = 0 <=> assoc'[b].handler = "none"
      /\ KeepsOthers("dhcp")
      /\ dhcp.assoc # NoAssoc => assoc'[dhcp.assoc].handler = "none"
      /\ \A b \in Assocs : b # dhcp.assoc => assoc'[b] = assoc[b]
  BY <1>1, <1>2, UnregisteredFacts
<1>6. TableInv'
  BY <1>5 DEF TableInv
<1>7. \A b \in Assocs : assoc'[b].handler # "dhcp"
  <2> SUFFICES ASSUME NEW b \in Assocs, assoc'[b].handler = "dhcp" PROVE FALSE
    OBVIOUS
  <2>1. b # NoAssoc
    BY DEF NoAssoc, Assocs
  <2>2. CASE b = dhcp.assoc
    BY <1>5, <2>1, <2>2
  <2>3. CASE b # dhcp.assoc
    BY <1>5, <2>3 DEF DhcpInv, DhcpPortInv
  <2> QED BY <2>2, <2>3
<1>8. DhcpPortInv'
  BY <1>3, <1>7 DEF DhcpPortInv, DhcpBusy
<1>9. LeaseInv' /\ dhcp'.xid <= calls'
  BY <1>2, <1>3 DEF DhcpInv, LeaseInv
<1> QED BY Zenon, <1>2, <1>3, <1>4, <1>5, <1>6, <1>8, <1>9

\* What the servers answer belongs to a packet of the client.
LEMMA DhcpAnswerFacts ==
    ASSUME DhcpInv, NEW m \in Offers \cup Replies
    PROVE  /\ m.kind = "offer" => /\ m.server \in Servers \cup {NoServer}
                                  /\ m.ip \in Leases /\ m.ip.xid = m.xid
           /\ m.kind = "ack" =>
                \E r \in dhcpNet : r.kind = "request" /\ r.xid = m.xid /\ r.ip = m.ip
<1>1. CASE m \in Offers
  <2>1. PICK d \in dhcpNet, srv \in Servers :
          d.kind = "discover" /\ m \in {Offer(d.xid, srv, Lease(srv, d.xid)),
                                        Offer(d.xid, NoServer, Lease(srv, d.xid))}
    BY <1>1 DEF Offers
  <2>2. d.xid \in 0 .. MaxCalls
    BY DEF DhcpInv, Discovers, Requests
  <2>3. m.kind = "offer" /\ m.server \in {srv, NoServer} /\ m.ip = Lease(srv, d.xid)
        /\ m.xid = d.xid
    BY <2>1 DEF Offer
  <2> QED BY <2>2, <2>3 DEF Lease, Leases
<1>2. CASE m \in Replies
  <2>1. PICK r \in dhcpNet :
          /\ r.kind = "request"
          /\ m \in {Nak(r.xid)} \cup {Ack(r.xid, r.ip, opts) : opts \in OptionSets}
    BY <1>2 DEF Replies
  <2>2. CASE m = Nak(r.xid)
    BY <2>2 DEF Nak
  <2>3. ASSUME NEW opts \in OptionSets, m = Ack(r.xid, r.ip, opts)
        PROVE  m.kind = "ack" /\ r.kind = "request" /\ r.xid = m.xid /\ r.ip = m.ip
    BY <2>1, <2>3 DEF Ack
  <2> QED BY <2>1, <2>2, <2>3
<1> QED BY <1>1, <1>2

LEMMA RecOfferStep ==
    ASSUME TableInv, DhcpInv, NEW m \in Offers \cup Replies, Listener(DhcpPort) = "dhcp",
           RecOffer(m), calls' = calls
    PROVE  TableInv' /\ DhcpInv' /\ KeepsOthers("dhcp")
<1>1. /\ dhcp.state = "Discover" /\ m.kind = "offer" /\ m.xid = dhcp.xid
      /\ m.server \in Servers \cup {NoServer} /\ m.ip \in Leases /\ m.ip.xid = m.xid
      /\ settings' = settings /\ dhcp \in DhcpType /\ dhcp.xid \in 0 .. MaxCalls
      /\ dhcp.xid <= calls'
      /\ calls' \in calls .. MaxCalls /\ dhcp.assoc \in {NoAssoc} \cup Assocs
      /\ (dhcp.assoc # NoAssoc => assoc[dhcp.assoc].handler = "dhcp")
  BY DhcpAnswerFacts, UdpAssumption
     DEF RecOffer, ForMe, DhcpInv, DhcpType, DhcpPortInv, DhcpBusy, TableInv
<1>2. CASE /\ dhcp' = [dhcp EXCEPT !.server = m.server, !.ip = m.ip,
                                  !.state = "Request", !.retry = DhcpRetries]
           /\ dhcpNet' = dhcpNet \cup {Request(dhcp.xid, m.server, m.ip)}
           /\ assoc' = assoc /\ dhcp.assoc # NoAssoc
  <2>1. TableInv' /\ KeepsOthers("dhcp")
    BY <1>1, <1>2, SameTable
  <2>2. dhcp' = [state |-> "Request", assoc |-> dhcp.assoc, retry |-> DhcpRetries,
                 xid |-> dhcp.xid, server |-> m.server, ip |-> m.ip]
    BY Zenon, <1>1, <1>2 DEF DhcpType
  <2>3. dhcp' \in DhcpType
    BY <1>1, <2>2, DhcpAssumption DEF DhcpType
  <2>4. DhcpPortInv'
    BY SMTT(30), <1>1, <1>2, <2>2 DEF DhcpInv, DhcpPortInv, DhcpBusy
  <2>5. LET r == Request(dhcp.xid, m.server, m.ip)
        IN  r \in Requests /\ r.xid = dhcp.xid /\ r.ip = m.ip
    BY <1>1 DEF Request, Requests
  <2>6. \A r \in dhcpNet' : r \in dhcpNet \/ r = Request(dhcp.xid, m.server, m.ip)
    BY <1>2
  <2>7. dhcpNet' \subseteq Discovers \cup Requests
    BY <2>5, <2>6 DEF DhcpInv
  <2>8. \A r \in dhcpNet : /\ r.xid <= dhcp.xid
                           /\ r.kind = "request" => r.ip.xid = r.xid /\ r.xid # dhcp.xid
    BY <1>1 DEF DhcpInv, LeaseInv
  <2>9. \A r \in dhcpNet' : /\ r.xid <= dhcp.xid
                            /\ r.kind = "request" => r.ip.xid = r.xid
                            /\ r.kind = "request" /\ r.xid = dhcp.xid => r.ip = m.ip
    BY <1>1, <2>5, <2>6, <2>8
  <2>10. LeaseInv' /\ SettingsBelongTogether'
    BY Zenon, <1>1, <2>2, <2>9 DEF LeaseInv, DhcpInv, SettingsBelongTogether
  <2> QED BY <1>1, <2>1, <2>2, <2>3, <2>4, <2>7, <2>10 DEF DhcpInv
<1>3. CASE /\ dhcp' = [dhcp EXCEPT !.server = m.server, !.ip = m.ip, !.assoc = NoAssoc]
           /\ assoc' = Unregistered(dhcp.assoc)
           /\ dhcpNet' = dhcpNet
  <2>1. /\ assoc' \in [Assocs -> Entry]
        /\ \A b \in Assocs : assoc'[b].port = 0 <=> assoc'[b].handler = "none"
        /\ KeepsOthers("dhcp")
        /\ dhcp.assoc # NoAssoc => assoc'[dhcp.assoc].handler = "none"
        /\ \A b \in Assocs : b # dhcp.assoc => assoc'[b] = assoc[b]
    BY <1>1, <1>3, UnregisteredFacts
  <2>2. TableInv'
    BY <2>1 DEF TableInv
  <2>3. dhcp' = [state |-> "Discover", assoc |-> NoAssoc, retry |-> dhcp.retry,
                 xid |-> dhcp.xid, server |-> m.server, ip |-> m.ip]
    BY Zenon, <1>1, <1>3 DEF DhcpType
  <2>4. dhcp' \in DhcpType
    BY <1>1, <2>3 DEF DhcpType
  <2>5. \A b \in Assocs : assoc'[b].handler # "dhcp"
    <3>1. \A b \in Assocs : b # NoAssoc
      BY DEF NoAssoc, Assocs
    <3>2. \A b \in Assocs : assoc[b].handler = "dhcp" => dhcp.assoc = b
      BY SMTT(30) DEF DhcpInv, DhcpPortInv
    <3> QED BY <2>1, <3>1, <3>2
  <2>6. DhcpPortInv'
    BY <2>3, <2>5 DEF DhcpPortInv, DhcpBusy
  <2>7. LeaseInv' /\ SettingsBelongTogether'
    BY Zenon, <1>1, <1>3, <2>3 DEF LeaseInv, DhcpInv, SettingsBelongTogether
  <2> QED BY <1>1, <1>3, <2>1, <2>2, <2>3, <2>4, <2>6, <2>7 DEF DhcpInv
<1>4. dhcp.assoc # NoAssoc
  <2>1. \E a \in Assocs : assoc[a].handler = "dhcp"
    BY ListenerFacts
  <2> QED BY <2>1 DEF DhcpInv, DhcpPortInv, NoAssoc, Assocs
<1> QED BY <1>2, <1>3, <1>4 DEF RecOffer

LEMMA RecAckStep ==
    ASSUME TableInv, DhcpInv, NEW m \in Offers \cup Replies, RecAck(m), calls' = calls
    PROVE  TableInv' /\ DhcpInv' /\ KeepsOthers("dhcp")
<1> DEFINE st == IF Complete(m.opts) THEN "Ok" ELSE "Error"
<1>1. /\ dhcp.state = "Request" /\ m.kind = "ack" /\ m.xid = dhcp.xid /\ DhcpBusy
      /\ DhcpEnd(st) /\ settings' = Accepted(m.ip, m.opts) /\ settings \in Settings
      /\ dhcp.ip \in Leases /\ dhcp.ip.xid = dhcp.xid
  BY DEF RecAck, ForMe, DhcpBusy, DhcpInv, DhcpType, LeaseInv
<1>2. PICK r \in dhcpNet : r.kind = "request" /\ r.xid = m.xid /\ r.ip = m.ip
  BY <1>1, DhcpAnswerFacts
<1>3. m.ip = dhcp.ip
  BY <1>1, <1>2 DEF DhcpInv, LeaseInv
<1>4. st \in {"Ok", "Error"} /\ (st = "Ok" <=> Complete(m.opts))
  OBVIOUS
<1>5. /\ TableInv' /\ KeepsOthers("dhcp") /\ DhcpPortInv'
      /\ dhcp' = [state |-> st, assoc |-> NoAssoc, retry |-> 0, xid |-> dhcp.xid,
                  server |-> NoServer, ip |-> dhcp.ip]
      /\ dhcp' \in DhcpType /\ dhcpNet' = dhcpNet
      /\ dhcp'.xid <= calls' /\ LeaseInv'
  <2> HIDE DEF st
  <2> QED BY Zenon, <1>1, <1>4, DhcpEndFacts
<1>6. CASE Complete(m.opts)
  <2> DEFINE d == IF "dns" \in m.opts THEN m.ip ELSE settings.dns
             b == IF "boot" \in m.opts THEN m.ip ELSE settings.boot
  <2>1. settings' = [settings EXCEPT !.ip = m.ip, !.netmask = m.ip, !.gateway = m.ip,
                                     !.dns = d, !.boot = b]
    BY SMTT(30), <1>1, <1>6 DEF Accepted
  <2>2. d \in Leases \cup {Preset} /\ b \in Leases \cup {Preset}
    BY <1>1, <1>3 DEF Settings
  <2> HIDE DEF d, b
  <2>3. settings' = [ip |-> m.ip, netmask |-> m.ip, gateway |-> m.ip, dns |-> d, boot |-> b]
    BY Zenon, <1>1, <2>1 DEF Settings
  <2>4. settings' \in Settings /\ SettingsBelongTogether'
    BY <1>1, <1>3, <1>5, <2>2, <2>3 DEF Settings, SettingsBelongTogether
  <2> QED BY <1>5, <2>4 DEF DhcpInv
<1>7. CASE ~ Complete(m.opts)
  <2>1. settings' = settings /\ dhcp'.state = "Error"
    BY <1>1, <1>5, <1>7 DEF Accepted
  <2> QED BY Zenon, <1>1, <1>5, <2>1 DEF DhcpInv, SettingsBelongTogether
<1> QED BY <1>6, <1>7

\* The end of a request without an answer.
LEMMA DhcpGivesUp ==
    ASSUME TableInv, DhcpInv, DhcpBusy, DhcpEnd("Error"), UNCHANGED <<calls, settings>>
    PROVE  TableInv' /\ DhcpInv' /\ KeepsOthers("dhcp")
<1>1. /\ TableInv' /\ KeepsOthers("dhcp") /\ DhcpPortInv'
      /\ dhcp'.state = "Error" /\ dhcp' \in DhcpType /\ dhcpNet' = dhcpNet
      /\ dhcp'.xid <= calls' /\ LeaseInv'
  <2>1. dhcp' = [state |-> "Error", assoc |-> NoAssoc, retry |-> 0, xid |-> dhcp.xid,
                 server |-> NoServer, ip |-> dhcp.ip]
    BY DhcpEndFacts
  <2> QED BY <2>1, DhcpEndFacts
<1> QED BY Zenon, <1>1 DEF DhcpInv, SettingsBelongTogether

LEMMA DhcpTimerStep ==
    ASSUME TableInv, DhcpInv, DhcpTimer
    PROVE  TableInv' /\ DhcpInv' /\ KeepsOthers("dhcp")
<1>1. /\ calls' = calls /\ calls' \in calls .. MaxCalls /\ DhcpBusy /\ settings' = settings
      /\ dhcp \in DhcpType /\ dhcp.retry \in 0 .. DhcpRetries /\ dhcp.xid \in 0 .. MaxCalls
  BY UdpAssumption DEF DhcpTimer, DhcpInv, DhcpType, TableInv
<1>2. CASE dhcp.retry = 0 /\ DhcpEnd("Error")
  BY <1>1, <1>2, DhcpGivesUp
<1>3. CASE dhcp.retry > 0 /\ dhcp' = [dhcp EXCEPT !.retry = @ - 1] /\ assoc' = assoc
           /\ \E frame \in BOOLEAN :
                dhcpNet' = dhcpNet \cup SentVia(dhcp.assoc, frame,
                  IF dhcp.state = "Discover" THEN {Discover(dhcp.xid)}
                  ELSE {Request(dhcp.xid, dhcp.server, dhcp.ip)})
  <2>1. TableInv' /\ KeepsOthers("dhcp")
    BY <1>1, <1>3, SameTable
  <2>2. dhcp' = [state |-> dhcp.state, assoc |-> dhcp.assoc, retry |-> dhcp.retry - 1,
                 xid |-> dhcp.xid, server |-> dhcp.server, ip |-> dhcp.ip]
    BY <1>1, <1>3 DEF DhcpType
  <2>3. dhcp' \in DhcpType
    BY <1>1, <1>3, <2>2, DhcpAssumption DEF DhcpType
  <2>4. DhcpPortInv' /\ SettingsBelongTogether'
    BY Zenon, <1>1, <1>3, <2>2 DEF DhcpInv, DhcpPortInv, DhcpBusy, SettingsBelongTogether
  <2>5. CASE dhcp.state = "Discover"
    <3>1. \A r \in dhcpNet' : r \in dhcpNet \/ r = Discover(dhcp.xid)
      BY <1>3, <2>5 DEF SentVia
    <3>2. Discover(dhcp.xid) \in Discovers /\ Discover(dhcp.xid).xid = dhcp.xid
          /\ Discover(dhcp.xid).kind = "discover" /\ dhcp.xid <= dhcp.xid
      BY <1>1 DEF Discover, Discovers
    <3>3. dhcpNet' \subseteq Discovers \cup Requests
      BY <3>1, <3>2 DEF DhcpInv
    <3>4. \A r \in dhcpNet : /\ r.xid <= dhcp.xid
                             /\ r.kind = "request" => r.ip.xid = r.xid /\ r.xid # dhcp.xid
      BY <2>5 DEF DhcpInv, LeaseInv
    <3>5. LeaseInv'
      BY <2>2, <2>5, <3>1, <3>2, <3>4 DEF LeaseInv
    <3> QED BY <1>1, <2>1, <2>2, <2>3, <2>4, <3>3, <3>5 DEF DhcpInv
  <2>6. CASE dhcp.state = "Request"
    <3> DEFINE q == Request(dhcp.xid, dhcp.server, dhcp.ip)
    <3>1. \A r \in dhcpNet' : r \in dhcpNet \/ r = q
      BY <1>3, <2>6 DEF SentVia
    <3>2. q \in Requests /\ q.xid = dhcp.xid /\ q.ip = dhcp.ip /\ dhcp.xid <= dhcp.xid
          /\ dhcp.ip.xid = dhcp.xid
      BY <1>1, <2>6 DEF Request, Requests, DhcpType, DhcpInv, LeaseInv
    <3> HIDE DEF q
    <3>3. dhcpNet' \subseteq Discovers \cup Requests
      BY <3>1, <3>2 DEF DhcpInv
    <3>4. \A r \in dhcpNet : /\ r.xid <= dhcp.xid
                             /\ r.kind = "request" => r.ip.xid = r.xid
                             /\ r.kind = "request" /\ r.xid = dhcp.xid => r.ip = dhcp.ip
      BY <2>6 DEF DhcpInv, LeaseInv
    <3>5. LeaseInv'
      BY <2>2, <2>6, <3>1, <3>2, <3>4 DEF LeaseInv
    <3> QED BY <1>1, <2>1, <2>2, <2>3, <2>4, <3>3, <3>5 DEF DhcpInv
  <2> QED BY <1>1, <2>5, <2>6 DEF DhcpBusy
<1> QED BY Zenon, <1>2, <1>3 DEF DhcpTimer

LEMMA DhcpStep ==
    ASSUME TableInv, DhcpInv, DhcpNext
    PROVE  TableInv' /\ DhcpInv' /\ KeepsOthers("dhcp")
<1>1. ASSUME NEW m \in Offers \cup Replies, DhcpRec(m)
      PROVE  TableInv' /\ DhcpInv' /\ KeepsOthers("dhcp")
  <2>1. Listener(DhcpPort) = "dhcp" /\ calls' = calls
    BY <1>1 DEF DhcpRec
  <2>2. CASE RecOffer(m)
    BY <2>1, <2>2, RecOfferStep
  <2>3. CASE RecAck(m)
    BY <2>1, <2>3, RecAckStep
  <2>4. CASE RecNak(m)
    BY <2>1, <2>4, DhcpGivesUp DEF RecNak, DhcpBusy
  <2> QED BY <1>1, <2>2, <2>3, <2>4 DEF DhcpRec
<1> QED BY Zenon, <1>1, DhcpRequestStep, DhcpTimerStep DEF DhcpNext

-----------------------------------------------------------------------------
(* TFTP *)


OpenPackets == [kind : {"open"}, from : FirstPort .. LastPort, file : Files]
AckPackets(n) == [kind : {"ack"}, to : 1 .. n, nr : 0 .. BlockMod - 1, idx : Nat]
Session == [port : FirstPort .. LastPort, file : Files, block : Nat]

TftpType == [state : {"Idle", "Init", "Transfer", "Finished", "Error"},
             assoc : {NoAssoc} \cup Assocs, port : FirstPort .. LastPort,
             expected : 0 .. BlockMod - 1, retry : 0 .. TftpRetries, file : Files,
             loaded : Seq(Files \X (Nat \ {0})), ok : BOOLEAN]

TftpTypeInv ==
  /\ tftp \in TftpType
  /\ sessions \in Seq(Session) /\ Len(sessions) <= MaxSessions
  /\ tftpNet \subseteq OpenPackets \cup AckPackets(Len(sessions))

(* The entry of the client, and who is at the other end of it. *)
TftpPortInv ==
  /\ TftpBusy => /\ tftp.assoc \in Assocs
                 /\ assoc[tftp.assoc].handler = "tftp"
                 /\ assoc[tftp.assoc].port \in FirstPort .. LastPort
                 /\ tftp.ok
  /\ \A a \in Assocs : assoc[a].handler = "tftp" => TftpBusy /\ tftp.assoc = a
  /\ tftp.state = "Transfer" => assoc[tftp.assoc].remote \in 1 .. Len(sessions)

CurrentPort == assoc[tftp.assoc].port

(* The port of the next transfer was not used before. *)
FreshInv ==
  calls < MaxCalls =>
    /\ tftp.port <= FirstPort + calls
    /\ TftpBusy => CurrentPort < tftp.port
    /\ \A m \in tftpNet : m.kind = "open" => m.from < tftp.port
    /\ \A t \in 1 .. Len(sessions) : sessions[t].port < tftp.port

(* What the server knows of the transfer that is running: its file, and at  *)
(* most one block more than the client has.                                *)
ServerInv ==
  TftpBusy =>
    /\ \A m \in tftpNet : m.kind = "open" /\ m.from = CurrentPort => m.file = tftp.file
    /\ \A m \in tftpNet :
         m.kind = "ack" /\ sessions[m.to].port = CurrentPort => m.idx <= Len(tftp.loaded)
    /\ \A t \in 1 .. Len(sessions) :
         sessions[t].port = CurrentPort =>
           sessions[t].file = tftp.file /\ sessions[t].block <= Len(tftp.loaded) + 1

(* Block numbers are indices modulo BlockMod. *)
CountInv ==
  /\ \A m \in tftpNet : m.kind = "ack" => m.nr = m.idx % BlockMod
  /\ tftp.state = "Init" => tftp.loaded = <<>>
  /\ tftp.state = "Transfer" => tftp.expected = Len(tftp.loaded) % BlockMod

TftpInv ==
  /\ TftpTypeInv
  /\ TftpPortInv
  /\ FreshInv
  /\ ServerInv
  /\ CountInv
  /\ FileIntact

BootInv == TableInv /\ TftpInv /\ DhcpInv /\ DnsInv

----------------------------------------------------------------------------
(* Numbers. *)

\* A number is its quotient and its remainder.
LEMMA DivMod ==
    ASSUME NEW M \in Nat \ {0}, NEW a \in Nat
    PROVE  a = M * (a \div M) + (a % M) /\ a % M \in 0 .. M - 1 /\ a \div M \in Int
<1>1. a - (a % M) = M * (a \div M)
  OBVIOUS
<1>2. a % M \in 0 .. M - 1 /\ a \div M \in Int
  OBVIOUS
<1>3. M * (a \div M) \in Int
  BY <1>2
<1> QED BY <1>1, <1>2, <1>3

\* Multiples of M lie at least M apart.
LEMMA MultiplesApart ==
    ASSUME NEW M \in Nat \ {0}, NEW q \in Int, NEW p \in Int, q > p
    PROVE  M * q - M * p >= M
<1>1. M * q - M * p = M * (q - p)
  OBVIOUS
<1>2. M * (q - p) >= M * 1
  OBVIOUS
<1> QED BY <1>1, <1>2

\* Numbers less than M apart are equal if their remainders are.
LEMMA ModUnique ==
    ASSUME NEW M \in Nat \ {0}, NEW a \in Nat, NEW b \in Nat,
           a % M = b % M, a <= b, b - a < M
    PROVE  a = b
<1> DEFINE p == a \div M
           q == b \div M
           r == a % M
<1>1. a = M * p + r /\ r \in 0 .. M - 1 /\ p \in Int
  BY DivMod
<1>2. b = M * q + r /\ q \in Int
  BY DivMod
<1> HIDE DEF p, q, r
<1>3. CASE q > p
  <2>1. M * q - M * p >= M
    BY <1>1, <1>2, <1>3, MultiplesApart
  <2> QED BY <1>1, <1>2, <2>1
<1>4. CASE p > q
  <2>1. M * p - M * q >= M
    BY <1>1, <1>2, <1>4, MultiplesApart
  <2> QED BY <1>1, <1>2, <2>1
<1> QED BY <1>1, <1>2, <1>3, <1>4

\* The remainder of the next number.
LEMMA ModNext ==
    ASSUME NEW M \in Nat \ {0}, NEW a \in Nat
    PROVE  ((a % M) + 1) % M = (a + 1) % M
<1> DEFINE p == a \div M
           r == a % M
<1>1. a = M * p + r /\ r \in 0 .. M - 1 /\ p \in Int
  BY DivMod
<1> HIDE DEF p, r
<1>2. CASE r + 1 < M
  <2>1. r + 1 \in 0 .. M - 1 /\ a + 1 = M * p + (r + 1)
    BY <1>1, <1>2
  <2>2. (M * p + (r + 1)) % M = r + 1
    BY <1>1, <2>1
  <2>3. (M * 0 + (r + 1)) % M = r + 1
    BY <1>1, <2>1
  <2>4. M * 0 + (r + 1) = r + 1
    BY <1>1
  <2> QED BY <2>1, <2>2, <2>3, <2>4 DEF r
<1>3. CASE r + 1 = M
  <2>1. a + 1 = M * (p + 1) + 0 /\ r + 1 = M * 1 + 0
    BY <1>1, <1>3
  <2>2. (M * (p + 1) + 0) % M = 0
    BY <1>1
  <2>3. (M * 1 + 0) % M = 0
    OBVIOUS
  <2> QED BY <2>1, <2>2, <2>3 DEF r
<1> QED BY <1>1, <1>2, <1>3

\* What Append and EXCEPT do to a sequence.
LEMMA AppendFacts ==
    ASSUME NEW S, NEW seq \in Seq(S), NEW elt \in S
    PROVE  /\ Append(seq, elt) \in Seq(S) /\ Len(Append(seq, elt)) = Len(seq) + 1
           /\ \A i \in 1 .. Len(seq) : Append(seq, elt)[i] = seq[i]
           /\ Append(seq, elt)[Len(seq) + 1] = elt
OBVIOUS

LEMMA ReplaceFacts ==
    ASSUME NEW S, NEW seq \in Seq(S), NEW u \in 1 .. Len(seq), NEW v \in S
    PROVE  /\ [seq EXCEPT ![u] = v] \in Seq(S) /\ Len([seq EXCEPT ![u] = v]) = Len(seq)
           /\ \A t \in 1 .. Len(seq) : [seq EXCEPT ![u] = v][t] = IF t = u THEN v ELSE seq[t]
OBVIOUS

----------------------------------------------------------------------------
(* TFTP *)

LEMMA TftpKept ==
    ASSUME TableInv, TftpInv, TableInv', calls <= calls', UNCHANGED tftpVars,
           NEW h \in {"dhcp", "dns"}, KeepsOthers(h)
    PROVE  TftpInv'
<1>1. tftp' = tftp /\ tftpNet' = tftpNet /\ sessions' = sessions
  BY DEF tftpVars
<1>2. \A a \in Assocs : assoc[a].handler = "tftp" \/ assoc'[a].handler = "tftp"
                          => assoc'[a] = assoc[a]
  BY DEF KeepsOthers
<1>3. TftpBusy => tftp.assoc \in Assocs /\ assoc'[tftp.assoc] = assoc[tftp.assoc]
  BY SMTT(30), <1>2 DEF TftpInv, TftpPortInv
<1>4. TftpPortInv'
  BY <1>1, <1>2, <1>3 DEF TftpInv, TftpPortInv, TftpBusy
<1>5. FreshInv'
  <2>1. CurrentPort' = CurrentPort \/ ~ TftpBusy
    BY <1>1, <1>3 DEF CurrentPort
  <2>2. calls \in Nat /\ calls' \in Nat /\ MaxCalls \in Nat /\ FirstPort \in Nat
        /\ tftp.port \in Int
    BY TftpAssumption, UdpAssumption DEF TftpInv, TableInv, TftpTypeInv, TftpType
  <2> QED BY <1>1, <2>1, <2>2 DEF TftpInv, FreshInv, TftpBusy
<1>6. ServerInv'
  BY <1>1, <1>3 DEF TftpInv, ServerInv, CurrentPort, TftpBusy
<1> QED BY <1>1, <1>4, <1>5, <1>6 DEF TftpInv, TftpTypeInv, CountInv, FileIntact

LEMMA TftpTyped ==
    ASSUME TftpInv
    PROVE  /\ tftp \in TftpType /\ sessions \in Seq(Session) /\ Len(sessions) \in Nat
           /\ Len(sessions) <= MaxSessions
           /\ tftpNet \subseteq OpenPackets \cup AckPackets(Len(sessions))
           /\ tftp.loaded \in Seq(Files \X (Nat \ {0})) /\ Len(tftp.loaded) \in Nat
           /\ tftp.port \in FirstPort .. LastPort /\ tftp.file \in Files
           /\ tftp.assoc \in {NoAssoc} \cup Assocs
           /\ \A t \in 1 .. Len(sessions) : sessions[t] \in Session
BY DEF TftpInv, TftpTypeInv, TftpType

LEMMA PacketTyped ==
    ASSUME TftpInv, NEW m \in tftpNet
    PROVE  /\ m.kind \in {"open", "ack"}
           /\ m.kind = "open" => m.from \in FirstPort .. LastPort /\ m.file \in Files
           /\ m.kind = "ack" => /\ m.to \in 1 .. Len(sessions)
                                /\ m.nr \in 0 .. BlockMod - 1 /\ m.idx \in Nat
BY DEF TftpInv, TftpTypeInv, OpenPackets, AckPackets

LEMMA SessionTyped ==
    ASSUME TftpInv, NEW t \in 1 .. Len(sessions)
    PROVE  /\ sessions[t] \in Session
           /\ sessions[t].port \in FirstPort .. LastPort
           /\ sessions[t].file \in Files /\ sessions[t].block \in Nat
<1>1. sessions[t] \in Session
  BY TftpTyped
<1> QED BY <1>1 DEF Session

\* The ports that were used are below the next one.
LEMMA UsedPorts ==
    ASSUME TftpInv, calls < MaxCalls
    PROVE  /\ \A m \in tftpNet : m.kind = "open" => m.from \in Nat /\ m.from < tftp.port
           /\ \A t \in 1 .. Len(sessions) :
                sessions[t].port \in Nat /\ sessions[t].port < tftp.port
<1>1. FirstPort .. LastPort \subseteq Nat
  BY TftpAssumption
<1> QED BY <1>1, PacketTyped, SessionTyped DEF TftpInv, FreshInv

\* tftp_open that fails, for want of a port or of a frame.
LEMMA TftpOpenFails ==
    ASSUME TableInv, TftpInv, NEW f \in Files, Called, ~ TftpBusy, assoc' = assoc,
           tftp' = [tftp EXCEPT !.port = NextPort(@), !.loaded = <<>>,
                      !.file = IF NewAssoc # NoAssoc THEN f ELSE @, !.ok = FALSE,
                      !.assoc = NoAssoc],
           UNCHANGED <<tftpNet, sessions>>
    PROVE  TableInv' /\ TftpInv' /\ KeepsOthers("tftp")
<1>1. /\ calls \in Nat /\ calls < MaxCalls /\ calls' = calls + 1 /\ calls' \in calls .. MaxCalls
      /\ calls' \in 0 .. MaxCalls /\ MaxCalls \in Nat
  BY CalledFacts
<1>2. TableInv' /\ KeepsOthers("tftp")
  BY <1>1, SameTable
<1> DEFINE file == IF NewAssoc # NoAssoc THEN f ELSE tftp.file
<1>3. tftp \in TftpType /\ file \in Files /\ tftp.port \in FirstPort .. LastPort
  BY TftpTyped
<1>4. tftp' = [state |-> tftp.state, assoc |-> NoAssoc, port |-> NextPort(tftp.port),
               expected |-> tftp.expected, retry |-> tftp.retry, file |-> file,
               loaded |-> <<>>, ok |-> FALSE]
  BY Zenon, <1>3 DEF TftpType
<1> HIDE DEF file
<1>5. NextPort(tftp.port) \in FirstPort .. LastPort
  BY <1>3, TftpAssumption DEF NextPort
<1>6. tftp' \in TftpType
  <2>1. <<>> \in Seq(Files \X (Nat \ {0}))
    OBVIOUS
  <2> QED BY Zenon, <1>3, <1>4, <1>5, <2>1 DEF TftpType
<1>7. TftpTypeInv' /\ TftpPortInv' /\ ServerInv' /\ CountInv' /\ FileIntact'
  BY <1>4, <1>6
     DEF TftpInv, TftpTypeInv, TftpPortInv, TftpBusy, ServerInv, CountInv, FileIntact
<1>8. FreshInv'
  <2> SUFFICES ASSUME calls' < MaxCalls PROVE FreshInv'
    BY DEF FreshInv
  <2>1. tftp.port <= FirstPort + calls /\ tftp.port < LastPort
    <3>1. tftp.port <= FirstPort + calls
      BY <1>1 DEF TftpInv, FreshInv
    <3> QED BY <1>1, <1>3, <3>1, PortsAssumption, TftpAssumption
  <2>2. tftp'.port = tftp.port + 1
    BY <1>3, <1>4, <2>1, TftpAssumption DEF NextPort
  <2>3. tftp.port \in Nat
    BY <1>3, TftpAssumption
  <2>4. /\ \A m \in tftpNet : m.kind = "open" => m.from < tftp.port + 1
        /\ \A t \in 1 .. Len(sessions) : sessions[t].port < tftp.port + 1
    BY <1>1, <2>3, UsedPorts
  <2>5. tftp.port + 1 <= FirstPort + calls'
    BY <1>1, <1>3, <2>1, TftpAssumption
  <2>6. ~ TftpBusy'
    BY <1>4 DEF TftpBusy
  <2> QED BY <2>2, <2>4, <2>5, <2>6 DEF FreshInv
<1> QED BY <1>2, <1>7, <1>8 DEF TftpInv

\* tftp_open that succeeds.
LEMMA TftpOpenStarts ==
    ASSUME TableInv, TftpInv, NEW f \in Files, Called, ~ TftpBusy, NewAssoc # NoAssoc,
           assoc' = Registered(tftp.port, TftpPort, "tftp"),
           tftp' = [tftp EXCEPT !.port = NextPort(@), !.loaded = <<>>, !.file = f, !.ok = TRUE,
                      !.assoc = NewAssoc, !.state = "Init", !.retry = TftpRetries],
           tftpNet' = tftpNet \cup {OpenPacket(tftp.port, f)}, UNCHANGED sessions
    PROVE  TableInv' /\ TftpInv' /\ KeepsOthers("tftp")
<1>1. /\ calls \in Nat /\ calls < MaxCalls /\ calls' = calls + 1 /\ calls' \in calls .. MaxCalls
      /\ calls' \in 0 .. MaxCalls /\ MaxCalls \in Nat
  BY CalledFacts
<1>2. tftp \in TftpType /\ tftp.port \in FirstPort .. LastPort /\ NewAssoc \in Assocs
  BY TftpTyped, NewAssocFacts
<1>3. /\ assoc' \in [Assocs -> Entry]
      /\ \A a \in Assocs : assoc'[a].port = 0 <=> assoc'[a].handler = "none"
      /\ KeepsOthers("tftp")
      /\ assoc'[NewAssoc] = [port |-> tftp.port, remote |-> TftpPort, handler |-> "tftp"]
      /\ \A a \in Assocs : a # NewAssoc => assoc'[a] = assoc[a]
  BY Zenon, <1>2, RegisteredFacts
<1>4. TableInv'
  BY <1>1, <1>3 DEF TableInv
<1>5. tftp' = [state |-> "Init", assoc |-> NewAssoc, port |-> NextPort(tftp.port),
               expected |-> tftp.expected, retry |-> TftpRetries, file |-> f,
               loaded |-> <<>>, ok |-> TRUE]
  BY Zenon, <1>2 DEF TftpType
<1>6. NextPort(tftp.port) \in FirstPort .. LastPort
  BY <1>2, TftpAssumption DEF NextPort
<1>7. tftp' \in TftpType
  <2>1. <<>> \in Seq(Files \X (Nat \ {0})) /\ TftpRetries \in 0 .. TftpRetries
    BY TftpAssumption
  <2> QED BY Zenon, <1>2, <1>5, <1>6, <2>1 DEF TftpType
<1>8. /\ OpenPacket(tftp.port, f) \in OpenPackets
      /\ OpenPacket(tftp.port, f).from = tftp.port /\ OpenPacket(tftp.port, f).file = f
      /\ OpenPacket(tftp.port, f).kind = "open"
  BY <1>2 DEF OpenPacket, OpenPackets
<1>9. \A m \in tftpNet' : m \in tftpNet \/ m = OpenPacket(tftp.port, f)
  OBVIOUS
<1>10. TftpTypeInv'
  BY <1>7, <1>8, <1>9 DEF TftpInv, TftpTypeInv
<1>11. TftpPortInv'
  BY <1>2, <1>3, <1>5 DEF TftpInv, TftpPortInv, TftpBusy
<1>12. \A m \in tftpNet : m.kind = "open" => m.from < tftp.port /\ m.from \in Nat
  BY <1>1, UsedPorts
<1>13. \A t \in 1 .. Len(sessions) : sessions[t].port < tftp.port /\ sessions[t].port \in Nat
  BY <1>1, UsedPorts
<1>14. FreshInv'
  <2> SUFFICES ASSUME calls' < MaxCalls PROVE FreshInv'
    BY DEF FreshInv
  <2>1. tftp.port <= FirstPort + calls /\ tftp.port < LastPort
    <3>1. tftp.port <= FirstPort + calls
      BY <1>1 DEF TftpInv, FreshInv
    <3> QED BY <1>1, <1>2, <3>1, PortsAssumption, TftpAssumption
  <2>2. tftp'.port = tftp.port + 1
    BY <1>2, <1>5, <2>1, TftpAssumption DEF NextPort
  <2>3. \A m \in tftpNet' : m.kind = "open" => m.from < tftp.port + 1
    BY <1>2, <1>8, <1>9, <1>12, TftpAssumption
  <2>4. \A t \in 1 .. Len(sessions) : sessions[t].port < tftp.port + 1
    BY <1>2, <1>13, TftpAssumption
  <2>5. CurrentPort' = tftp.port
    <3>1. tftp'.assoc = NewAssoc
      BY <1>5
    <3>2. assoc'[NewAssoc].port = tftp.port
      BY <1>3
    <3> QED BY <3>1, <3>2 DEF CurrentPort
  <2>6. tftp.port + 1 <= FirstPort + calls' /\ tftp.port < tftp.port + 1
    BY <1>1, <1>2, <2>1, TftpAssumption
  <2> QED BY <2>2, <2>3, <2>4, <2>5, <2>6 DEF FreshInv
<1>15. ServerInv'
  <2>1. CurrentPort' = tftp.port /\ tftp'.file = f
    <3>1. tftp'.assoc = NewAssoc /\ tftp'.file = f
      BY <1>5
    <3>2. assoc'[NewAssoc].port = tftp.port
      BY <1>3
    <3> QED BY <3>1, <3>2 DEF CurrentPort
  <2>2. \A m \in tftpNet' : m.kind = "open" /\ m.from = tftp.port => m.file = f
    BY <1>2, <1>8, <1>9, <1>12, TftpAssumption
  <2>3. \A t \in 1 .. Len(sessions) : sessions[t].port # tftp.port
    BY <1>2, <1>13, TftpAssumption
  <2>4. \A m \in tftpNet' : m.kind = "ack" => m.to \in 1 .. Len(sessions)
    BY <1>8, <1>9, TftpTyped DEF OpenPackets, AckPackets
  <2> QED BY <2>1, <2>2, <2>3, <2>4 DEF ServerInv
<1>16. CountInv' /\ FileIntact'
  BY <1>5, <1>8, <1>9 DEF TftpInv, CountInv, FileIntact
<1> QED BY <1>3, <1>4, <1>10, <1>11, <1>14, <1>15, <1>16 DEF TftpInv

\* What a transfer of the server sends carries its port and its file.
LEMMA SentByFacts ==
    ASSUME TftpInv, NEW t \in 1 .. Len(sessions), NEW m \in SentBy(t)
    PROVE  /\ m.kind \in {"oack", "error", "data"} /\ m.to = sessions[t].port
           /\ m.kind = "oack" => m.tid = t
           /\ m.kind = "data" => /\ m.file = sessions[t].file /\ m.file \in Files
                                 /\ m.idx \in Nat \ {0} /\ m.nr = m.idx % BlockMod
                                 /\ m.idx <= sessions[t].block \/ m.idx = 1
<1> DEFINE s == sessions[t]
<1>1. s.file \in Files /\ s.block \in Nat
  BY SessionTyped
<1>2. CASE m \in {OptionAck(s.port, t, TRUE), OptionAck(s.port, t, FALSE)}
  BY <1>2 DEF OptionAck
<1>3. CASE m = ErrorPacket(s.port, t)
  BY <1>3 DEF ErrorPacket
<1>4. ASSUME NEW i \in {1} \cup 1 .. s.block, m = DataPacket(s.port, t, s.file, i)
      PROVE  /\ m.kind = "data" /\ m.to = s.port /\ m.file = s.file /\ m.idx \in Nat \ {0}
             /\ m.nr = m.idx % BlockMod /\ (m.idx <= s.block \/ m.idx = 1)
  BY <1>1, <1>4 DEF DataPacket
<1> QED BY Zenon, <1>1, <1>2, <1>3, <1>4 DEF SentBy

\* The client hears only what was sent to the port of its entry.
LEMMA HeardFacts ==
    ASSUME TableInv, TftpInv, NEW port, Listener(port) = "tftp"
    PROVE  TftpBusy /\ tftp.assoc \in Assocs /\ port = CurrentPort
<1>1. PICK a \in Assocs : assoc[a].port = port /\ assoc[a].handler = "tftp"
  BY ListenerFacts
<1> QED BY <1>1 DEF TftpInv, TftpPortInv, CurrentPort

\* A transfer that ends: the entry is given back, nothing else is left of it.
LEMMA TftpEnded ==
    ASSUME TableInv, TftpInv, TftpBusy, assoc' = Unregistered(tftp.assoc), calls' = calls,
           tftp' \in TftpType, tftp'.state \in {"Finished", "Error"}, tftp'.port = tftp.port,
           sessions' = sessions
    PROVE  TableInv' /\ KeepsOthers("tftp") /\ TftpPortInv' /\ ServerInv'
<1>1. tftp.assoc \in Assocs /\ assoc[tftp.assoc].handler = "tftp" /\ tftp.assoc # NoAssoc
  BY DEF TftpInv, TftpPortInv, Assocs, NoAssoc
<1>2. /\ assoc' \in [Assocs -> Entry]
      /\ \A b \in Assocs : assoc'[b].port = 0 <=> assoc'[b].handler = "none"
      /\ KeepsOthers("tftp")
      /\ assoc'[tftp.assoc].handler = "none"
      /\ \A b \in Assocs : b # tftp.assoc => assoc'[b] = assoc[b]
  BY <1>1, UnregisteredFacts
<1>3. TableInv'
  BY <1>2 DEF TableInv
<1>4. \A b \in Assocs : assoc'[b].handler # "tftp"
  BY <1>1, <1>2 DEF TftpInv, TftpPortInv
<1>5. TftpPortInv' /\ ServerInv'
  BY <1>4 DEF TftpPortInv, ServerInv, TftpBusy
<1> QED BY <1>2, <1>3, <1>5

LEMMA TftpFails ==
    ASSUME TableInv, TftpInv, TftpBusy, TftpEnd("Error"), UNCHANGED <<calls, sessions>>
    PROVE  TableInv' /\ TftpInv' /\ KeepsOthers("tftp")
<1>1. /\ tftp' = [tftp EXCEPT !.state = "Error", !.assoc = NoAssoc, !.retry = 0, !.expected = 0]
      /\ assoc' = Unregistered(tftp.assoc) /\ tftpNet' = tftpNet /\ calls' = calls
      /\ sessions' = sessions /\ tftp \in TftpType
  BY TftpTyped DEF TftpEnd
<1>2. tftp' = [state |-> "Error", assoc |-> NoAssoc, port |-> tftp.port, expected |-> 0,
               retry |-> 0, file |-> tftp.file, loaded |-> tftp.loaded, ok |-> tftp.ok]
  BY Zenon, <1>1 DEF TftpType
<1>3. 0 \in 0 .. TftpRetries /\ 0 \in 0 .. BlockMod - 1
  BY TftpAssumption
<1>4. tftp' \in TftpType
  BY <1>1, <1>2, <1>3 DEF TftpType
<1>5. TableInv' /\ KeepsOthers("tftp") /\ TftpPortInv' /\ ServerInv'
  BY <1>1, <1>2, <1>4, TftpEnded
<1>6. TftpTypeInv' /\ FreshInv' /\ CountInv' /\ FileIntact'
  BY <1>1, <1>2, <1>4 DEF TftpInv, TftpTypeInv, FreshInv, CountInv, FileIntact, TftpBusy
<1> QED BY <1>5, <1>6 DEF TftpInv

\* The only block with the wanted number that can still arrive is the next one.
LEMMA WantedIsNext ==
    ASSUME TableInv, TftpInv, tftp.state = "Transfer", NEW t \in 1 .. Len(sessions),
           NEW m \in SentBy(t), m.kind = "data", Listener(m.to) = "tftp", Alive(m), Wanted(m)
    PROVE  /\ m.idx = Len(tftp.loaded) + 1 /\ m.file = tftp.file
           /\ m.nr = (Len(tftp.loaded) + 1) % BlockMod
<1> DEFINE n == Len(tftp.loaded)
<1>1. n \in Nat /\ BlockMod \in Nat \ {0} /\ Lifetime \in 1 .. BlockMod - 1
  BY TftpTyped, TftpAssumption
<1>2. m.idx \in Nat /\ m.nr = m.idx % BlockMod /\ m.to = sessions[t].port
      /\ m.file = sessions[t].file /\ (m.idx <= sessions[t].block \/ m.idx = 1)
      /\ sessions[t].block \in Nat
  BY SentByFacts, SessionTyped
<1>3. TftpBusy /\ sessions[t].port = CurrentPort
  BY <1>2, HeardFacts
<1>4. sessions[t].file = tftp.file /\ sessions[t].block <= n + 1
  BY <1>3 DEF TftpInv, ServerInv
<1>5. m.idx > n - Lifetime
  BY DEF Alive
<1>6. m.nr = ((n % BlockMod) + 1) % BlockMod
  BY DEF Wanted, TftpInv, CountInv
<1> HIDE DEF n
<1>7. ((n % BlockMod) + 1) % BlockMod = (n + 1) % BlockMod
  BY Zenon, <1>1, ModNext
<1>8. m.idx <= n + 1 /\ (n + 1) - m.idx < BlockMod
  BY <1>1, <1>2, <1>4, <1>5
<1>9. m.idx = n + 1
  <2>1. m.idx % BlockMod = (n + 1) % BlockMod /\ n + 1 \in Nat
    BY <1>1, <1>2, <1>6, <1>7
  <2> QED BY Zenon, <1>1, <1>2, <1>8, <2>1, ModUnique
<1> QED BY <1>2, <1>4, <1>6, <1>7, <1>9 DEF n

\* The packets after an acknowledge of the block n was sent, or lost.
LEMMA AckSent ==
    ASSUME TftpInv, NEW n \in Nat, NEW to \in 1 .. Len(sessions),
           NEW nr, nr = n % BlockMod, NEW frame, NEW a, sessions' = sessions,
           tftpNet' = tftpNet \cup SentVia(a, frame, {AckPacket(to, nr, n)})
    PROVE  /\ tftpNet' \subseteq OpenPackets \cup AckPackets(Len(sessions))
           /\ \A m \in tftpNet' :
                \/ m \in tftpNet
                \/ m.kind = "ack" /\ m.to = to /\ m.idx = n /\ m.nr = m.idx % BlockMod
<1> DEFINE k == AckPacket(to, nr, n)
<1>1. nr \in 0 .. BlockMod - 1
  BY TftpAssumption, DivMod
<1>2. /\ k \in AckPackets(Len(sessions))
      /\ k.kind = "ack" /\ k.to = to /\ k.idx = n /\ k.nr = k.idx % BlockMod
  BY <1>1 DEF AckPacket, AckPackets
<1>3. \A m \in tftpNet' : m \in tftpNet \/ m = k
  BY DEF SentVia
<1> HIDE DEF k
<1> QED BY Zenon, <1>2, <1>3 DEF TftpInv, TftpTypeInv

LEMMA RecOptionAckStep ==
    ASSUME TableInv, TftpInv, NEW t \in 1 .. Len(sessions), NEW m \in SentBy(t),
           Listener(m.to) = "tftp", m.kind = "oack", tftp.state = "Init",
           UNCHANGED <<calls, sessions>>,
           tftp' = [tftp EXCEPT !.state = "Transfer", !.expected = 0, !.retry = TftpRetries],
           assoc' = [assoc EXCEPT ![tftp.assoc].remote = m.tid],
           \E frame \in BOOLEAN :
             tftpNet' = tftpNet \cup SentVia(tftp.assoc, frame, {AckPacket(m.tid, 0, 0)})
    PROVE  TableInv' /\ TftpInv' /\ KeepsOthers("tftp")
<1>1. TftpBusy /\ tftp.assoc \in Assocs /\ assoc[tftp.assoc].handler = "tftp" /\ tftp.ok
  BY HeardFacts DEF TftpInv, TftpPortInv
<1>2. m.tid = t /\ tftp \in TftpType /\ tftp.loaded = <<>> /\ Len(sessions) \in Nat
      /\ Len(sessions) <= MaxSessions
  BY SentByFacts, TftpTyped DEF TftpInv, CountInv
<1>3. /\ assoc' \in [Assocs -> Entry]
      /\ \A a \in Assocs : a # tftp.assoc => assoc'[a] = assoc[a]
      /\ assoc'[tftp.assoc].port = assoc[tftp.assoc].port
      /\ assoc'[tftp.assoc].handler = "tftp"
      /\ assoc'[tftp.assoc].remote = t
  <2>1. assoc \in [Assocs -> Entry] /\ assoc[tftp.assoc] \in Entry
    BY <1>1 DEF TableInv
  <2>2. t \in 1 .. MaxSessions
    BY <1>2, TftpAssumption
  <2>3. /\ [assoc[tftp.assoc] EXCEPT !.remote = t] \in Entry
        /\ [assoc[tftp.assoc] EXCEPT !.remote = t].port = assoc[tftp.assoc].port
        /\ [assoc[tftp.assoc] EXCEPT !.remote = t].handler = assoc[tftp.assoc].handler
        /\ [assoc[tftp.assoc] EXCEPT !.remote = t].remote = t
    BY <2>1, <2>2 DEF Entry
  <2>4. assoc' = [assoc EXCEPT ![tftp.assoc] = [assoc[tftp.assoc] EXCEPT !.remote = t]]
    BY <1>2
  <2> QED BY Zenon, <1>1, <2>1, <2>3, <2>4
<1>4. TableInv'
  BY <1>1, <1>3 DEF TableInv
<1>5. KeepsOthers("tftp")
  BY <1>1, <1>3 DEF KeepsOthers
<1>6. tftp' = [state |-> "Transfer", assoc |-> tftp.assoc, port |-> tftp.port, expected |-> 0,
               retry |-> TftpRetries, file |-> tftp.file, loaded |-> tftp.loaded, ok |-> tftp.ok]
  BY Zenon, <1>2 DEF TftpType
<1>7. tftp' \in TftpType
  <2>1. TftpRetries \in 0 .. TftpRetries /\ 0 \in 0 .. BlockMod - 1
    BY TftpAssumption
  <2> QED BY <1>2, <1>6, <2>1 DEF TftpType
<1>8. 0 % BlockMod = 0 /\ Len(tftp.loaded) = 0
  <2>1. BlockMod \in Nat \ {0} /\ 0 \in 0 .. BlockMod - 1
    BY TftpAssumption
  <2> QED BY <1>2, <2>1
<1>9. /\ tftpNet' \subseteq OpenPackets \cup AckPackets(Len(sessions))
      /\ \A k \in tftpNet' :
           \/ k \in tftpNet
           \/ k.kind = "ack" /\ k.to = t /\ k.idx = 0 /\ k.nr = k.idx % BlockMod
  <2>1. PICK frame \in BOOLEAN :
          tftpNet' = tftpNet \cup SentVia(tftp.assoc, frame, {AckPacket(t, 0, 0)})
    BY <1>2
  <2>2. 0 \in Nat /\ 0 = 0 % BlockMod
    BY <1>8
  <2> QED BY Zenon, <2>1, <2>2, AckSent
<1>10. TftpTypeInv'
  BY Zenon, <1>7, <1>9 DEF TftpInv, TftpTypeInv
<1>11. TftpPortInv'
  BY <1>1, <1>3, <1>6 DEF TftpInv, TftpPortInv, TftpBusy
<1>12. CurrentPort' = CurrentPort
  BY <1>3, <1>6 DEF CurrentPort
<1>13. FreshInv'
  BY Zenon, <1>1, <1>6, <1>9, <1>12 DEF TftpInv, FreshInv
<1>14. ServerInv'
  <2>1. tftp'.file = tftp.file /\ Len(tftp'.loaded) = 0 /\ 0 <= 0
    BY <1>6, <1>8
  <2>2. \A k \in tftpNet' : k \in tftpNet \/ (k.kind = "ack" /\ k.idx = 0)
    BY Zenon, <1>9
  <2> QED BY Zenon, <1>1, <1>8, <1>12, <2>1, <2>2 DEF TftpInv, ServerInv
<1>15. CountInv' /\ FileIntact'
  <2>1. /\ tftp'.state = "Transfer" /\ tftp'.expected = 0 /\ tftp'.loaded = tftp.loaded
        /\ tftp'.file = tftp.file
    BY <1>6
  <2>2. \A k \in tftpNet : k.kind = "ack" => k.nr = k.idx % BlockMod
    BY DEF TftpInv, CountInv
  <2>3. \A k \in tftpNet' : k.kind = "ack" => k.nr = k.idx % BlockMod
    BY Zenon, <1>9, <2>2
  <2>4. tftp'.expected = Len(tftp'.loaded) % BlockMod
    BY <1>8, <2>1
  <2>5. CountInv'
    BY Zenon, <2>1, <2>3, <2>4 DEF CountInv
  <2>6. FileIntact'
    BY <2>1 DEF TftpInv, FileIntact
  <2> QED BY <2>5, <2>6
<1> QED BY <1>4, <1>5, <1>10, <1>11, <1>13, <1>14, <1>15 DEF TftpInv

\* Appending the next block keeps the file intact.
LEMMA BlockAppended ==
    ASSUME TftpInv, tftp'.file = tftp.file,
           tftp'.loaded = Append(tftp.loaded, <<tftp.file, Len(tftp.loaded) + 1>>)
    PROVE  /\ FileIntact' /\ Len(tftp'.loaded) = Len(tftp.loaded) + 1
           /\ tftp'.loaded \in Seq(Files \X (Nat \ {0}))
<1> DEFINE n == Len(tftp.loaded)
           e == <<tftp.file, n + 1>>
<1>1. n \in Nat /\ tftp.loaded \in Seq(Files \X (Nat \ {0})) /\ tftp.file \in Files
  BY TftpTyped
<1>2. e \in Files \X (Nat \ {0})
  BY <1>1
<1>3. /\ tftp'.loaded \in Seq(Files \X (Nat \ {0})) /\ Len(tftp'.loaded) = n + 1
      /\ \A i \in 1 .. n : tftp'.loaded[i] = tftp.loaded[i]
      /\ tftp'.loaded[n + 1] = e
  BY <1>1, <1>2, AppendFacts
<1>4. \A i \in 1 .. n : tftp.loaded[i] = <<tftp.file, i>>
  BY DEF TftpInv, FileIntact
<1>5. \A i \in 1 .. n + 1 : tftp'.loaded[i] = <<tftp.file, i>>
  BY <1>1, <1>3, <1>4
<1> QED BY SMTT(30), <1>3, <1>5 DEF FileIntact

LEMMA RecDataStep ==
    ASSUME TableInv, TftpInv, NEW t \in 1 .. Len(sessions), NEW m \in SentBy(t),
           Listener(m.to) = "tftp", Alive(m), RecData(m), UNCHANGED <<calls, sessions>>
    PROVE  TableInv' /\ TftpInv' /\ KeepsOthers("tftp")
<1> DEFINE n == Len(tftp.loaded)
           last == m.idx = Blocks[m.file]
           to == assoc[tftp.assoc].remote
<1>1. /\ tftp.state = "Transfer" /\ TftpBusy /\ m.idx = n + 1 /\ m.file = tftp.file
      /\ m.nr = (n + 1) % BlockMod
  BY SMTT(30), WantedIsNext DEF RecData, TftpBusy
<1>2. /\ tftp.assoc \in Assocs /\ assoc[tftp.assoc].handler = "tftp" /\ tftp.ok
      /\ to \in 1 .. Len(sessions)
  BY <1>1 DEF TftpInv, TftpPortInv
<1>3. n \in Nat /\ n + 1 \in Nat /\ tftp \in TftpType /\ m.nr \in 0 .. BlockMod - 1
  <2>1. n \in Nat /\ tftp \in TftpType
    BY TftpTyped
  <2>2. n + 1 \in Nat /\ BlockMod \in Nat \ {0}
    BY <2>1, TftpAssumption
  <2>3. (n + 1) % BlockMod \in 0 .. BlockMod - 1
    BY Zenon, <2>2, DivMod
  <2> QED BY <1>1, <2>1, <2>2, <2>3
<1>4. tftp' = [tftp EXCEPT
       !.expected = IF last THEN 0 ELSE m.nr,
       !.retry = IF last THEN 0 ELSE TftpRetries,
       !.loaded = Append(@, <<tftp.file, n + 1>>),
       !.state = IF last THEN "Finished" ELSE @,
       !.assoc = IF last THEN NoAssoc ELSE @]
  BY <1>1 DEF RecData
<1>5. assoc' = IF last THEN Unregistered(tftp.assoc) ELSE assoc
  BY DEF RecData
<1>6. PICK frame \in BOOLEAN :
        tftpNet' = tftpNet \cup SentVia(tftp.assoc, frame, {AckPacket(to, m.nr, n + 1)})
  BY DEF RecData
<1> HIDE DEF last, to
<1>7. tftp' = [state |-> IF last THEN "Finished" ELSE tftp.state,
               assoc |-> IF last THEN NoAssoc ELSE tftp.assoc, port |-> tftp.port,
               expected |-> IF last THEN 0 ELSE m.nr,
               retry |-> IF last THEN 0 ELSE TftpRetries, file |-> tftp.file,
               loaded |-> Append(tftp.loaded, <<tftp.file, n + 1>>), ok |-> tftp.ok]
  BY Zenon, <1>3, <1>4 DEF TftpType
<1>8. FileIntact' /\ Len(tftp'.loaded) = n + 1 /\ tftp'.loaded \in Seq(Files \X (Nat \ {0}))
  BY <1>7, BlockAppended
<1>9. /\ tftpNet' \subseteq OpenPackets \cup AckPackets(Len(sessions))
      /\ \A k \in tftpNet' :
           \/ k \in tftpNet
           \/ k.kind = "ack" /\ k.to = to /\ k.idx = n + 1 /\ k.nr = k.idx % BlockMod
  BY Zenon, <1>1, <1>2, <1>3, <1>6, AckSent
<1>10. tftp' \in TftpType
  <2>1. 0 \in 0 .. TftpRetries /\ TftpRetries \in 0 .. TftpRetries /\ 0 \in 0 .. BlockMod - 1
    BY TftpAssumption
  <2>2. Append(tftp.loaded, <<tftp.file, n + 1>>) \in Seq(Files \X (Nat \ {0}))
    BY <1>7, <1>8
  <2> HIDE DEF n
  <2> QED BY <1>3, <1>7, <2>1, <2>2 DEF TftpType
<1>11. TftpTypeInv'
  BY <1>9, <1>10 DEF TftpInv, TftpTypeInv
<1>12. FreshInv'
  <2>1. TftpBusy' => CurrentPort' = CurrentPort
    <3>1. tftp'.state = (IF last THEN "Finished" ELSE tftp.state)
          /\ tftp'.assoc = (IF last THEN NoAssoc ELSE tftp.assoc)
      BY <1>7
    <3>2. CASE last
      <4>1. ~TftpBusy'
        BY <3>1, <3>2 DEF TftpBusy
      <4> QED BY <4>1
    <3>3. CASE ~last
      BY Zenon, <1>5, <3>1, <3>3 DEF CurrentPort
    <3> QED BY <3>2, <3>3
  <2> QED BY Zenon, <1>1, <1>7, <1>9, <2>1 DEF TftpInv, FreshInv
<1>13. \A k \in tftpNet' : k.kind = "ack" => k.nr = k.idx % BlockMod
  BY Zenon, <1>9 DEF TftpInv, CountInv
<1>14. CASE last
  <2>1. tftp'.state = "Finished" /\ tftp'.port = tftp.port
    BY <1>7, <1>14
  <2>2. TableInv' /\ KeepsOthers("tftp") /\ TftpPortInv' /\ ServerInv'
    BY Zenon, <1>1, <1>5, <1>10, <1>14, <2>1, TftpEnded
  <2>3. CountInv'
    BY <1>13, <2>1 DEF CountInv
  <2> QED BY <1>8, <1>11, <1>12, <2>2, <2>3 DEF TftpInv
<1>15. CASE ~ last
  <2>1. assoc' = assoc /\ tftp'.state = "Transfer" /\ tftp'.assoc = tftp.assoc
        /\ tftp'.expected = m.nr /\ tftp'.file = tftp.file /\ tftp'.ok = tftp.ok
    BY <1>1, <1>5, <1>7, <1>15
  <2>2. TableInv' /\ KeepsOthers("tftp")
    BY <2>1, QuietTable
  <2>3. TftpPortInv'
    BY Zenon, <1>1, <1>2, <2>1 DEF TftpInv, TftpPortInv, TftpBusy
  <2>4. CountInv'
    BY Zenon, <1>1, <1>8, <1>13, <2>1 DEF CountInv
  <2>5. CurrentPort' = CurrentPort
    BY SMTT(30), <2>1 DEF CurrentPort
  <2>6. \A k \in tftpNet :
          k.kind = "ack" /\ sessions[k.to].port = CurrentPort => k.idx <= n + 1
    <3>1. \A k \in tftpNet : k.kind = "ack" => k.idx \in Nat
      BY PacketTyped
    <3> HIDE DEF n
    <3> QED BY <1>1, <1>3, <3>1 DEF TftpInv, ServerInv, n
  <2>7. \A u \in 1 .. Len(sessions) :
          sessions[u].port = CurrentPort =>
            sessions[u].file = tftp.file /\ sessions[u].block <= (n + 1) + 1
    <3>1. \A u \in 1 .. Len(sessions) : sessions[u].block \in Nat
      BY SessionTyped
    <3> QED BY <1>1, <1>3, <3>1 DEF TftpInv, ServerInv
  <2>8. \A k \in tftpNet : k.kind = "open" /\ k.from = CurrentPort => k.file = tftp.file
    BY <1>1 DEF TftpInv, ServerInv
  <2>9. /\ \A k \in tftpNet' : k \in tftpNet \/ (k.kind = "ack" /\ k.idx = n + 1)
        /\ n + 1 <= n + 1
    BY <1>3, <1>9
  <2>10. ServerInv'
    BY <1>8, <2>1, <2>5, <2>6, <2>7, <2>8, <2>9 DEF ServerInv
  <2> QED BY SMTT(30), <1>8, <1>11, <1>12, <2>2, <2>3, <2>4, <2>10 DEF TftpInv
<1> QED BY <1>14, <1>15

LEMMA TftpTimerStep ==
    ASSUME TableInv, TftpInv, TftpTimer
    PROVE  TableInv' /\ TftpInv' /\ KeepsOthers("tftp")
<1> DEFINE n == Len(tftp.loaded)
<1>1. /\ calls' = calls /\ calls' \in calls .. MaxCalls /\ sessions' = sessions /\ TftpBusy
      /\ tftp \in TftpType /\ tftp.retry \in 0 .. TftpRetries /\ n \in Nat
      /\ tftp.assoc \in Assocs /\ assoc[tftp.assoc].handler = "tftp"
  BY UdpAssumption, TftpTyped DEF TftpTimer, TableInv, TftpInv, TftpPortInv, TftpType
<1>2. CASE tftp.retry = 0 /\ TftpEnd("Error")
  BY <1>1, <1>2, TftpFails
<1>3. CASE tftp.retry > 0 /\ tftp' = [tftp EXCEPT !.retry = @ - 1] /\ assoc' = assoc
           /\ \E frame \in BOOLEAN :
                tftpNet' = tftpNet \cup SentVia(tftp.assoc, frame,
                  IF tftp.state = "Init" THEN {OpenPacket(assoc[tftp.assoc].port, tftp.file)}
                  ELSE {AckPacket(assoc[tftp.assoc].remote, tftp.expected, Len(tftp.loaded))})
  <2>1. TableInv' /\ KeepsOthers("tftp")
    BY <1>1, <1>3, SameTable
  <2>2. tftp' = [state |-> tftp.state, assoc |-> tftp.assoc, port |-> tftp.port,
                 expected |-> tftp.expected, retry |-> tftp.retry - 1, file |-> tftp.file,
                 loaded |-> tftp.loaded, ok |-> tftp.ok]
    BY <1>1, <1>3 DEF TftpType
  <2>3. tftp' \in TftpType
    <3>1. tftp.retry - 1 \in 0 .. TftpRetries
      BY <1>1, <1>3, TftpAssumption
    <3> QED BY <1>1, <2>2, <3>1 DEF TftpType
  <2>4. TftpPortInv' /\ FileIntact' /\ CurrentPort' = CurrentPort
    BY <1>1, <1>3, <2>2 DEF TftpInv, TftpPortInv, TftpBusy, FileIntact, CurrentPort
  <2>5. CASE tftp.state = "Init"
    <3> DEFINE k == OpenPacket(CurrentPort, tftp.file)
    <3>1. \A m \in tftpNet' : m \in tftpNet \/ m = k
      BY <1>3, <2>5 DEF SentVia, CurrentPort
    <3>2. k.kind = "open" /\ k.from = CurrentPort /\ k.file = tftp.file
      BY DEF OpenPacket
    <3>3. k \in OpenPackets
      BY Zenon, <1>1, TftpTyped DEF TftpInv, TftpPortInv, CurrentPort, OpenPacket, OpenPackets
    <3>4. calls < MaxCalls => CurrentPort < tftp.port
      BY SMTT(30), <1>1 DEF TftpInv, FreshInv
    <3> HIDE DEF k
    <3>5. TftpTypeInv' /\ FreshInv' /\ ServerInv' /\ CountInv'
      BY <1>1, <2>2, <2>3, <2>4, <2>5, <3>1, <3>2, <3>3, <3>4
         DEF TftpInv, TftpTypeInv, FreshInv, ServerInv, CountInv, TftpBusy
    <3> QED BY <2>1, <2>4, <3>5 DEF TftpInv
  <2>6. CASE tftp.state = "Transfer"
    <3> DEFINE to == assoc[tftp.assoc].remote
    <3>1. to \in 1 .. Len(sessions) /\ tftp.expected = n % BlockMod
      BY <2>6 DEF TftpInv, TftpPortInv, CountInv
    <3>2. PICK frame \in BOOLEAN :
            tftpNet' = tftpNet \cup SentVia(tftp.assoc, frame, {AckPacket(to, tftp.expected, n)})
      BY <1>3, <2>6
    <3> HIDE DEF to, n
    <3>3. /\ tftpNet' \subseteq OpenPackets \cup AckPackets(Len(sessions))
          /\ \A k \in tftpNet' :
               \/ k \in tftpNet
               \/ k.kind = "ack" /\ k.to = to /\ k.idx = n /\ k.nr = k.idx % BlockMod
      BY Zenon, <1>1, <3>1, <3>2, AckSent
    <3>4. n <= n
      BY <1>1
    <3>5. TftpTypeInv' /\ FreshInv'
      BY SMTT(30), <1>1, <2>2, <2>3, <2>4, <3>3 DEF TftpInv, TftpTypeInv, FreshInv
    <3>6. ServerInv' /\ CountInv'
      BY <1>1, <2>2, <2>4, <3>3, <3>4 DEF TftpInv, ServerInv, CountInv, n
    <3> QED BY <2>1, <2>4, <3>5, <3>6 DEF TftpInv
  <2> QED BY <1>1, <2>5, <2>6 DEF TftpBusy
<1> QED BY Zenon, <1>2, <1>3 DEF TftpTimer

\* The server starts a transfer: with the file and the port of an open packet.
LEMMA ServerOpenStep ==
    ASSUME TableInv, TftpInv, NEW m \in tftpNet, ServerOpen(m),
           UNCHANGED <<assoc, calls, tftp, tftpNet>>
    PROVE  TftpInv'
<1> DEFINE n == Len(sessions)
           new == [port |-> m.from, file |-> m.file, block |-> 0]
<1>1. /\ m.kind = "open" /\ n < MaxSessions /\ sessions' = Append(sessions, new)
      /\ m.from \in FirstPort .. LastPort /\ m.file \in Files
  BY PacketTyped DEF ServerOpen
<1>2. sessions \in Seq(Session) /\ n \in Nat /\ Len(tftp.loaded) \in Nat
  BY TftpTyped
<1>3. new \in Session /\ new.port = m.from /\ new.file = m.file /\ new.block = 0
  BY Zenon, <1>1 DEF Session
<1> HIDE DEF new
<1>4. /\ sessions' \in Seq(Session) /\ Len(sessions') = n + 1
      /\ \A t \in 1 .. n : sessions'[t] = sessions[t]
      /\ sessions'[n + 1] = new
  <2>1. sessions \in Seq(Session) /\ new \in Session
    BY <1>2, <1>3
  <2>2. sessions' = Append(sessions, new)
    BY <1>1
  <2> QED BY <2>1, <2>2, AppendFacts
<1>5. 1 .. n \subseteq 1 .. n + 1 /\ \A t \in 1 .. n + 1 : t \in 1 .. n \/ t = n + 1
  BY <1>2
<1>6. TftpTypeInv'
  <2>1. Len(sessions') <= MaxSessions
    BY <1>1, <1>2, <1>4, TftpAssumption
  <2>2. AckPackets(n) \subseteq AckPackets(n + 1)
    BY SMTT(30), <1>5 DEF AckPackets
  <2> QED BY <1>4, <2>1, <2>2 DEF TftpInv, TftpTypeInv
<1>7. TftpPortInv'
  BY SMTT(30), <1>4, <1>5 DEF TftpInv, TftpPortInv, TftpBusy
<1>8. \A t \in 1 .. n + 1 : (t \in 1 .. n /\ sessions'[t] = sessions[t]) \/ sessions'[t] = new
  BY SMTT(30), <1>4, <1>5
<1>9. FreshInv'
  BY SMTT(30), <1>1, <1>3, <1>4, <1>8 DEF TftpInv, FreshInv, TftpBusy, CurrentPort
<1>10. ServerInv'
  <2> SUFFICES ASSUME TftpBusy PROVE ServerInv'
    BY Zenon DEF ServerInv, TftpBusy
  <2>1. CurrentPort' = CurrentPort
    BY DEF CurrentPort
  <2>2. m.from = CurrentPort => m.file = tftp.file
    BY Zenon, <1>1 DEF TftpInv, ServerInv
  <2>3. 0 <= Len(tftp.loaded) + 1
    BY <1>2
  <2>4. \A k \in tftpNet : k.kind = "ack" => k.to \in 1 .. n
    BY PacketTyped
  <2> QED BY <1>3, <1>4, <1>8, <2>1, <2>2, <2>3, <2>4 DEF TftpInv, ServerInv
<1>11. CountInv' /\ FileIntact'
  BY DEF TftpInv, CountInv, FileIntact
<1> QED BY <1>6, <1>7, <1>9, <1>10, <1>11 DEF TftpInv

\* The server sends a block only after the one before it was taken.
LEMMA ServerAckStep ==
    ASSUME TableInv, TftpInv, NEW m \in tftpNet, ServerAck(m),
           UNCHANGED <<assoc, calls, tftp, tftpNet>>
    PROVE  TftpInv'
<1> DEFINE u == m.to
           b == sessions[u].block
           n == Len(tftp.loaded)
<1>1. /\ m.kind = "ack" /\ u \in 1 .. Len(sessions) /\ m.idx \in Nat /\ m.nr = b % BlockMod
      /\ m.nr = m.idx % BlockMod /\ m.idx > b - Lifetime
      /\ sessions' = [sessions EXCEPT ![u].block = @ + 1]
  BY PacketTyped DEF ServerAck, Alive, TftpInv, CountInv
<1>2. sessions \in Seq(Session) /\ Len(sessions) \in Nat /\ n \in Nat
  BY TftpTyped
<1>3. sessions[u] \in Session /\ b \in Nat
  BY <1>1, SessionTyped
<1> DEFINE new == [sessions[u] EXCEPT !.block = b + 1]
<1>4. /\ new \in Session /\ new.port = sessions[u].port /\ new.file = sessions[u].file
      /\ new.block = b + 1
  BY <1>3 DEF Session
<1>5. sessions' = [sessions EXCEPT ![u] = new]
  BY <1>1
<1> HIDE DEF new, u
<1>6. /\ sessions' \in Seq(Session) /\ Len(sessions') = Len(sessions)
      /\ \A t \in 1 .. Len(sessions) : sessions'[t] = IF t = u THEN new ELSE sessions[t]
  <2> DEFINE z == [sessions EXCEPT ![u] = new]
  <2>1. u \in 1 .. Len(sessions)
    BY <1>1
  <2>2. /\ z \in Seq(Session) /\ Len(z) = Len(sessions)
        /\ \A t \in 1 .. Len(sessions) : z[t] = IF t = u THEN new ELSE sessions[t]
    BY <1>2, <1>4, <2>1, ReplaceFacts
  <2> HIDE DEF z
  <2>3. sessions' = z
    BY SMTT(30), <1>5 DEF z
  <2> QED BY <2>2, <2>3
<1>7. TftpTypeInv' /\ TftpPortInv' /\ CountInv' /\ FileIntact'
  BY <1>6 DEF TftpInv, TftpTypeInv, TftpPortInv, TftpBusy, CountInv, FileIntact
<1>8. \A t \in 1 .. Len(sessions) : sessions'[t].port = sessions[t].port
                                    /\ sessions'[t].file = sessions[t].file
  BY <1>4, <1>6
<1>9. FreshInv'
  BY <1>6, <1>8 DEF TftpInv, FreshInv, TftpBusy, CurrentPort
<1>10. ASSUME TftpBusy, sessions[u].port = CurrentPort PROVE b <= n
  <2>1. m.idx <= n /\ b <= n + 1
    BY <1>1, <1>10 DEF TftpInv, ServerInv, u
  <2>2. SUFFICES ASSUME b = n + 1 PROVE FALSE
    BY <1>2, <1>3, <2>1
  <2>3. m.idx <= b /\ b - m.idx < BlockMod /\ BlockMod \in Nat \ {0}
    <3>1. Lifetime \in Nat /\ BlockMod \in Nat \ {0} /\ Lifetime < BlockMod
      BY TftpAssumption
    <3> HIDE DEF b, n
    <3> QED BY <1>1, <1>2, <1>3, <2>1, <2>2, <3>1
  <2>4. m.idx % BlockMod = b % BlockMod
    BY <1>1
  <2> HIDE DEF b
  <2>5. m.idx = b
    BY SMTT(30), <1>1, <1>3, <2>3, <2>4, ModUnique
  <2> QED BY <1>2, <2>1, <2>2, <2>5
<1>11. ServerInv'
  <2> SUFFICES ASSUME TftpBusy PROVE ServerInv'
    BY DEF ServerInv, TftpBusy
  <2>1. CurrentPort' = CurrentPort
    BY DEF CurrentPort
  <2>2. \A k \in tftpNet : k.kind = "ack" => k.to \in 1 .. Len(sessions)
    BY SMTT(30), PacketTyped
  <2>3. \A t \in 1 .. Len(sessions) :
          sessions[t].port = CurrentPort =>
            sessions[t].file = tftp.file /\ sessions'[t].block <= n + 1
    <3> SUFFICES ASSUME NEW t \in 1 .. Len(sessions), sessions[t].port = CurrentPort
                 PROVE  sessions[t].file = tftp.file /\ sessions'[t].block <= n + 1
      OBVIOUS
    <3>1. sessions[t].file = tftp.file /\ sessions[t].block <= n + 1
      BY DEF TftpInv, ServerInv
    <3>2. CASE t = u
      BY <1>2, <1>3, <1>4, <1>6, <1>10, <3>1, <3>2
    <3>3. CASE t # u
      BY <1>6, <3>1, <3>3
    <3> QED BY <3>2, <3>3
  <2>4. /\ \A k \in tftpNet : k.kind = "open" /\ k.from = CurrentPort => k.file = tftp.file
        /\ \A k \in tftpNet : k.kind = "ack" /\ sessions[k.to].port = CurrentPort => k.idx <= n
    BY DEF TftpInv, ServerInv
  <2> QED BY SMTT(30), <1>6, <1>8, <2>1, <2>2, <2>3, <2>4 DEF ServerInv
<1> QED BY <1>7, <1>9, <1>11 DEF TftpInv

LEMMA TftpStep ==
    ASSUME TableInv, TftpInv, TftpNext
    PROVE  TableInv' /\ TftpInv' /\ KeepsOthers("tftp")
<1>1. ASSUME NEW f \in Files, TftpOpen(f)
      PROVE  TableInv' /\ TftpInv' /\ KeepsOthers("tftp")
  <2>1. PICK frame \in BOOLEAN :
       LET sent == NewAssoc # NoAssoc /\ frame IN
       /\ assoc' = IF sent THEN Registered(tftp.port, TftpPort, "tftp") ELSE assoc
       /\ tftp' = [tftp EXCEPT
            !.port = NextPort(@),
            !.loaded = <<>>,
            !.file = IF NewAssoc # NoAssoc THEN f ELSE @,
            !.ok = sent,
            !.assoc = IF sent THEN NewAssoc ELSE NoAssoc,
            !.state = IF sent THEN "Init" ELSE @,
            !.retry = IF sent THEN TftpRetries ELSE @]
       /\ tftpNet' = tftpNet \cup IF sent THEN {OpenPacket(tftp.port, f)} ELSE {}
    BY Zenon, <1>1 DEF TftpOpen
  <2>2. Called /\ ~ TftpBusy /\ sessions' = sessions /\ tftp \in TftpType
    BY <1>1, TftpTyped DEF TftpOpen
  <2>3. CASE NewAssoc # NoAssoc /\ frame
    <3>1. /\ assoc' = Registered(tftp.port, TftpPort, "tftp")
          /\ tftp' = [tftp EXCEPT !.port = NextPort(@), !.loaded = <<>>, !.file = f, !.ok = TRUE,
                        !.assoc = NewAssoc, !.state = "Init", !.retry = TftpRetries]
          /\ tftpNet' = tftpNet \cup {OpenPacket(tftp.port, f)}
      BY Zenon, <2>1, <2>3
    <3> QED BY Zenon, <2>2, <2>3, <3>1, TftpOpenStarts
  <2>4. CASE ~ (NewAssoc # NoAssoc /\ frame)
    <3>1. assoc' = assoc /\ tftpNet' = tftpNet
      BY <2>1, <2>4
    <3>2. tftp' = [tftp EXCEPT !.port = NextPort(@), !.loaded = <<>>,
                     !.file = IF NewAssoc # NoAssoc THEN f ELSE @, !.ok = FALSE,
                     !.assoc = NoAssoc]
      BY Zenon, <2>1, <2>2, <2>4 DEF TftpType
    <3> QED BY Zenon, <2>2, <3>1, <3>2, TftpOpenFails
  <2> QED BY <2>3, <2>4
<1>2. ASSUME NEW t \in 1 .. Len(sessions), NEW m \in SentBy(t), TftpRec(m)
      PROVE  TableInv' /\ TftpInv' /\ KeepsOthers("tftp")
  <2>1. Listener(m.to) = "tftp" /\ Alive(m) /\ UNCHANGED <<calls, sessions>>
    BY <1>2 DEF TftpRec
  <2>2. TftpBusy
    BY <2>1, HeardFacts
  <2>3. CASE TftpEnd("Error")
    BY <2>1, <2>2, <2>3, TftpFails
  <2>4. CASE RecInit(m) /\ ~ TftpEnd("Error")
    <3>1. /\ tftp.state = "Init" /\ m.kind = "oack"
          /\ tftp' = [tftp EXCEPT !.state = "Transfer", !.expected = 0, !.retry = TftpRetries]
          /\ assoc' = [assoc EXCEPT ![tftp.assoc].remote = m.tid]
          /\ \E frame \in BOOLEAN :
               tftpNet' = tftpNet \cup SentVia(tftp.assoc, frame, {AckPacket(m.tid, 0, 0)})
      BY Zenon, <2>4 DEF RecInit
    <3> QED BY Zenon, <2>1, <3>1, RecOptionAckStep
  <2>5. CASE RecData(m)
    BY <2>1, <2>5, RecDataStep
  <2>6. CASE RecError(m)
    BY <2>3, <2>6 DEF RecError
  <2> QED BY <1>2, <2>3, <2>4, <2>5, <2>6 DEF TftpRec
<1>3. CASE TftpServer
  <2>1. UNCHANGED <<assoc, calls, tftp, tftpNet>>
    BY <1>3 DEF TftpServer
  <2>2. TableInv' /\ KeepsOthers("tftp")
    BY <2>1, QuietTable
  <2>3. PICK m \in tftpNet : ServerOpen(m) \/ ServerAck(m)
    BY <1>3 DEF TftpServer
  <2>4. TftpInv'
    BY <2>1, <2>3, ServerOpenStep, ServerAckStep
  <2> QED BY <2>2, <2>4
<1> QED BY <1>1, <1>2, <1>3, TftpTimerStep DEF TftpNext

----------------------------------------------------------------------------
(* The clients together *)

LEMMA CallsGrow ==
    ASSUME TableInv, TftpNext \/ DhcpNext \/ DnsNext
    PROVE  calls <= calls'
<1>1. calls \in Nat
  BY DEF TableInv
<1>2. calls' = calls \/ calls' = calls + 1
  BY Zenon DEF TftpNext, TftpOpen, Called, TftpRec, TftpTimer, TftpServer,
         DhcpNext, DhcpRequest, DhcpRec, DhcpTimer, DnsNext, DnsRequest, DnsRec, DnsTimer
<1> QED BY <1>1, <1>2

LEMMA BootInit == Init => BootInv
<1> SUFFICES ASSUME Init PROVE BootInv
  OBVIOUS
<1>0. UdpInit /\ TftpInit /\ DhcpInit /\ DnsInit
  BY DEF Init
<1>1. /\ \A a \in Assocs : assoc[a] = Closed
      /\ calls = 0 /\ Closed \in Entry /\ Closed.port = 0 /\ Closed.handler = "none"
      /\ assoc = [a \in Assocs |-> Closed]
  BY <1>0 DEF UdpInit, Closed, Entry
<1>2. TableInv
  BY <1>1, UdpAssumption DEF TableInv
<1>3. TftpInv
  <2>1. /\ tftp = [state |-> "Idle", assoc |-> NoAssoc, port |-> FirstPort, expected |-> 0,
                   retry |-> 0, file |-> CHOOSE f \in Files : TRUE, loaded |-> <<>>, ok |-> FALSE]
        /\ tftpNet = {} /\ sessions = <<>>
    BY <1>0 DEF TftpInit
  <2>2. (CHOOSE f \in Files : TRUE) \in Files
    BY TftpAssumption
  <2>3. /\ <<>> \in Seq(Files \X (Nat \ {0})) /\ <<>> \in Seq(Session) /\ Len(<<>>) = 0
        /\ 0 \in 0 .. TftpRetries /\ 0 \in 0 .. BlockMod - 1 /\ FirstPort \in FirstPort .. LastPort
        /\ 0 <= MaxSessions
    BY TftpAssumption
  <2>4. tftp \in TftpType
    BY Zenon, <2>1, <2>2, <2>3 DEF TftpType
  <2>5. /\ tftp.state = "Idle" /\ tftp.port = FirstPort /\ tftp.loaded = <<>> /\ ~ TftpBusy
        /\ tftpNet = {} /\ sessions = <<>>
    BY Zenon, <2>1 DEF TftpBusy
  <2>6. TftpTypeInv
    BY <2>3, <2>4, <2>5 DEF TftpTypeInv
  <2>7. CountInv /\ ServerInv
    BY <2>5 DEF CountInv, ServerInv
  <2>8. FileIntact
    BY <2>5 DEF FileIntact
  <2>9. TftpPortInv
    BY <1>1, <2>5 DEF TftpPortInv
  <2>10. FreshInv
    BY <1>1, <2>5, TftpAssumption DEF FreshInv
  <2> QED BY <2>6, <2>7, <2>8, <2>9, <2>10 DEF TftpInv
<1>4. DhcpInv
  <2>1. /\ dhcp = [state |-> "Idle", assoc |-> NoAssoc, retry |-> 0, xid |-> 0,
                   server |-> NoServer, ip |-> NoLease]
        /\ settings = [ip |-> Preset, netmask |-> Preset, gateway |-> Preset, dns |-> Preset,
                       boot |-> Preset]
        /\ dhcpNet = {}
    BY <1>0 DEF DhcpInit
  <2>2. 0 \in 0 .. DhcpRetries /\ 0 \in 0 .. MaxCalls
    BY DhcpAssumption, UdpAssumption
  <2>3. NoLease \in Leases
    BY <2>2 DEF NoLease, Lease, Leases
  <2>4. dhcp \in DhcpType /\ settings \in Settings
    BY Zenon, <2>1, <2>2, <2>3 DEF DhcpType, Settings
  <2>5. dhcp.state = "Idle" /\ dhcp.xid = 0 /\ ~ DhcpBusy /\ dhcpNet = {}
    BY <2>1 DEF DhcpBusy
  <2>6. DhcpPortInv
    BY <1>1, <2>5 DEF DhcpPortInv
  <2>7. LeaseInv /\ SettingsBelongTogether
    BY Zenon, <2>1 DEF LeaseInv, SettingsBelongTogether
  <2>8. dhcp.xid <= calls
    BY <1>1, <2>5
  <2> QED BY <2>4, <2>5, <2>6, <2>7, <2>8 DEF DhcpInv
<1>5. DnsInv
  <2>1. /\ dns = [state |-> "Idle", assoc |-> NoAssoc, retry |-> 0, id |-> 0,
                  name |-> NoName, ip |-> NoName, ok |-> FALSE]
        /\ dnsNet = {}
    BY <1>0 DEF DnsInit
  <2>2. dns \in DnsType
    BY <2>1, DnsAssumption, UdpAssumption DEF DnsType
  <2>3. DnsEntries = {}
    BY <1>1 DEF DnsEntries
  <2>4. Cardinality(DnsEntries) = 0
    BY <2>3, FS_EmptySet
  <2> QED BY <1>1, <2>1, <2>2, <2>4 DEF DnsInv, DnsBusy, AnswerFitsName
<1> QED BY <1>2, <1>3, <1>4, <1>5 DEF BootInv

LEMMA BootStep == BootInv /\ [Next]_vars => BootInv'
<1> SUFFICES ASSUME BootInv, [Next]_vars PROVE BootInv'
  OBVIOUS
<1>1. TableInv /\ TftpInv /\ DhcpInv /\ DnsInv
  BY DEF BootInv
<1>2. CASE TftpNext /\ UNCHANGED <<dhcpVars, dnsVars>>
  <2>1. TableInv' /\ TftpInv' /\ KeepsOthers("tftp") /\ calls <= calls'
    BY <1>1, <1>2, TftpStep, CallsGrow
  <2> QED BY <1>1, <1>2, <2>1, DhcpKept, DnsKept DEF BootInv
<1>3. CASE DhcpNext /\ UNCHANGED <<tftpVars, dnsVars>>
  <2>1. TableInv' /\ DhcpInv' /\ KeepsOthers("dhcp") /\ calls <= calls'
    BY <1>1, <1>3, DhcpStep, CallsGrow
  <2> QED BY <1>1, <1>3, <2>1, TftpKept, DnsKept DEF BootInv
<1>4. CASE DnsNext /\ UNCHANGED <<tftpVars, dhcpVars>>
  <2>1. TableInv' /\ DnsInv' /\ KeepsOthers("dns") /\ calls <= calls'
    BY <1>1, <1>4, DnsStep, CallsGrow
  <2> QED BY <1>1, <1>4, <2>1, TftpKept, DhcpKept DEF BootInv
<1>5. CASE UNCHANGED vars
  <2>1. /\ UNCHANGED <<assoc, calls>> /\ UNCHANGED tftpVars /\ UNCHANGED dhcpVars
        /\ UNCHANGED dnsVars
    BY <1>5 DEF vars
  <2>2. TableInv' /\ KeepsOthers("dns") /\ KeepsOthers("dhcp") /\ calls <= calls'
    <3>1. calls <= calls'
      BY <1>1, <2>1, UdpAssumption DEF TableInv
    <3>2. TableInv
      BY <1>1
    <3>3. TableInv' /\ KeepsOthers("dns")
      BY <2>1, <3>2, QuietTable
    <3>4. KeepsOthers("dhcp")
      BY <2>1, <3>2, QuietTable
    <3> QED BY <3>1, <3>3, <3>4
  <2> QED BY <1>1, <2>1, <2>2, TftpKept, DhcpKept, DnsKept DEF BootInv
<1> QED BY <1>2, <1>3, <1>4, <1>5 DEF Next

\* All of it holds always.
THEOREM BootInvariant == Spec => []BootInv
BY BootInit, BootStep, PTL DEF Spec

\* What tftp_recHandler stored are the first blocks of the file that was
\* opened last, each once and in order: for all files, any number of blocks
\* whose numbers wrap around, and packets that are lost, repeated, delayed
\* (by less than BlockMod blocks) and reordered.
THEOREM Intact == Spec => []FileIntact
<1>1. BootInv => FileIntact
  BY DEF BootInv, TftpInv
<1> QED BY <1>1, BootInvariant, PTL

\* Neither DHCP nor DNS ends with the answer to another request than the last.
THEOREM AnswersFit == Spec => []AnswersBelong
<1>1. BootInv => AnswersBelong
  BY Zenon DEF BootInv, DhcpInv, DnsInv, AnswersBelong
<1> QED BY <1>1, BootInvariant, PTL

\* No client loses its port to another, and only answered DNS requests leave
\* an entry of the port table behind, at most one each.
THEOREM PortsKept == Spec => []PortsAccounted
<1>1. BootInv => PortsAccounted
  <2> SUFFICES ASSUME BootInv PROVE PortsAccounted
    OBVIOUS
  <2>1. TypeOK
    BY Zenon DEF BootInv, TypeOK, TableInv, Entry, TftpInv, TftpTypeInv, TftpType, DhcpInv, DhcpType,
           Leases, DnsInv, DnsType
  <2>2. /\ TftpBusy => assoc[tftp.assoc].handler = "tftp"
        /\ \A a \in Assocs : assoc[a].handler = "tftp" => TftpBusy /\ tftp.assoc = a
    BY SMTT(30) DEF BootInv, TftpInv, TftpPortInv
  <2>3. /\ dhcp.state = "Request" => assoc[dhcp.assoc].handler = "dhcp"
        /\ dhcp.state = "Discover" /\ dhcp.assoc # NoAssoc => assoc[dhcp.assoc].handler = "dhcp"
        /\ \A a \in Assocs : assoc[a].handler = "dhcp" => DhcpBusy /\ dhcp.assoc = a
    BY DEF BootInv, DhcpInv, DhcpPortInv, DhcpBusy
  <2>4. /\ DnsBusy => assoc[dns.assoc].handler = "dns"
        /\ Cardinality({a \in Assocs : assoc[a].handler = "dns"}) <= dns.id
    BY DEF BootInv, DnsInv, DnsEntries
  <2> QED BY <2>1, <2>2, <2>3, <2>4 DEF PortsAccounted
<1> QED BY <1>1, BootInvariant, PTL

\* The status of a transfer from the fields of the client.
LEMMA StatusFacts ==
    /\ TftpBusy => TftpStatus = "running"
    /\ ~ TftpBusy => TftpStatus = IF tftp.state = "Finished" /\ tftp.ok THEN "done" ELSE "off"
BY DEF TftpStatus, TftpBusy

\* A transfer that ends in state Error is a Finish without success.
LEMMA FailsFinish ==
    ASSUME TftpInv, TftpBusy, TftpEnd("Error")
    PROVE  Copy!Finish
<1>1. tftp' = [tftp EXCEPT !.state = "Error", !.assoc = NoAssoc, !.retry = 0, !.expected = 0]
      /\ tftp \in TftpType
  BY TftpTyped DEF TftpEnd
<1>2. tftp'.state = "Error" /\ tftp'.file = tftp.file /\ tftp'.loaded = tftp.loaded
  BY <1>1 DEF TftpType
<1>3. TftpStatus = "running" /\ TftpStatus' = "off"
  BY <1>2, StatusFacts DEF TftpStatus, TftpBusy
<1> QED BY <1>2, <1>3 DEF Copy!Finish

\* The TFTP client implements Transfer: blocks arrive one behind the other,
\* success means that all blocks of the file did, and packets that come late
\* change nothing of a transfer that has ended.
THEOREM TftpImplements == Spec => TftpIsTransfer
<1> DEFINE view == <<TftpStatus, Blocks[tftp.file], Len(tftp.loaded)>>
<1>1. Init => Copy!Init
  <2> SUFFICES ASSUME Init PROVE Copy!Init
    OBVIOUS
  <2>1. /\ tftp.state = "Idle" /\ tftp.loaded = <<>>
        /\ tftp.file = CHOOSE f \in Files : TRUE
    BY DEF Init, TftpInit
  <2>2. tftp.file \in Files
    BY <2>1, TftpAssumption
  <2>3. TftpStatus = "off" /\ Len(tftp.loaded) = 0
    BY SMTT(30), <2>1 DEF TftpStatus, TftpBusy
  <2> QED BY <2>2, <2>3 DEF Copy!Init
<1>2. ASSUME BootInv, [Next]_vars PROVE [Copy!Next]_view
  <2>1. TableInv /\ TftpInv
    BY <1>2 DEF BootInv
  <2>2. CASE tftp' = tftp
    BY <2>2 DEF TftpStatus, TftpBusy
  <2>3. ASSUME NEW f \in Files, TftpOpen(f) PROVE Copy!Start
    <3>1. PICK frame \in BOOLEAN :
         LET sent == NewAssoc # NoAssoc /\ frame IN
         tftp' = [tftp EXCEPT
              !.port = NextPort(@),
              !.loaded = <<>>,
              !.file = IF NewAssoc # NoAssoc THEN f ELSE @,
              !.ok = sent,
              !.assoc = IF sent THEN NewAssoc ELSE NoAssoc,
              !.state = IF sent THEN "Init" ELSE @,
              !.retry = IF sent THEN TftpRetries ELSE @]
      BY Zenon, <2>3 DEF TftpOpen
    <3>2. tftp \in TftpType /\ ~ TftpBusy /\ tftp.file \in Files
      BY <2>1, <2>3, TftpTyped DEF TftpOpen
    <3>3. tftp'.file \in Files /\ Len(tftp'.loaded) = 0
          /\ (tftp'.state = "Init" \/ (tftp'.state = tftp.state /\ tftp'.ok = FALSE))
      BY Zenon, <3>1, <3>2 DEF TftpType
    <3>4. TftpStatus # "running" /\ TftpStatus' \in {"running", "off"}
      BY SMTT(30), <3>2, <3>3 DEF TftpStatus, TftpBusy
    <3> QED BY <3>3, <3>4 DEF Copy!Start
  <2>4. ASSUME NEW t \in 1 .. Len(sessions), NEW m \in SentBy(t), TftpRec(m)
        PROVE  [Copy!Next]_view
    <3>1. Listener(m.to) = "tftp" /\ Alive(m)
      BY <2>4 DEF TftpRec
    <3>2. TftpBusy /\ tftp.ok /\ tftp \in TftpType
      BY Zenon, <2>1, <3>1, HeardFacts, TftpTyped DEF TftpInv, TftpPortInv
    <3>3. CASE TftpEnd("Error")
      BY Zenon, <2>1, <3>2, <3>3, FailsFinish DEF Copy!Next
    <3>4. CASE RecInit(m) /\ ~ TftpEnd("Error")
      <4>1. tftp' = [tftp EXCEPT !.state = "Transfer", !.expected = 0, !.retry = TftpRetries]
        BY <3>4 DEF RecInit
      <4>2. tftp'.state = "Transfer" /\ tftp'.file = tftp.file /\ tftp'.loaded = tftp.loaded
        BY SMTT(30), <3>2, <4>1 DEF TftpType
      <4> QED BY <3>2, <4>2 DEF TftpStatus, TftpBusy
    <3>5. CASE RecData(m)
      <4> DEFINE n == Len(tftp.loaded)
                 last == m.idx = Blocks[m.file]
      <4>1. /\ m.idx = n + 1 /\ m.file = tftp.file /\ tftp.state = "Transfer"
            /\ n \in Nat /\ tftp.loaded \in Seq(Files \X (Nat \ {0})) /\ tftp.file \in Files
        BY SMTT(30), <2>1, <3>1, <3>5, WantedIsNext, TftpTyped DEF RecData
      <4>2. /\ Len(tftp'.loaded) = n + 1 /\ tftp'.file = tftp.file /\ tftp'.ok = tftp.ok
            /\ tftp'.state = IF last THEN "Finished" ELSE "Transfer"
        <5>1. tftp' = [tftp EXCEPT
                 !.expected = IF last THEN 0 ELSE m.nr,
                 !.retry = IF last THEN 0 ELSE TftpRetries,
                 !.loaded = Append(@, <<m.file, m.idx>>),
                 !.state = IF last THEN "Finished" ELSE @,
                 !.assoc = IF last THEN NoAssoc ELSE @]
          BY <3>5 DEF RecData
        <5>2. /\ tftp'.loaded = Append(tftp.loaded, <<m.file, m.idx>>) /\ tftp'.file = tftp.file
              /\ tftp'.ok = tftp.ok /\ tftp'.state = IF last THEN "Finished" ELSE tftp.state
          BY Zenon, <3>2, <5>1 DEF TftpType
        <5>3. <<m.file, m.idx>> \in Files \X (Nat \ {0})
          BY <4>1
        <5>4. Len(Append(tftp.loaded, <<m.file, m.idx>>)) = n + 1
          BY <4>1, <5>3, AppendFacts
        <5> QED BY <4>1, <5>2, <5>4
      <4>3. TftpStatus = "running" /\ TftpStatus' = IF last THEN "done" ELSE "running"
        BY <3>2, <4>2 DEF TftpStatus, TftpBusy
      <4>4. last => Blocks[tftp.file] = n + 1
        BY <4>1
      <4>5. n + 1 > n
        BY <4>1
      <4> QED BY <4>2, <4>3, <4>4, <4>5 DEF Copy!Next, Copy!Receive
    <3>6. CASE RecError(m)
      BY <3>3, <3>6 DEF RecError
    <3> QED BY <2>4, <3>3, <3>4, <3>5, <3>6 DEF TftpRec
  <2>5. CASE TftpTimer
    <3>1. TftpBusy /\ tftp \in TftpType
      BY <2>1, <2>5, TftpTyped DEF TftpTimer
    <3>2. CASE TftpEnd("Error")
      BY <2>1, <3>1, <3>2, FailsFinish DEF Copy!Next
    <3>3. CASE tftp' = [tftp EXCEPT !.retry = @ - 1]
      <4>1. tftp'.state = tftp.state /\ tftp'.file = tftp.file /\ tftp'.loaded = tftp.loaded
            /\ tftp'.ok = tftp.ok
        BY SMTT(30), <3>1, <3>3 DEF TftpType
      <4> QED BY <4>1 DEF TftpStatus, TftpBusy
    <3> QED BY <2>5, <3>2, <3>3 DEF TftpTimer
  <2>6. CASE TftpNext
    BY <2>2, <2>3, <2>4, <2>5, <2>6 DEF TftpNext, TftpServer, Copy!Next
  <2> QED BY <1>2, <2>2, <2>6 DEF Next, vars, tftpVars
<1> QED BY <1>1, <1>2, BootInvariant, PTL DEF Spec, TftpIsTransfer, Copy!Spec
=============================================================================
