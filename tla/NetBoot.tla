------------------------------ MODULE NetBoot ------------------------------
(***************************************************************************)
(* The clients of the in-house network stack together: DHCP, DNS and TFTP  *)
(* share the UDP port table.  A client is called again once its last       *)
(* request has ended; apart from that the calls come in any order, and     *)
(* the timers of all clients elapse at any time.                           *)
(***************************************************************************)
EXTENDS Tftp, Dhcp, Dns

vars == <<assoc, calls, tftpVars, dhcpVars, dnsVars>>

Init == UdpInit /\ TftpInit /\ DhcpInit /\ DnsInit

Next ==
  \/ TftpNext /\ UNCHANGED <<dhcpVars, dnsVars>>
  \/ DhcpNext /\ UNCHANGED <<tftpVars, dnsVars>>
  \/ DnsNext /\ UNCHANGED <<tftpVars, dhcpVars>>

(* The main loop calls the timer functions for ever, and time goes on. *)
Timers ==
  /\ WF_vars(TftpTimer /\ UNCHANGED <<dhcpVars, dnsVars>>)
  /\ WF_vars(DhcpTimer /\ UNCHANGED <<tftpVars, dnsVars>>)
  /\ WF_vars(DnsTimer /\ UNCHANGED <<tftpVars, dhcpVars>>)

Spec == Init /\ [][Next]_vars /\ Timers

----------------------------------------------------------------------------
(* The transfer of a file as the caller of tftp_open sees it. *)
TftpStatus ==
  CASE TftpBusy -> "running"
    [] tftp.state = "Finished" /\ tftp.ok -> "done"
    [] OTHER -> "off"

Copy == INSTANCE Transfer WITH Sizes <- {Blocks[f] : f \in Files}, status <- TftpStatus,
                               size <- Blocks[tftp.file], got <- Len(tftp.loaded)

TypeOK ==
  /\ assoc \in [Assocs -> [port : {0, DhcpPort, DnsPort} \cup FirstPort .. LastPort,
                           remote : {0, TftpPort} \cup 1 .. MaxSessions,
                           handler : {"none", "tftp", "dhcp", "dns"}]]
  /\ tftp \in [state : {"Idle", "Init", "Transfer", "Finished", "Error"},
               assoc : {NoAssoc} \cup Assocs, port : FirstPort .. LastPort,
               expected : 0 .. BlockMod - 1, retry : 0 .. TftpRetries, file : Files,
               loaded : Seq(Files \X (Nat \ {0})), ok : BOOLEAN]
  /\ dhcp \in [state : {"Idle", "Discover", "Request", "Ok", "Error"},
               assoc : {NoAssoc} \cup Assocs, retry : 0 .. DhcpRetries, xid : 0 .. MaxCalls,
               server : Servers \cup {NoServer},
               ip : [server : Servers \cup {NoServer}, xid : 0 .. MaxCalls]]
  /\ dns \in [state : {"Idle", "Request", "Ok", "NotFound", "Error"},
              assoc : {NoAssoc} \cup Assocs, retry : 0 .. DnsRetries, id : 0 .. MaxCalls,
              name : Names \cup {NoName}, ip : Names \cup {NoName}, ok : BOOLEAN]

(* What tftp_recHandler stored and hashed are the first blocks of the file  *)
(* that was opened last, each once and in order: although blocks and        *)
(* acknowledges are lost, repeated and reordered, block numbers wrap        *)
(* around, an open packet may start two transfers of the server, and        *)
(* packets of an earlier file may still come.                              *)
FileIntact ==
  \A i \in 1 .. Len(tftp.loaded) : tftp.loaded[i] = <<tftp.file, i>>

(* The TFTP client implements Transfer: the blocks arrive one behind the    *)
(* other, success means that all of them did, and a transfer that has       *)
(* ended is not changed by packets that come late.                         *)
TftpIsTransfer == Copy!Spec

(* Address, netmask and gateway always belong together, and after a        *)
(* successful request they are the lease that was requested in this        *)
(* transaction: a late offer or ACK, or an incomplete ACK, changes nothing. *)
SettingsBelongTogether ==
  /\ settings.ip = settings.netmask /\ settings.ip = settings.gateway
  /\ dhcp.state = "Ok" => settings.ip = dhcp.ip /\ dhcp.ip.xid = dhcp.xid

(* The address dns_get_result_ip returns is the one of the host that was    *)
(* asked for last, also if answers to an earlier query still come.         *)
AnswerFitsName == dns.state = "Ok" /\ dns.ok => dns.ip = dns.name

(* Neither DHCP nor DNS ever ends with the answer to another request. *)
AnswersBelong == SettingsBelongTogether /\ AnswerFitsName

(* No client loses its port to another, and only answered DNS requests     *)
(* leave an entry of the port table behind.  A client that waits has its    *)
(* port open, except that DHCP waits in vain after it could not send its    *)
(* request.                                                                *)
PortsAccounted ==
  /\ TypeOK
  /\ TftpBusy => assoc[tftp.assoc].handler = "tftp"
  /\ DnsBusy => assoc[dns.assoc].handler = "dns"
  /\ dhcp.state = "Request" => assoc[dhcp.assoc].handler = "dhcp"
  /\ dhcp.state = "Discover" /\ dhcp.assoc # NoAssoc => assoc[dhcp.assoc].handler = "dhcp"
  /\ \A a \in Assocs :
       /\ assoc[a].handler = "tftp" => TftpBusy /\ tftp.assoc = a
       /\ assoc[a].handler = "dhcp" => DhcpBusy /\ dhcp.assoc = a
  /\ Cardinality({a \in Assocs : assoc[a].handler = "dns"}) <= dns.id

(* Every request ends, with or without an answer: the retries run out, and  *)
(* no packet but a good one refills them.                                  *)
RequestsEnd ==
  /\ TftpBusy ~> ~ TftpBusy
  /\ DhcpBusy ~> ~ DhcpBusy
  /\ DnsBusy ~> ~ DnsBusy
=============================================================================
