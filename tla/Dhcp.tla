------------------------------- MODULE Dhcp --------------------------------
(***************************************************************************)
(* The DHCP client of the in-house stack (src/src/networking/stack/dhcp.c) *)
(* and, as its environment, DHCP servers and a network that loses,         *)
(* repeats, delays and reorders packets.                                   *)
(*                                                                         *)
(* A lease is named by the server and the transaction it was offered in.   *)
(* dhcpNet holds every packet of the client; an answer to it may come any   *)
(* number of times or never.                                               *)
(*                                                                         *)
(* AcceptedAsTheyCome is a faulty variant of the definition that follows   *)
(* it; no action uses it.                                                  *)
(***************************************************************************)
EXTENDS Udp

CONSTANTS
  Servers,      \* DHCP servers, by server identifier
  NoServer,     \* identifier 0, of an offer without the option
  Preset,       \* settings the station had before
  DhcpPort,     \* DHCP_DISCOVER_SRC_PORT
  DhcpRetries,  \* ucDhcpRetries
  OptionSets    \* the options an ACK may carry

ASSUME DhcpAssumption ==
  /\ NoServer \notin Servers
  /\ DhcpPort \in Nat \ {0}
  /\ DhcpRetries \in Nat

VARIABLES
  dhcp,       \* the static variables of dhcp.c
  settings,   \* the addresses in g_t_romloader_options
  dhcpNet     \* the packets of the client on the network

dhcpVars == <<dhcp, settings, dhcpNet>>

DhcpBusy == dhcp.state \in {"Discover", "Request"}

Lease(srv, xid) == [server |-> srv, xid |-> xid]
NoLease == Lease(NoServer, 0)

DhcpInit ==
  /\ dhcp = [state |-> "Idle", assoc |-> NoAssoc, retry |-> 0, xid |-> 0,
             server |-> NoServer, ip |-> NoLease]
  /\ settings = [ip |-> Preset, netmask |-> Preset, gateway |-> Preset, dns |-> Preset,
                 boot |-> Preset]
  /\ dhcpNet = {}

Discover(xid) == [kind |-> "discover", xid |-> xid]
Request(xid, srv, ip) == [kind |-> "request", xid |-> xid, server |-> srv, ip |-> ip]
Offer(xid, srv, ip) == [kind |-> "offer", xid |-> xid, server |-> srv, ip |-> ip]
Ack(xid, ip, opts) == [kind |-> "ack", xid |-> xid, ip |-> ip, opts |-> opts]
Nak(xid) == [kind |-> "nak", xid |-> xid]

(* dhcp_request.  Without a free port the state stays as it is. *)
DhcpRequest ==
  /\ Called
  /\ ~ DhcpBusy
  /\ NewAssoc # NoAssoc
  /\ \E frame \in BOOLEAN :
       /\ dhcp' = [dhcp EXCEPT
            !.xid = @ + 1,
            !.assoc = IF frame THEN NewAssoc ELSE NoAssoc,
            !.state = IF frame THEN "Discover" ELSE "Error",
            !.retry = IF frame THEN DhcpRetries ELSE @]
       /\ assoc' = IF frame THEN Registered(DhcpPort, 0, "dhcp") ELSE assoc
       /\ dhcpNet' = dhcpNet \cup IF frame THEN {Discover(dhcp.xid + 1)} ELSE {}
  /\ UNCHANGED settings

(* dhcp_cleanup, with the state that goes with it.  Nothing reads the       *)
(* retries and the server of a request that has ended.                     *)
DhcpEnd(state) ==
  /\ dhcp' = [dhcp EXCEPT !.state = state, !.assoc = NoAssoc, !.retry = 0, !.server = NoServer]
  /\ assoc' = Unregistered(dhcp.assoc)
  /\ UNCHANGED dhcpNet

(* The transaction ID of the packet is the one of the last request. *)
ForMe(m) == m.xid = dhcp.xid

(* dhcp_recHandler in state Discover.  If the request cannot be sent the    *)
(* association is given back, but the state stays Discover.                *)
RecOffer(m) ==
  LET request == Request(dhcp.xid, m.server, m.ip) IN
  /\ dhcp.state = "Discover"
  /\ m.kind = "offer"
  /\ ForMe(m)
  /\ \/ /\ dhcp' = [dhcp EXCEPT !.server = m.server, !.ip = m.ip,
                               !.state = "Request", !.retry = DhcpRetries]
        /\ dhcpNet' = dhcpNet \cup {request}
        /\ UNCHANGED assoc
     \/ /\ dhcp' = [dhcp EXCEPT !.server = m.server, !.ip = m.ip, !.assoc = NoAssoc]
        /\ assoc' = Unregistered(dhcp.assoc)
        /\ UNCHANGED dhcpNet
  /\ UNCHANGED settings

(* What an ACK with the options opts makes of the settings: nothing        *)
(* without a netmask and a router, all of them otherwise.                  *)
Complete(opts) == {"netmask", "router"} \subseteq opts

AcceptedAsTheyCome(ip, opts) ==
  [settings EXCEPT !.ip = ip,
                   !.netmask = IF "netmask" \in opts THEN ip ELSE @,
                   !.gateway = IF "router" \in opts THEN ip ELSE @,
                   !.dns = IF "dns" \in opts THEN ip ELSE @,
                   !.boot = IF "boot" \in opts THEN ip ELSE @]

Accepted(ip, opts) ==
  IF Complete(opts)
  THEN [settings EXCEPT !.ip = ip, !.netmask = ip, !.gateway = ip,
                        !.dns = IF "dns" \in opts THEN ip ELSE @,
                        !.boot = IF "boot" \in opts THEN ip ELSE @]
  ELSE settings

(* dhcp_recHandler in state Request. *)
RecAck(m) ==
  /\ dhcp.state = "Request"
  /\ m.kind = "ack"
  /\ ForMe(m)
  /\ DhcpEnd(IF Complete(m.opts) THEN "Ok" ELSE "Error")
  /\ settings' = Accepted(m.ip, m.opts)

(* Only a NAK that names an address passes the check of the header; one     *)
(* without, the usual kind, is ignored.                                    *)
RecNak(m) ==
  /\ dhcp.state = "Request"
  /\ m.kind = "nak"
  /\ ForMe(m)
  /\ DhcpEnd("Error")
  /\ UNCHANGED settings

DhcpRec(m) ==
  /\ Listener(DhcpPort) = "dhcp"
  /\ RecOffer(m) \/ RecAck(m) \/ RecNak(m)
  /\ UNCHANGED calls

(* dhcp_timer when the time-out has elapsed. *)
DhcpTimer ==
  /\ DhcpBusy
  /\ \/ /\ dhcp.retry > 0
        /\ dhcp' = [dhcp EXCEPT !.retry = @ - 1]
        /\ \E frame \in BOOLEAN :
             dhcpNet' = dhcpNet \cup SentVia(dhcp.assoc, frame,
               IF dhcp.state = "Discover" THEN {Discover(dhcp.xid)}
               ELSE {Request(dhcp.xid, dhcp.server, dhcp.ip)})
        /\ UNCHANGED assoc
     \/ /\ dhcp.retry = 0
        /\ DhcpEnd("Error")
  /\ UNCHANGED <<calls, settings>>

----------------------------------------------------------------------------
(* External: what the servers may answer to the packets of the client.     *)
(* Each may answer a discover, with or without its identifier; only the     *)
(* one that is named answers a request, and for the address it offered.    *)
Offers ==
  UNION {{Offer(m.xid, srv, Lease(srv, m.xid)), Offer(m.xid, NoServer, Lease(srv, m.xid))} :
           m \in {d \in dhcpNet : d.kind = "discover"}, srv \in Servers}

Replies ==
  UNION {{Nak(m.xid)} \cup {Ack(m.xid, m.ip, opts) : opts \in OptionSets} :
           m \in {r \in dhcpNet : r.kind = "request" /\ r.server \in Servers}}

DhcpNext ==
  \/ DhcpRequest
  \/ \E m \in Offers \cup Replies : DhcpRec(m)
  \/ DhcpTimer
=============================================================================
