------------------------------- MODULE Tftp --------------------------------
(***************************************************************************)
(* The TFTP client of the in-house stack (src/src/networking/stack/tftp.c) *)
(* and, as its environment, a TFTP server and a network that loses,        *)
(* repeats, delays and reorders packets.                                   *)
(*                                                                         *)
(* tftpNet holds every packet of the client, sessions says what the server  *)
(* has sent: each packet may be delivered any number of times, at any time, *)
(* or never.  Only its life time is limited, because block numbers are      *)
(* reused.                                                                 *)
(*                                                                         *)
(* WantedAnyNewer, TftpEndKeepsPort, RecErrorAsShortBlock and              *)
(* TftpTimerForever are faulty variants of the definitions that follow     *)
(* them; no action uses them.                                              *)
(***************************************************************************)
EXTENDS Udp, Sequences

CONSTANTS
  Files,        \* files on the server
  Blocks,       \* number of blocks of each file; the last one is short
  BlockMod,     \* block numbers are taken modulo this (65536)
  Lifetime,     \* a packet is gone once this many newer blocks were taken
  FirstPort,    \* the local ports, 1024 ..
  LastPort,     \* .. 65535
  TftpPort,     \* usTftpPort of the server
  TftpRetries,  \* ucTftpRetries
  MaxSessions   \* bound: transfers the server starts

ASSUME TftpAssumption ==
  /\ Files # {} /\ Blocks \in [Files -> Nat \ {0}]
  /\ BlockMod \in Nat \ {0, 1}
  /\ Lifetime \in 1 .. BlockMod - 1
  /\ TftpRetries \in Nat
  /\ FirstPort \in Nat \ {0} /\ LastPort \in Nat /\ FirstPort <= LastPort
  /\ MaxSessions \in Nat

(* The port counter wraps around after 64512 transfers.  By then the packets *)
(* of the first one are gone, so no run comes to a port a second time.      *)
ASSUME PortsAssumption == MaxCalls <= LastPort - FirstPort + 1

VARIABLES
  tftp,      \* the static variables of tftp.c
  tftpNet,   \* the packets of the client on the network
  sessions   \* the transfers of the server

tftpVars == <<tftp, tftpNet, sessions>>

TftpBusy == tftp.state \in {"Init", "Transfer"}

TftpInit ==
  /\ tftp = [state |-> "Idle", assoc |-> NoAssoc, port |-> FirstPort, expected |-> 0,
             retry |-> 0, file |-> CHOOSE f \in Files : TRUE, loaded |-> <<>>, ok |-> FALSE]
  /\ tftpNet = {}
  /\ sessions = <<>>

OpenPacket(port, f) == [kind |-> "open", from |-> port, file |-> f]
AckPacket(tid, nr, idx) == [kind |-> "ack", to |-> tid, nr |-> nr, idx |-> idx]
DataPacket(port, tid, f, idx) ==
  [kind |-> "data", to |-> port, tid |-> tid, file |-> f, idx |-> idx, nr |-> idx % BlockMod]
OptionAck(port, tid, same) == [kind |-> "oack", to |-> port, tid |-> tid, same |-> same]
ErrorPacket(port, tid) == [kind |-> "error", to |-> port, tid |-> tid]

(* The port counter after a call. *)
NextPort(port) == IF port + 1 > LastPort THEN FirstPort ELSE port + 1

(* tftp_open.  ok is its result, as far as the caller keeps it: a failed   *)
(* call leaves the state of the transfer before.                           *)
TftpOpen(f) ==
  /\ Called
  /\ ~ TftpBusy
  /\ \E frame \in BOOLEAN :
       LET sent == NewAssoc # NoAssoc /\ frame IN
       /\ assoc' = IF sent THEN Registered(tftp.port, TftpPort, "tftp") ELSE assoc
       /\ tftp' = [tftp EXCEPT
            !.port = NextPort(@),
            !.loaded = <<>>,
            !.file = IF NewAssoc # NoAssoc THEN f ELSE @,
            !.ok = sent,
            !.assoc = IF sent THEN NewAssoc ELSE NoAssoc,
            !.state = IF sent THEN "Init" ELSE @,
            !.retry = IF sent THEN TftpRetries ELSE @]
       /\ tftpNet' = tftpNet \cup IF sent THEN {OpenPacket(tftp.port, f)} ELSE {}
  /\ UNCHANGED sessions

TftpEndKeepsPort(state) ==
  /\ tftp' = [tftp EXCEPT !.state = state, !.assoc = NoAssoc, !.retry = 0, !.expected = 0]
  /\ UNCHANGED <<assoc, tftpNet>>

(* tftp_cleanup, with the state that goes with it.  Nothing reads the       *)
(* counters of a transfer that has ended; they are put to 0.               *)
TftpEnd(state) ==
  /\ tftp' = [tftp EXCEPT !.state = state, !.assoc = NoAssoc, !.retry = 0, !.expected = 0]
  /\ assoc' = Unregistered(tftp.assoc)
  /\ UNCHANGED tftpNet

(* tftp_recHandler in state Init.  The server answers from a new port,     *)
(* which is the remote port from now on.                                   *)
RecInit(m) ==
  /\ tftp.state = "Init"
  /\ \/ /\ m.kind = "oack" /\ m.same
        /\ tftp' = [tftp EXCEPT !.state = "Transfer", !.expected = 0, !.retry = TftpRetries]
        /\ assoc' = [assoc EXCEPT ![tftp.assoc].remote = m.tid]
        /\ \E frame \in BOOLEAN :
             tftpNet' = tftpNet \cup SentVia(tftp.assoc, frame, {AckPacket(m.tid, 0, 0)})
     \/ /\ m.kind \in {"error", "data"} \/ (m.kind = "oack" /\ ~ m.same)
        /\ TftpEnd("Error")

WantedAnyNewer(m) == m.nr # tftp.expected

(* The block behind the last good one. *)
Wanted(m) == m.nr = (tftp.expected + 1) % BlockMod

(* tftp_recHandler in state Transfer.  Data is stored, hashed and           *)
(* acknowledged; a short block ends the transfer.  Another block than the  *)
(* wanted one is ignored: its acknowledge is not repeated.                 *)
RecData(m) ==
  LET last == m.idx = Blocks[m.file] IN
  /\ tftp.state = "Transfer"
  /\ m.kind = "data"
  /\ Wanted(m)
  /\ tftp' = [tftp EXCEPT
       !.expected = IF last THEN 0 ELSE m.nr,
       !.retry = IF last THEN 0 ELSE TftpRetries,
       !.loaded = Append(@, <<m.file, m.idx>>),
       !.state = IF last THEN "Finished" ELSE @,
       !.assoc = IF last THEN NoAssoc ELSE @]
  /\ assoc' = IF last THEN Unregistered(tftp.assoc) ELSE assoc
  /\ \E frame \in BOOLEAN :
       tftpNet' = tftpNet \cup SentVia(tftp.assoc, frame,
                    {AckPacket(assoc[tftp.assoc].remote, m.nr, Len(tftp.loaded) + 1)})

RecErrorAsShortBlock(m) ==
  /\ tftp.state = "Transfer"
  /\ m.kind = "error"
  /\ TftpEnd("Finished")

RecError(m) ==
  /\ tftp.state = "Transfer"
  /\ m.kind = "error"
  /\ TftpEnd("Error")

(* How far the receiver of a packet is behind it. *)
Alive(m) ==
  CASE m.kind = "data" -> m.idx > Len(tftp.loaded) - Lifetime
    [] m.kind = "ack" -> m.idx > sessions[m.to].block - Lifetime
    [] OTHER -> TRUE

TftpRec(m) ==
  /\ Listener(m.to) = "tftp"
  /\ Alive(m)
  /\ RecInit(m) \/ RecData(m) \/ RecError(m)
  /\ UNCHANGED <<calls, sessions>>

TftpTimerForever ==
  /\ TftpBusy
  /\ UNCHANGED <<assoc, calls, tftpVars>>

(* tftp_timer when the time-out has elapsed. *)
TftpTimer ==
  /\ TftpBusy
  /\ \/ /\ tftp.retry > 0
        /\ tftp' = [tftp EXCEPT !.retry = @ - 1]
        /\ \E frame \in BOOLEAN :
             tftpNet' = tftpNet \cup SentVia(tftp.assoc, frame,
               IF tftp.state = "Init" THEN {OpenPacket(assoc[tftp.assoc].port, tftp.file)}
               ELSE {AckPacket(assoc[tftp.assoc].remote, tftp.expected, Len(tftp.loaded))})
        /\ UNCHANGED assoc
     \/ /\ tftp.retry = 0
        /\ TftpEnd("Error")
  /\ UNCHANGED <<calls, sessions>>

----------------------------------------------------------------------------
(* External: the server.  Every open packet it gets, a repeated one too,   *)
(* starts a transfer with a port of its own.                               *)
ServerOpen(m) ==
  /\ m.kind = "open"
  /\ Len(sessions) < MaxSessions
  /\ sessions' = Append(sessions, [port |-> m.from, file |-> m.file, block |-> 0])

(* External: the block that was sent last is acknowledged, the next follows. *)
ServerAck(m) ==
  /\ m.kind = "ack"
  /\ Alive(m)
  /\ m.nr = sessions[m.to].block % BlockMod
  /\ sessions[m.to].block < Blocks[sessions[m.to].file]
  /\ sessions' = [sessions EXCEPT ![m.to].block = @ + 1]

TftpServer ==
  /\ \E m \in tftpNet : ServerOpen(m) \/ ServerAck(m)
  /\ UNCHANGED <<assoc, calls, tftp, tftpNet>>

(* External: what a transfer of the server may have sent.  It agrees to the *)
(* block size, changes it, ignores it and starts with the data, or fails;   *)
(* and it sent the blocks that were asked for.                             *)
SentBy(t) ==
  LET s == sessions[t] IN
  {OptionAck(s.port, t, TRUE), OptionAck(s.port, t, FALSE), ErrorPacket(s.port, t)}
  \cup {DataPacket(s.port, t, s.file, i) : i \in {1} \cup 1 .. s.block}

TftpNext ==
  \/ \E f \in Files : TftpOpen(f)
  \/ \E t \in 1 .. Len(sessions) : \E m \in SentBy(t) : TftpRec(m)
  \/ TftpTimer
  \/ TftpServer
=============================================================================
