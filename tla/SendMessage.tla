---------------------------- MODULE SendMessage ----------------------------
(***************************************************************************)
(* sendMessage (src/network_lwip.c) and the protocol control blocks (pcbs) *)
(* of lwIP it works on (core/tcp.c, core/tcp_in.c).  The program sends one *)
(* message after the other, each over a connection of its own.  A closed   *)
(* connection lives on in the stack, with a pointer to the stack frame of  *)
(* the sendMessage that opened it, while later messages are sent.          *)
(*                                                                         *)
(* The peer may answer, close, reset or stay silent at any time.  A        *)
(* message is counted in pieces, which the peer acknowledges in order.     *)
(*                                                                         *)
(* StaysActive, WaitsForWritten, NoPushTimer and CloseKeepsRx are faulty   *)
(* variants of the definitions that follow them; no action uses them.      *)
(***************************************************************************)
EXTENDS Integers

CONSTANTS
    Pcbs,        \* the pool, MEMP_NUM_TCP_PCB elements
    NoPcb,       \* NULL
    Calls,       \* the number of messages
    MsgLen,      \* sizMessage
    SndBuf,      \* TCP_SND_BUF
    ConnTicks,   \* ulConnectionTimeoutInMs
    ChunkTicks   \* ulChunkTransmitTimeoutInMs

ASSUME PoolAssumption == NoPcb \notin Pcbs
ASSUME LenAssumption == MsgLen \in Nat \ {0} /\ SndBuf \in Nat \ {0}
ASSUME TickAssumption == Calls \in Nat /\ ConnTicks \in Nat /\ ChunkTicks \in Nat

VARIABLES
    pc,       \* sendMessage: "idle", "connect", "write", "push" or "close"
    call,     \* the messages started; names the current stack frame
    ptPcb,    \* ptPcb
    cb,       \* tCallbackData: [connected, sent, timer]
    cnt,      \* pucCnt - pvMessage
    res,      \* tResult = ERR_OK
    result,   \* what each call has returned, "none" before
    pcb,      \* the memory of each pcb
    free,     \* the free list of the pool
    active,   \* tcp_active_pcbs
    tw,       \* tcp_tw_pcbs
    leaked,   \* pcbs of failed tcp_connect calls (history)
    acked,    \* pieces of each message the peer has acknowledged (history)
    wild,     \* a callback has written to a frame that is gone (history)
    broken    \* a pcb is on the free list twice

app == <<pc, call, ptPcb, cnt, res, result>>
lists == <<free, active, tw>>
vars == <<app, cb, pcb, lists, leaked, acked, wild, broken>>

Open == {"ESTABLISHED", "CLOSE_WAIT"}
Linger == {"FIN_WAIT_1", "FIN_WAIT_2", "CLOSING", "LAST_ACK"}
States == {"CLOSED", "SYN_SENT", "TIME_WAIT"} \cup Open \cup Linger

\* A pcb as tcp_alloc and then tcp_arg leave it: the frame of a call as its
\* argument, nothing queued.
NewPcb(frame) ==
    [state |-> "CLOSED", sndbuf |-> SndBuf, queue |-> 0, arg |-> frame,
     rxclosed |-> FALSE, pend |-> FALSE]
NewCb == [connected |-> FALSE, sent |-> 0, timer |-> 0]

PcbType ==
    [state: States, sndbuf: 0 .. SndBuf, queue: 0 .. SndBuf, arg: 0 .. Calls,
     rxclosed: BOOLEAN, pend: BOOLEAN]
CbType ==
    [connected: BOOLEAN, sent: Nat, timer: 0 .. ConnTicks + ChunkTicks]

Init ==
    /\ pc = "idle" /\ call = 0 /\ ptPcb = NoPcb /\ cb = NewCb /\ cnt = 0 /\ res = TRUE
    /\ result = [c \in 1 .. Calls |-> "none"]
    /\ pcb = [p \in Pcbs |-> NewPcb(0)]
    /\ free = Pcbs /\ active = {} /\ tw = {} /\ leaked = {}
    /\ acked = [c \in 1 .. Calls |-> 0] /\ wild = FALSE /\ broken = FALSE

(***************************************************************************)
(* Closing and freeing a pcb.                                              *)
(***************************************************************************)

\* tcp_pcb_remove: off its list, queues purged, state CLOSED.
Removed(m) == [m EXCEPT !.state = "CLOSED", !.queue = 0]

\* tcp_close_shutdown_fin: the FIN is queued, or there is no memory for it and
\* tcp_fasttmr tries again.  The possible pcbs afterwards.
ShutdownFin(m) ==
    IF m.state \in Open
      THEN {[m EXCEPT !.state = IF m.state = "ESTABLISHED" THEN "FIN_WAIT_1"
                                                            ELSE "LAST_ACK",
                      !.pend = FALSE],
            [m EXCEPT !.pend = TRUE]}
      ELSE {m}

CloseKeepsRx(m) == ShutdownFin(m)

\* tcp_close of a pcb behind SYN_SENT: no more data is taken from the peer.
\* Everything received has been taken (tcp_recv_null), so no RST is sent.
CloseOpen(m) == ShutdownFin([m EXCEPT !.rxclosed = TRUE])

\* What is left of a pcb in the pool.  Only sendMessage may still read it, as
\* long as it holds the pcb; the contents of the others are forgotten.
Freed(p, m) == IF p = ptPcb /\ pc # "close" THEN Removed(m) ELSE NewPcb(0)

\* p, with the contents m, leaves the active list and goes back to the pool.
FreeActive(p, m) ==
    /\ pcb' = [pcb EXCEPT ![p] = Freed(p, m)]
    /\ active' = active \ {p} /\ free' = free \cup {p} /\ tw' = tw

\* tcp_close by sendMessage.  A pcb the stack has freed reads as CLOSED without
\* a port, and is freed a second time.  The error tcp_abort is for never comes:
\* a FIN without memory counts as ERR_OK.
TcpClose(p) ==
    \/ /\ p \in free
       /\ broken' = TRUE /\ UNCHANGED <<pcb, lists>>
    \/ /\ p \in active /\ pcb[p].state = "SYN_SENT"
       /\ FreeActive(p, pcb[p]) /\ UNCHANGED broken
    \/ /\ p \in active /\ pcb[p].state # "SYN_SENT"
       /\ \E m \in CloseOpen(pcb[p]) : pcb' = [pcb EXCEPT ![p] = m]
       /\ UNCHANGED <<lists, broken>>

(***************************************************************************)
(* sendMessage.                                                            *)
(***************************************************************************)

\* tcp_alloc on an empty pool: the pcbs one of which is killed, those in
\* TIME_WAIT before those in LAST_ACK before those in CLOSING.  All pcbs have
\* the same priority, so tcp_kill_prio finds none.
Victims(s) ==
    LET in(st) == {p \in active : s[p].state = st}
    IN  CASE tw # {} -> tw
          [] tw = {} /\ in("LAST_ACK") # {} -> in("LAST_ACK")
          [] OTHER -> in("CLOSING")

\* tcp_handle_closepend: the FINs that can be sent now.
ClosePend ==
    {s \in [Pcbs -> {pcb[p] : p \in Pcbs} \cup UNION {ShutdownFin(pcb[p]) : p \in Pcbs}] :
        \A p \in Pcbs : s[p] \in IF p \in active /\ pcb[p].pend THEN ShutdownFin(pcb[p])
                                                              ELSE {pcb[p]}}

\* What tcp_new can do: the pcb it returns and the pool behind it.
TcpNew ==
    IF free # {}
      THEN {[new |-> p, mem |-> pcb, tw |-> tw, active |-> active, free |-> free \ {p}] : p \in free}
      ELSE UNION {IF Victims(s) = {}
                    THEN {[new |-> NoPcb, mem |-> s, tw |-> tw, active |-> active, free |-> free]}
                    ELSE {[new |-> p, mem |-> s, tw |-> tw \ {p}, active |-> active \ {p}, free |-> free] :
                             p \in Victims(s)} : s \in ClosePend}

\* sendMessage up to its first wait: a new pcb with tcp_arg, tcp_sent and
\* tcp_connect.  A pcb that cannot connect (no route, port or memory) is left.
Start ==
    /\ pc = "idle" /\ call < Calls /\ ~broken
    /\ call' = call + 1 /\ cb' = [NewCb EXCEPT !.timer = ConnTicks] /\ cnt' = 0 /\ res' = TRUE
    /\ \E a \in TcpNew :
         /\ free' = a.free /\ tw' = a.tw
         /\ \/ /\ a.new # NoPcb
               /\ pc' = "connect" /\ ptPcb' = a.new /\ UNCHANGED <<result, leaked>>
               /\ pcb' = [a.mem EXCEPT ![a.new] = [NewPcb(call') EXCEPT !.state = "SYN_SENT"]]
               /\ active' = a.active \cup {a.new}
            \/ /\ UNCHANGED <<pc, ptPcb>> /\ result' = [result EXCEPT ![call'] = "error"]
               /\ pcb' = [p \in Pcbs |-> IF p = a.new THEN NewPcb(call') ELSE a.mem[p]]
               /\ active' = a.active /\ leaked' = leaked \cup ({a.new} \ {NoPcb})
    /\ UNCHANGED <<acked, wild, broken>>

\* Keeps what the steps inside one call share.
InCall == UNCHANGED <<call, ptPcb, result, leaked, acked, wild>>

\* The timer is looked at after the stack ran: a connection that comes up in
\* the round in which it ends is given up as well.
ConnectDone ==
    /\ pc = "connect" /\ ~broken
    /\ \/ /\ cb.connected
          /\ pc' = "write" /\ cb' = [cb EXCEPT !.timer = ChunkTicks] /\ res' = res
       \/ /\ cb.timer = 0
          /\ pc' = "close" /\ cb' = cb /\ res' = FALSE
    /\ InCall /\ UNCHANGED <<cnt, pcb, lists, broken>>

\* What one tcp_write queues: limited by the send buffer and by what is left.
Chunk(space, left) == IF space >= left THEN left ELSE space

\* One round of the write loop: queue what the send buffer takes, or give up if
\* tcp_write fails (connection not open, or no memory) or the time is over.
Write ==
    /\ pc = "write" /\ cnt < MsgLen /\ ~broken
    /\ LET chunk == Chunk(pcb[ptPcb].sndbuf, MsgLen - cnt)
           Fail  == pc' = "close" /\ res' = FALSE
       IN  \/ chunk > 0 /\ Fail /\ UNCHANGED <<cnt, pcb>>
           \/ /\ chunk > 0 => pcb[ptPcb].state \in Open
              /\ cnt' = cnt + chunk
              /\ pcb' = [pcb EXCEPT ![ptPcb].sndbuf = @ - chunk, ![ptPcb].queue = @ + chunk]
              /\ IF cb.timer = 0 THEN Fail ELSE pc' = pc /\ res' = res
    /\ InCall /\ UNCHANGED <<cb, lists, broken>>

\* All is queued: tcp_output, which fails without a route.
Output ==
    /\ pc = "write" /\ cnt = MsgLen /\ ~broken
    /\ \/ pc' = "push" /\ res' = res
       \/ pc' = "close" /\ res' = FALSE
    /\ InCall /\ UNCHANGED <<cnt, cb, pcb, lists, broken>>

WaitsForWritten == cnt >= MsgLen

\* The condition that ends the wait for the acknowledgements.
AllSent == cb.sent >= MsgLen

NoPushTimer == FALSE

\* systime_handle_is_elapsed in that wait.
PushElapsed == cb.timer = 0

Push ==
    /\ pc = "push" /\ ~broken
    /\ \/ AllSent /\ res' = res
       \/ ~AllSent /\ PushElapsed /\ res' = FALSE
    /\ pc' = "close"
    /\ InCall /\ UNCHANGED <<cnt, cb, pcb, lists, broken>>

\* tcp_close and the return of sendMessage, which leaves its frame.
Close ==
    /\ pc = "close" /\ ~broken
    /\ TcpClose(ptPcb)
    /\ pc' = "idle" /\ ptPcb' = NoPcb
    /\ result' = [result EXCEPT ![call] = IF res THEN "ok" ELSE "error"]
    /\ cb' = NewCb /\ cnt' = 0 /\ res' = TRUE
    /\ UNCHANGED <<call, leaked, acked, wild>>

(***************************************************************************)
(* The stack, in network_cyclic_process of sendMessage or of whatever the  *)
(* program does between two messages.                                      *)
(***************************************************************************)

\* SYN ACK: tcp_process calls sendMessageConnectCallback.
SynAck(p) ==
    /\ ~broken /\ p \in active /\ pcb[p].state = "SYN_SENT"
    /\ pcb' = [pcb EXCEPT ![p].state = "ESTABLISHED"]
    /\ cb' = [cb EXCEPT !.connected = TRUE]
    /\ UNCHANGED <<app, lists, leaked, acked, wild, broken>>

\* sendMessageSentCallback for k pieces of p.  The frame p points to is that of
\* the current call, or is gone: then the write goes to memory nobody uses, or
\* to the frame of the current call, which may lie at the same address.
SentCallback(p, k) ==
    LET m    == pcb[p]
        Here == cb' = [cb EXCEPT !.sent = @ + k, !.timer = ChunkTicks]
        live == pc # "idle" /\ m.arg = call
    IN  IF k = 0 THEN UNCHANGED <<cb, acked, wild>>
        ELSE /\ acked' = [acked EXCEPT ![m.arg] = @ + k]
             /\ wild' = (wild \/ ~live)
             /\ \/ Here /\ pc # "idle"
                \/ ~live /\ cb' = cb

StaysActive(p, m) ==
    /\ pcb' = [pcb EXCEPT ![p] = [m EXCEPT !.state = "TIME_WAIT", !.queue = 0]]
    /\ tw' = tw \cup {p} /\ UNCHANGED <<active, free>>

\* p goes from the active list to the TIME_WAIT list.
ToTimeWait(p, m) ==
    /\ pcb' = [pcb EXCEPT ![p] = [m EXCEPT !.state = "TIME_WAIT", !.queue = 0]]
    /\ active' = active \ {p} /\ tw' = tw \cup {p} /\ free' = free

\* A segment for an open or closing connection: it acknowledges k pieces, and
\* our FIN if finack, and carries the peer's FIN if fin.  The sent callback
\* comes first.  A FIN before we closed goes to tcp_recv_null, which closes.
Segment(p, k, finack, fin) ==
    /\ ~broken /\ p \in active /\ pcb[p].state \in Open \cup Linger
    /\ k \in 0 .. pcb[p].queue /\ (k > 0 \/ finack \/ fin)
    /\ finack => k = pcb[p].queue /\ pcb[p].state \in Linger \ {"FIN_WAIT_2"}
    /\ fin => pcb[p].state \in {"ESTABLISHED", "FIN_WAIT_1", "FIN_WAIT_2"}
    /\ SentCallback(p, k)
    /\ LET m == [pcb[p] EXCEPT !.sndbuf = @ + k, !.queue = @ - k]
           Stay(ms) == \E x \in ms : pcb' = [pcb EXCEPT ![p] = x] /\ UNCHANGED lists
       IN  CASE m.state = "ESTABLISHED" /\ fin -> Stay(CloseOpen([m EXCEPT !.state = "CLOSE_WAIT"]))
             [] m.state = "FIN_WAIT_1" /\ fin /\ ~finack -> Stay({[m EXCEPT !.state = "CLOSING"]})
             [] m.state = "FIN_WAIT_1" /\ ~fin /\ finack -> Stay({[m EXCEPT !.state = "FIN_WAIT_2"]})
             [] \/ m.state = "FIN_WAIT_1" /\ fin /\ finack
                \/ m.state = "FIN_WAIT_2" /\ fin
                \/ m.state = "CLOSING" /\ finack -> ToTimeWait(p, m)
             [] m.state = "LAST_ACK" /\ finack -> FreeActive(p, m)
             [] OTHER -> Stay({m})
    /\ UNCHANGED <<app, leaked, broken>>

\* RST, or data for a connection that is closed on our side: no error callback
\* is registered, the pcb is freed without a word to sendMessage.
Reset(p) ==
    /\ ~broken /\ p \in active
    /\ FreeActive(p, pcb[p])
    /\ UNCHANGED <<app, cb, leaked, acked, wild, broken>>

\* tcp_fasttmr: a FIN that had no memory.
FastTmr(p) ==
    /\ ~broken /\ p \in active /\ pcb[p].pend
    /\ \E m \in ShutdownFin(pcb[p]) : pcb' = [pcb EXCEPT ![p] = m]
    /\ UNCHANGED <<app, cb, lists, leaked, acked, wild, broken>>

\* p has been in FIN_WAIT_2 after a full close or in LAST_ACK.  Its time runs
\* from the last segment before the close; no later one starts it anew.
TimeFixed(p) ==
    /\ p \in active
    /\ \/ pcb[p].state = "LAST_ACK"
       \/ pcb[p].state = "FIN_WAIT_2" /\ pcb[p].rxclosed

\* p waits in TIME_WAIT, which a FIN of the peer that comes again starts anew.
Waiting(p) == p \in tw

\* Data or a FIN of p waits to be sent or acknowledged; p is given up after
\* TCP_MAXRTX attempts.  The attempts are counted anew when something is
\* acknowledged, and, as long as data does not fit the peer's window, whenever
\* the peer answers a probe.  Nothing is counted if there is no route for what
\* is sent for the first time.
Sending(p) ==
    /\ p \in active
    /\ \/ pcb[p].state \in {"FIN_WAIT_1", "CLOSING"}
       \/ pcb[p].state \in Open /\ pcb[p].queue > 0

\* tcp_slowtmr takes p away, as its time is over.  While sendMessage holds p its
\* own timers are shorter than all of these.
SlowTmr(p) ==
    /\ ~broken /\ p # ptPcb
    /\ TimeFixed(p) \/ Waiting(p) \/ Sending(p)
    /\ pcb' = [pcb EXCEPT ![p] = NewPcb(0)]
    /\ active' = active \ {p} /\ tw' = tw \ {p} /\ free' = free \cup {p}
    /\ UNCHANGED <<app, cb, leaked, acked, wild, broken>>

Tick ==
    /\ ~broken /\ pc # "idle" /\ cb.timer > 0
    /\ cb' = [cb EXCEPT !.timer = @ - 1]
    /\ UNCHANGED <<app, pcb, lists, leaked, acked, wild, broken>>

App == Start \/ ConnectDone \/ Write \/ Output \/ Push \/ Close
Stack(p) ==
    \/ SynAck(p) \/ Reset(p) \/ FastTmr(p) \/ SlowTmr(p)
    \/ \E k \in 0 .. SndBuf, finack, fin \in BOOLEAN : Segment(p, k, finack, fin)
Next == App \/ Tick \/ \E p \in Pcbs : Stack(p)

\* The program runs, time passes, and memory for a FIN turns up.  Nothing is
\* assumed of the peer and the link: of the times in the stack only those run
\* out that neither of them can prolong.
Fairness ==
    /\ WF_vars(App) /\ WF_vars(Tick)
    /\ \A p \in Pcbs : /\ WF_vars(TimeFixed(p) /\ SlowTmr(p))
                       /\ SF_vars(FastTmr(p) /\ ~pcb'[p].pend)
Spec == Init /\ [][Next]_vars /\ Fairness

(***************************************************************************)
(* Properties.                                                             *)
(***************************************************************************)

\* The locals of sendMessage and the memory and lists of the stack have their
\* types; no queue exceeds TCP_SND_BUF and no message is acknowledged twice.
TypeOK ==
    /\ pc \in {"idle", "connect", "write", "push", "close"} /\ call \in 0 .. Calls
    /\ ptPcb \in Pcbs \cup {NoPcb} /\ cb \in CbType /\ cnt \in 0 .. MsgLen /\ res \in BOOLEAN
    /\ result \in [1 .. Calls -> {"none", "ok", "error"}]
    /\ pcb \in [Pcbs -> PcbType]
    /\ free \subseteq Pcbs /\ active \subseteq Pcbs /\ tw \subseteq Pcbs /\ leaked \subseteq Pcbs
    /\ acked \in [1 .. Calls -> 0 .. MsgLen] /\ wild \in BOOLEAN /\ broken \in BOOLEAN

\* Every pcb is in exactly one place, and its state fits the place (the
\* assertions at the head of the two loops of tcp_slowtmr).  Outside the pool
\* and the lists are only the pcbs sendMessage leaves behind when tcp_connect
\* fails.
PcbsAccounted ==
    /\ free \cap (active \cup tw) = {} /\ active \cap tw = {}
    /\ leaked = Pcbs \ (free \cup active \cup tw)
    /\ \A p \in active : pcb[p].state \notin {"CLOSED", "TIME_WAIT"}
    /\ \A p \in tw : pcb[p].state = "TIME_WAIT"

\* sendMessage returns 0 only for a message the peer has acknowledged to the
\* end, unless a callback of an earlier connection wrote into its frame.
SuccessIsAcked ==
    ~wild => \A c \in 1 .. Calls : result[c] = "ok" => acked[c] = MsgLen

\* A connection that is still being opened belongs to the sendMessage that
\* waits for it, so the connect callback always finds its frame.
ConnectFindsFrame ==
    \A p \in active : pcb[p].state = "SYN_SENT" =>
        pc \in {"connect", "close"} /\ ptPcb = p /\ pcb[p].arg = call

\* tcp_new gives a message up only when no pcb is free, in TIME_WAIT, in
\* LAST_ACK or in CLOSING.
NoPcbOnlyIfAllBusy ==
    [][call' # call /\ ptPcb' = NoPcb /\ leaked' = leaked =>
          /\ free = {} /\ tw = {}
          /\ \A p \in active : pcb[p].state \notin {"LAST_ACK", "CLOSING"}]_vars

\* Every call of sendMessage returns, whatever the peer does.
CallsReturn == []<>(pc = "idle" \/ broken)

\* Once the last message is sent, a pcb that is not lost returns to the pool for
\* good, whether the peer answers, stays silent, closes or resets, if its time
\* in TIME_WAIT and its TCP_MAXRTX attempts come to an end.  They need not: the
\* peer can repeat its FIN for ever, or answer the probes of a window it keeps
\* shut for ever, and without a route no attempt is made.  A connection that is
\* closed and acknowledged on our side comes back even then.
PcbsComeBack ==
    \A p \in Pcbs : WF_vars(SlowTmr(p)) => <>[](p \in free \cup leaked \/ broken)

\* tcp_close is never called for a pcb that has been freed ("this should never
\* happen as the pcb has in those cases been freed, and so any remaining
\* handles are bogus").
HandleLives == ~broken

\* As long as data is not acknowledged, the message it points to is there ("the
\* memory behind dataptr must not change until the data is ACKed by the remote
\* host"): the frame of its sender has not been left.
MessageLives ==
    \A p \in active : pcb[p].queue > 0 => pc # "idle" /\ pcb[p].arg = call
=============================================================================
