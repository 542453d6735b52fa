----------------------------- MODULE SendProofs -----------------------------
(***************************************************************************)
(* Proofs about SendMessage for any number of pcbs and messages, any size  *)
(* of message and send buffer, and any timeouts.                           *)
(***************************************************************************)
EXTENDS SendMessage, TLAPS

Held == {"SYN_SENT", "ESTABLISHED", "CLOSE_WAIT", "LAST_ACK"}
Fresh == {"SYN_SENT", "ESTABLISHED"}

\* What sendMessage may rely on of the pcb it holds: freed, or its own, with
\* the part of the message in the queue that is written and not acknowledged.
Handle ==
    /\ pc = "idle" => ptPcb = NoPcb
    /\ pc # "idle" =>
         /\ ptPcb \in free \cup active /\ call \in 1 .. Calls /\ result[call] = "none"
         /\ ptPcb \in free => pcb[ptPcb].state = "CLOSED"
         /\ ptPcb \in active =>
              /\ pcb[ptPcb].arg = call /\ pcb[ptPcb].state \in Held
              /\ pcb[ptPcb].pend => pcb[ptPcb].state \notin Fresh
              /\ acked[call] + pcb[ptPcb].queue = cnt
         /\ acked[call] <= cnt
         /\ ~wild => cb.sent = acked[call]
         /\ pc = "close" /\ res /\ ~wild => acked[call] = MsgLen

\* Each connection belongs to one call, and none acknowledges more than the
\* message of that call.
Frames ==
    /\ \A p \in active :
         /\ pcb[p].arg \in 1 .. call
         /\ acked[pcb[p].arg] + pcb[p].queue <= MsgLen
         /\ pcb[p].sndbuf + pcb[p].queue = SndBuf
         /\ pc # "idle" /\ pcb[p].arg = call => p = ptPcb
    /\ \A p, q \in active : pcb[p].arg = pcb[q].arg => p = q
    /\ \A c \in 1 .. Calls : c > call => acked[c] = 0 /\ result[c] = "none"

\* A connection that is being opened is waited for.
Connecting ==
    /\ ConnectFindsFrame
    /\ cb.connected => \A p \in active : pcb[p].state # "SYN_SENT"

IInv == TypeOK /\ PcbsAccounted /\ Handle /\ Frames /\ Connecting /\ SuccessIsAcked

-----------------------------------------------------------------------------
LEMMA InitInv == Init => IInv
<1> SUFFICES ASSUME Init PROVE IInv
  OBVIOUS
<1> USE PoolAssumption, LenAssumption, TickAssumption DEF Init
<1>1. TypeOK
  <2>1. NewPcb(0) \in PcbType
    BY DEF NewPcb, PcbType, States
  <2>2. NewCb \in CbType
    BY DEF NewCb, CbType
  <2>3. res \in BOOLEAN /\ wild \in BOOLEAN /\ broken \in BOOLEAN
    BY Zenon
  <2>4. /\ pcb \in [Pcbs -> PcbType] /\ acked \in [1 .. Calls -> 0 .. MsgLen]
        /\ result \in [1 .. Calls -> {"none", "ok", "error"}]
    BY <2>1
  <2>5. cb \in CbType /\ cnt \in 0 .. MsgLen /\ call \in 0 .. Calls
    BY <2>2
  <2>6. QED
    BY <2>3, <2>4, <2>5 DEF TypeOK
<1>2. PcbsAccounted /\ Handle /\ Frames
  BY DEF PcbsAccounted, Handle, Frames
<1>3. Connecting /\ SuccessIsAcked
  BY DEF Connecting, ConnectFindsFrame, SuccessIsAcked
<1>4. QED
  BY <1>1, <1>2, <1>3 DEF IInv

\* tcp_close_shutdown_fin leaves the data and the argument of a pcb alone.
LEMMA ShutdownFacts ==
    ASSUME NEW m \in PcbType, NEW x \in ShutdownFin(m)
    PROVE  /\ x \in PcbType
           /\ x.queue = m.queue /\ x.sndbuf = m.sndbuf /\ x.arg = m.arg
           /\ x.rxclosed = m.rxclosed
           /\ m.state \notin Open => x = m
           /\ m.state = "ESTABLISHED" =>
                 x.state = "FIN_WAIT_1" \/ (x.state = "ESTABLISHED" /\ x.pend)
           /\ m.state = "CLOSE_WAIT" => x.state \in {"LAST_ACK", "CLOSE_WAIT"}
<1>1. x \in PcbType
  BY Zenon DEF ShutdownFin, PcbType, States, Open, Linger
<1>2. x.queue = m.queue /\ x.sndbuf = m.sndbuf /\ x.arg = m.arg /\ x.rxclosed = m.rxclosed
  BY Zenon DEF ShutdownFin, PcbType
<1>3. m.state \notin Open => x = m
  BY Zenon DEF ShutdownFin
<1>4. m.state = "ESTABLISHED" => x.state = "FIN_WAIT_1" \/ (x.state = "ESTABLISHED" /\ x.pend)
  BY Zenon DEF ShutdownFin, PcbType, Open, Linger
<1>5. m.state = "CLOSE_WAIT" => x.state \in {"LAST_ACK", "CLOSE_WAIT"}
  BY Zenon DEF ShutdownFin, PcbType, Open, Linger
<1> QED BY Zenon, <1>1, <1>2, <1>3, <1>4, <1>5

\* tcp_close of a pcb that is not being opened, likewise.
LEMMA CloseFacts ==
    ASSUME NEW m \in PcbType, NEW x \in CloseOpen(m)
    PROVE  /\ x \in PcbType
           /\ x.queue = m.queue /\ x.sndbuf = m.sndbuf /\ x.arg = m.arg
           /\ m.state \notin Open => x.state = m.state /\ x.pend = m.pend
           /\ m.state = "ESTABLISHED" => x.state \in {"FIN_WAIT_1", "ESTABLISHED"}
           /\ m.state = "CLOSE_WAIT" => x.state \in {"LAST_ACK", "CLOSE_WAIT"}
<1> DEFINE n == [m EXCEPT !.rxclosed = TRUE]
<1>1. n \in PcbType /\ n.state = m.state /\ n.queue = m.queue /\ n.sndbuf = m.sndbuf
      /\ n.arg = m.arg /\ n.pend = m.pend
  BY Zenon DEF PcbType
<1>2. x \in ShutdownFin(n)
  BY DEF CloseOpen
<1> HIDE DEF n
<1>3. QED
  BY <1>1, <1>2, ShutdownFacts DEF Open

\* What the acknowledgement of k pieces does to the counters: the sent callback
\* counts for the current call, or the write is recorded as wild.
LEMMA Acknowledge ==
    ASSUME IInv, NEW p \in active, NEW k \in 0 .. pcb[p].queue,
           SentCallback(p, k), UNCHANGED app
    PROVE  /\ acked' \in [1 .. Calls -> 0 .. MsgLen] /\ cb' \in CbType /\ wild' \in BOOLEAN
           /\ cb'.connected = cb.connected
           /\ acked'[pcb[p].arg] = acked[pcb[p].arg] + k
           /\ \A c \in 1 .. Calls : c # pcb[p].arg => acked'[c] = acked[c]
           /\ wild => wild'
           /\ pc # "idle" /\ ~wild' => cb'.sent = acked'[call]
           /\ SuccessIsAcked'
<1> DEFINE a == pcb[p].arg
<1> USE LenAssumption, TickAssumption
<1>1. /\ acked \in [1 .. Calls -> 0 .. MsgLen] /\ cb \in CbType /\ wild \in BOOLEAN
      /\ p \in Pcbs /\ pcb[p] \in PcbType /\ call \in 0 .. Calls
      /\ result \in [1 .. Calls -> {"none", "ok", "error"}]
  BY DEF IInv, TypeOK
<1>2. /\ a \in 1 .. Calls /\ acked[a] + pcb[p].queue <= MsgLen
      /\ pcb[p].queue \in Nat /\ k \in Nat
  BY <1>1 DEF IInv, Frames, PcbType
<1>3. CASE k = 0
  <2>1. UNCHANGED <<cb, acked, wild, result>>
    BY <1>3 DEF SentCallback, app
  <2>2. pc # "idle" /\ ~wild => cb.sent = acked[call]
    BY DEF IInv, Handle
  <2>3. SuccessIsAcked'
    BY <2>1 DEF IInv, SuccessIsAcked
  <2>4. UNCHANGED call
    BY DEF app
  <2>5. QED
    BY <1>1, <1>2, <1>3, <2>1, <2>2, <2>3, <2>4
<1>4. CASE k # 0
  <2> DEFINE live == pc # "idle" /\ a = call
             new == [cb EXCEPT !.sent = @ + k, !.timer = ChunkTicks]
  <2>1. /\ acked' = [acked EXCEPT ![a] = @ + k]
        /\ wild' = (wild \/ ~live)
        /\ (cb' = new /\ pc # "idle") \/ (~live /\ cb' = cb)
    BY <1>4 DEF SentCallback
  <2>2. UNCHANGED <<call, result>>
    BY DEF app
  <2>3. /\ acked' \in [1 .. Calls -> 0 .. MsgLen]
        /\ acked'[a] = acked[a] + k
        /\ \A c \in 1 .. Calls : c # a => acked'[c] = acked[c]
    <3>1. acked[a] + k \in 0 .. MsgLen
      <4>1. acked[a] \in 0 .. MsgLen
        BY <1>1, <1>2, Zenon
      <4>2. k <= pcb[p].queue /\ MsgLen \in Nat
        BY <1>2
      <4> QED BY <1>2, <4>1, <4>2
    <3>2. QED
      BY <1>1, <1>2, <2>1, <3>1
  <2>4. new \in CbType /\ new.sent = cb.sent + k /\ new.connected = cb.connected
    <3> DEFINE B == BOOLEAN
               T == 0 .. ConnTicks + ChunkTicks
    <3>1. CbType = [connected: B, sent: Nat, timer: T] /\ ChunkTicks \in T
      BY DEF CbType
    <3> HIDE DEF B, T
    <3>2. cb.sent + k \in Nat
      <4>1. cb.sent \in Nat
        BY <1>1, <3>1
      <4> QED BY <1>2, <4>1
    <3>3. QED
      BY Zenon, <1>1, <3>1, <3>2
  <2>5. cb' \in CbType /\ cb'.connected = cb.connected
    BY Zenon, <1>1, <2>1, <2>4
  <2>6. wild' \in BOOLEAN /\ (wild => wild') /\ (~wild' => ~wild /\ live)
    BY Zenon, <2>1
  <2>7. pc # "idle" /\ ~wild' => cb'.sent = acked'[call]
    <3>1. pc # "idle" /\ ~wild => cb.sent = acked[call]
      BY DEF IInv, Handle
    <3>2. live => cb' = new
      BY <2>1
    <3> HIDE DEF new
    <3>3. QED
      BY <2>3, <2>4, <2>6, <3>1, <3>2
  <2>8. SuccessIsAcked'
    <3> SUFFICES ASSUME ~wild', NEW c \in 1 .. Calls, result[c] = "ok"
                 PROVE  acked'[c] = MsgLen
      BY <2>2 DEF SuccessIsAcked
    <3>1. acked[c] = MsgLen
      BY <2>6 DEF IInv, SuccessIsAcked
    <3>2. c # a
      BY <1>1, <1>2, <1>4, <3>1
    <3>3. QED
      BY <2>3, <3>1, <3>2
  <2>9. QED
    BY <2>2, <2>3, <2>5, <2>6, <2>7, <2>8
<1>5. QED
  BY <1>3, <1>4

\* The stack changes one active pcb while k pieces are acknowledged: the pcb
\* stays, is freed, or goes to the TIME_WAIT list.
Stays(p, k, m) ==
    /\ UNCHANGED lists
    /\ m.queue = pcb[p].queue - k /\ m.sndbuf = pcb[p].sndbuf + k /\ m.arg = pcb[p].arg
    /\ m.state \notin {"CLOSED", "TIME_WAIT"}
    /\ m.state = "SYN_SENT" => pcb[p].state = "SYN_SENT"
    /\ p = ptPcb => m.state \in Held /\ (m.pend => m.state \notin Fresh)
Frees(p, m) ==
    /\ active' = active \ {p} /\ free' = free \cup {p} /\ tw' = tw
    /\ m.state = "CLOSED"
Waits(p, m) ==
    /\ active' = active \ {p} /\ tw' = tw \cup {p} /\ free' = free
    /\ m.state = "TIME_WAIT" /\ p # ptPcb

LEMMA MoveInv ==
    ASSUME IInv, NEW p \in active, NEW k \in 0 .. pcb[p].queue,
           SentCallback(p, k), UNCHANGED <<app, leaked, broken>>,
           NEW m \in PcbType, pcb' = [pcb EXCEPT ![p] = m],
           Stays(p, k, m) \/ Frees(p, m) \/ Waits(p, m)
    PROVE  IInv'
<1> USE PoolAssumption, LenAssumption, TickAssumption
<1>0. UNCHANGED app
  OBVIOUS
<1>1. UNCHANGED <<pc, call, ptPcb, cnt, res, result, leaked, broken>>
  BY DEF app
<1>2. /\ acked' \in [1 .. Calls -> 0 .. MsgLen] /\ cb' \in CbType /\ wild' \in BOOLEAN
      /\ cb'.connected = cb.connected
      /\ acked'[pcb[p].arg] = acked[pcb[p].arg] + k
      /\ \A c \in 1 .. Calls : c # pcb[p].arg => acked'[c] = acked[c]
      /\ wild => wild'
      /\ pc # "idle" /\ ~wild' => cb'.sent = acked'[call]
      /\ SuccessIsAcked'
  BY <1>0, Acknowledge
<1>3. /\ pcb \in [Pcbs -> PcbType] /\ p \in Pcbs /\ call \in 0 .. Calls
      /\ free \subseteq Pcbs /\ active \subseteq Pcbs /\ tw \subseteq Pcbs
      /\ acked \in [1 .. Calls -> 0 .. MsgLen] /\ cnt \in 0 .. MsgLen
  BY DEF IInv, TypeOK
<1>4. /\ pcb' \in [Pcbs -> PcbType] /\ pcb'[p] = m
      /\ \A q \in Pcbs : q # p => pcb'[q] = pcb[q]
  BY <1>3
<1>5. active' \subseteq active /\ free' \subseteq free \cup {p} /\ tw' \subseteq tw \cup {p}
  BY DEF Stays, Frees, Waits, lists
<1>6. p \in active' => Stays(p, k, m)
  BY DEF Frees, Waits
<1>7. /\ \A q \in Pcbs : pcb[q].queue \in Nat /\ pcb[q].sndbuf \in Nat /\ pcb[q].arg \in 0 .. Calls
      /\ k \in Nat /\ k <= pcb[p].queue /\ m.queue \in Nat
  BY <1>3 DEF PcbType
<1>8. /\ pcb[p].arg \in 1 .. Calls
      /\ \A q \in active : pcb[q].arg \in 1 .. Calls
  BY <1>3, <1>7 DEF IInv, Frames
<1>9. TypeOK'
  <2>1. /\ free' \subseteq Pcbs /\ active' \subseteq Pcbs /\ tw' \subseteq Pcbs
    BY <1>3, <1>5
  <2>2. QED
    BY <1>1, <1>2, <1>4, <2>1 DEF IInv, TypeOK
<1>10. PcbsAccounted'
  <2>1. PcbsAccounted
    BY DEF IInv
  <2>2. CASE Stays(p, k, m)
    BY <1>1, <1>3, <1>4, <2>1, <2>2 DEF Stays, lists, PcbsAccounted
  <2>3. CASE Frees(p, m)
    BY <1>1, <1>3, <1>4, <2>1, <2>3 DEF Frees, PcbsAccounted
  <2>4. CASE Waits(p, m)
    BY <1>1, <1>3, <1>4, <2>1, <2>4 DEF Waits, PcbsAccounted
  <2>5. QED
    BY <2>2, <2>3, <2>4
<1>11. Handle'
  <2>1. Handle /\ Frames
    BY DEF IInv
  <2>2. pc = "idle" => ptPcb = NoPcb
    BY <2>1 DEF Handle
  <2>3. ASSUME pc # "idle"
        PROVE  /\ ptPcb \in (free \cup active)'
               /\ ptPcb \in free' => pcb'[ptPcb].state = "CLOSED"
               /\ ptPcb \in active' =>
                    /\ pcb'[ptPcb].arg = call /\ pcb'[ptPcb].state \in Held
                    /\ pcb'[ptPcb].pend => pcb'[ptPcb].state \notin Fresh
               /\ acked'[call] <= cnt
               /\ ptPcb \in active' => acked'[call] + pcb'[ptPcb].queue = cnt
               /\ pc = "close" /\ res /\ ~wild' => acked'[call] = MsgLen
    <3>1. /\ ptPcb \in free \cup active /\ call \in 1 .. Calls
          /\ ptPcb \in free => pcb[ptPcb].state = "CLOSED"
          /\ ptPcb \in active =>
               /\ pcb[ptPcb].arg = call /\ pcb[ptPcb].state \in Held
               /\ pcb[ptPcb].pend => pcb[ptPcb].state \notin Fresh
               /\ acked[call] + pcb[ptPcb].queue = cnt
          /\ acked[call] <= cnt
          /\ pc = "close" /\ res /\ ~wild => acked[call] = MsgLen
      BY <2>1, <2>3 DEF Handle
    <3>2. pcb[p].arg = call => p = ptPcb
      BY <2>1, <2>3 DEF Frames
    <3>3. CASE p = ptPcb
      <4>1. pcb[p].arg = call /\ acked[call] + pcb[p].queue = cnt
        BY <3>1, <3>3
      <4>2. acked'[call] = acked[call] + k /\ acked'[call] <= cnt
        BY <1>2, <1>3, <1>7, <3>1, <4>1
      <4>3. p \in active' => acked'[call] + m.queue = cnt
        BY <1>3, <1>6, <1>7, <3>1, <4>1, <4>2 DEF Stays
      <4>4. pc = "close" /\ res /\ ~wild' => acked'[call] = MsgLen
        BY <1>2, <1>3, <1>7, <3>1, <4>2
      <4>5. /\ p \in (free \cup active)'
            /\ p \in free' => m.state = "CLOSED"
        <5>1. p \notin free
          BY DEF IInv, PcbsAccounted
        <5>2. QED
          BY <3>3, <5>1 DEF Stays, Frees, Waits, lists
      <4>6. p \in active' => m.arg = call /\ m.state \in Held /\ (m.pend => m.state \notin Fresh)
        BY <1>6, <3>3, <4>1 DEF Stays
      <4>7. QED
        BY <1>4, <3>3, <4>2, <4>3, <4>4, <4>5, <4>6
    <3>4. CASE p # ptPcb
      <4>1. acked'[call] = acked[call]
        BY <1>2, <3>1, <3>2, <3>4
      <4>2. ptPcb \in Pcbs /\ pcb'[ptPcb] = pcb[ptPcb]
        BY <1>3, <1>4, <3>1, <3>4
      <4>3. (ptPcb \in free' <=> ptPcb \in free) /\ (ptPcb \in active' <=> ptPcb \in active)
        BY <3>4 DEF Stays, Frees, Waits, lists
      <4>4. QED
        BY <1>2, <3>1, <4>1, <4>2, <4>3
    <3>5. QED
      BY <3>3, <3>4
  <2>4. pc # "idle" => call \in 1 .. Calls /\ result[call] = "none"
    BY <2>1 DEF Handle
  <2>5. QED
    BY <1>1, <1>2, <2>2, <2>3, <2>4 DEF Handle
<1>12. Frames'
  <2>1. Frames
    BY DEF IInv
  <2>2. ASSUME NEW q \in active'
        PROVE  /\ pcb'[q].arg = pcb[q].arg /\ q \in active
               /\ acked'[pcb[q].arg] + pcb'[q].queue <= MsgLen
               /\ pcb'[q].sndbuf + pcb'[q].queue = SndBuf
    <3>1. /\ q \in active /\ q \in Pcbs
          /\ acked[pcb[q].arg] + pcb[q].queue <= MsgLen
          /\ pcb[q].sndbuf + pcb[q].queue = SndBuf
      BY <1>3, <1>5, <2>1, <2>2 DEF Frames
    <3>2. CASE q = p
      <4>1. /\ m.queue = pcb[p].queue - k /\ m.sndbuf = pcb[p].sndbuf + k
            /\ m.arg = pcb[p].arg
        BY <1>6, <2>2, <3>2 DEF Stays
      <4>2. acked[pcb[p].arg] \in Nat /\ pcb[p].queue \in Nat /\ pcb[p].sndbuf \in Nat
        BY <1>3, <1>7, <1>8
      <4>3. acked[pcb[p].arg] + k + m.queue <= MsgLen /\ m.sndbuf + m.queue = SndBuf
        BY <1>7, <3>1, <3>2, <4>1, <4>2
      <4>4. QED
        BY <1>2, <1>4, <3>1, <3>2, <4>1, <4>3
    <3>3. CASE q # p
      <4>1. pcb[q].arg # pcb[p].arg
        BY <2>1, <3>1, <3>3 DEF Frames
      <4>2. QED
        BY <1>2, <1>4, <1>8, <3>1, <3>3, <4>1
    <3>4. QED
      BY <3>2, <3>3
  <2>3. ASSUME NEW c \in 1 .. Calls, c > call
        PROVE  acked'[c] = 0 /\ result[c] = "none"
    <3>1. acked[c] = 0 /\ result[c] = "none"
      BY <2>1, <2>3 DEF Frames
    <3>2. c # pcb[p].arg
      BY <1>3, <2>1, <2>3 DEF Frames
    <3>3. QED
      BY <1>2, <3>1, <3>2
  <2>4. \A q \in active' : pcb'[q].arg \in 1 .. call /\ (pc # "idle" /\ pcb'[q].arg = call => q = ptPcb)
    BY <2>1, <2>2 DEF Frames
  <2>5. \A q, r \in active' : pcb'[q].arg = pcb'[r].arg => q = r
    BY <2>1, <2>2 DEF Frames
  <2>6. \A q \in active' :
           acked'[pcb'[q].arg] + pcb'[q].queue <= MsgLen /\ pcb'[q].sndbuf + pcb'[q].queue = SndBuf
    BY <2>2
  <2>7. QED
    BY <1>1, <2>3, <2>4, <2>5, <2>6 DEF Frames
<1>13. Connecting'
  <2>1. ASSUME NEW q \in active', pcb'[q].state = "SYN_SENT"
        PROVE  q \in active /\ pcb[q].state = "SYN_SENT" /\ pcb'[q].arg = pcb[q].arg
    BY <1>3, <1>4, <1>5, <1>6, <2>1 DEF Stays
  <2>2. ConnectFindsFrame'
    BY <1>1, <2>1 DEF IInv, Connecting, ConnectFindsFrame
  <2>3. QED
    BY <1>2, <2>1, <2>2 DEF IInv, Connecting
<1>14. QED
  BY <1>2, <1>9, <1>10, <1>11, <1>12, <1>13 DEF IInv

\* Steps of the stack that call no sent callback.
LEMMA NoAck == ASSUME NEW p, UNCHANGED <<cb, acked, wild>> PROVE SentCallback(p, 0)
BY DEF SentCallback

\* A pcb without data that goes to another state.
LEMMA PurgedFacts ==
    ASSUME NEW m \in PcbType, NEW s \in States
    PROVE  LET x == [m EXCEPT !.state = s, !.queue = 0]
           IN  x \in PcbType /\ x.arg = m.arg /\ x.state = s
<1> DEFINE B == BOOLEAN
           N == 0 .. SndBuf
           S == States
<1>1. PcbType = [state: S, sndbuf: N, queue: N, arg: 0 .. Calls, rxclosed: B, pend: B]
  BY DEF PcbType
<1>2. 0 \in N /\ s \in S
  BY LenAssumption
<1> HIDE DEF B, N, S
<1>3. QED
  BY Zenon, <1>1, <1>2

\* A pcb that has not been used yet.
LEMMA ClosedPcbFacts ==
    ASSUME NEW c \in 0 .. Calls
    PROVE  NewPcb(c) \in PcbType /\ NewPcb(c).state = "CLOSED"
BY LenAssumption DEF NewPcb, PcbType, States

\* A freed pcb, as tcp_pcb_remove leaves it or forgotten.
LEMMA FreedFacts ==
    ASSUME NEW p, NEW m \in PcbType
    PROVE  Freed(p, m) \in PcbType /\ Freed(p, m).state = "CLOSED"
<1>1. "CLOSED" \in States
  BY DEF States
<1>2. Removed(m) \in PcbType /\ Removed(m).state = "CLOSED"
  BY Zenon, <1>1, PurgedFacts DEF Removed
<1>3. NewPcb(0) \in PcbType /\ NewPcb(0).state = "CLOSED"
  BY ClosedPcbFacts, TickAssumption
<1>4. QED
  BY <1>2, <1>3 DEF Freed

\* An active pcb is in the pool, and the states its list allows.
LEMMA ActiveFacts ==
    ASSUME IInv, NEW p \in active
    PROVE  /\ p \in Pcbs /\ pcb[p] \in PcbType /\ 0 \in 0 .. pcb[p].queue
           /\ pcb[p].state \notin {"CLOSED", "TIME_WAIT"}
           /\ pcb[p].queue \in Nat /\ pcb[p].sndbuf \in Nat
           /\ p = ptPcb => /\ pcb[p].state \in Held
                           /\ pcb[p].pend => pcb[p].state \notin Fresh
<1>1. p \in Pcbs /\ pcb[p] \in PcbType
  BY DEF IInv, TypeOK
<1>2. pcb[p].state \notin {"CLOSED", "TIME_WAIT"}
  BY DEF IInv, PcbsAccounted
<1>3. pcb[p].queue \in Nat /\ pcb[p].sndbuf \in Nat /\ 0 \in 0 .. pcb[p].queue
  BY <1>1, LenAssumption DEF PcbType
<1>4. p # NoPcb
  BY <1>1, PoolAssumption
<1>5. QED
  BY <1>1, <1>2, <1>3, <1>4 DEF IInv, Handle

LEMMA ResetInv == ASSUME NEW p PROVE IInv /\ Reset(p) => IInv'
<1> SUFFICES ASSUME IInv, Reset(p) PROVE IInv'
  OBVIOUS
<1>1. /\ p \in active /\ UNCHANGED <<app, leaked, broken>> /\ UNCHANGED <<cb, acked, wild>>
      /\ pcb' = [pcb EXCEPT ![p] = Freed(p, pcb[p])]
      /\ active' = active \ {p} /\ free' = free \cup {p} /\ tw' = tw
  BY DEF Reset, FreeActive
<1>2. pcb[p] \in PcbType /\ 0 \in 0 .. pcb[p].queue
  BY <1>1, ActiveFacts
<1> DEFINE m == Freed(p, pcb[p])
<1>3. m \in PcbType /\ m.state = "CLOSED"
  BY <1>2, FreedFacts
<1>4. SentCallback(p, 0)
  BY <1>1, NoAck
<1> HIDE DEF m
<1>5. Frees(p, m)
  BY <1>1, <1>3 DEF Frees
<1>6. pcb' = [pcb EXCEPT ![p] = m]
  BY <1>1 DEF m
<1>7. QED
  BY Zenon, <1>1, <1>2, <1>3, <1>4, <1>5, <1>6, MoveInv

LEMMA FastTmrInv == ASSUME NEW p PROVE IInv /\ FastTmr(p) => IInv'
<1> SUFFICES ASSUME IInv, FastTmr(p) PROVE IInv'
  OBVIOUS
<1>1. /\ p \in active /\ UNCHANGED <<app, leaked, broken>> /\ UNCHANGED <<cb, acked, wild>>
      /\ UNCHANGED lists /\ pcb[p].pend
  BY DEF FastTmr
<1>2. PICK m \in ShutdownFin(pcb[p]) : pcb' = [pcb EXCEPT ![p] = m]
  BY Zenon DEF FastTmr
<1>3. /\ pcb[p] \in PcbType /\ 0 \in 0 .. pcb[p].queue
      /\ pcb[p].state \notin {"CLOSED", "TIME_WAIT"}
      /\ pcb[p].queue \in Nat /\ pcb[p].sndbuf \in Nat
      /\ p = ptPcb => pcb[p].state \in Held /\ pcb[p].state \notin Fresh
  BY <1>1, ActiveFacts
<1>4. /\ m \in PcbType
      /\ m.queue = pcb[p].queue /\ m.sndbuf = pcb[p].sndbuf /\ m.arg = pcb[p].arg
      /\ pcb[p].state \notin Open => m = pcb[p]
      /\ pcb[p].state = "ESTABLISHED" => m.state \in {"FIN_WAIT_1", "ESTABLISHED"}
      /\ pcb[p].state = "CLOSE_WAIT" => m.state \in {"LAST_ACK", "CLOSE_WAIT"}
  BY <1>2, <1>3, ShutdownFacts
<1>5. SentCallback(p, 0)
  BY <1>1, NoAck
<1>6. Stays(p, 0, m)
  <2>1. m.queue = pcb[p].queue - 0 /\ m.sndbuf = pcb[p].sndbuf + 0
    BY <1>3, <1>4
  <2>2. QED
    BY <1>1, <1>3, <1>4, <2>1 DEF Stays, Held, Fresh, Open
<1>7. QED
  BY Zenon, <1>1, <1>2, <1>3, <1>4, <1>5, <1>6, MoveInv

LEMMA SegmentInv ==
    ASSUME NEW p, NEW k, NEW finack \in BOOLEAN, NEW fin \in BOOLEAN
    PROVE  IInv /\ Segment(p, k, finack, fin) => IInv'
<1> SUFFICES ASSUME IInv, Segment(p, k, finack, fin) PROVE IInv'
  OBVIOUS
<1> DEFINE m == [pcb[p] EXCEPT !.sndbuf = @ + k, !.queue = @ - k]
<1>1. /\ p \in active /\ k \in 0 .. pcb[p].queue /\ SentCallback(p, k)
      /\ UNCHANGED <<app, leaked, broken>>
      /\ pcb[p].state \in Open \cup Linger
  BY DEF Segment
<1>2. /\ pcb[p] \in PcbType /\ pcb[p].queue \in Nat /\ pcb[p].sndbuf \in Nat
      /\ p = ptPcb => pcb[p].state \in Held
      /\ p = ptPcb => (pcb[p].pend => pcb[p].state \notin Fresh)
  BY <1>1, ActiveFacts
<1>3. /\ m \in PcbType /\ m.arg = pcb[p].arg /\ m.state = pcb[p].state /\ m.pend = pcb[p].pend
      /\ m.queue = pcb[p].queue - k /\ m.sndbuf = pcb[p].sndbuf + k
  <2>1. pcb[p].sndbuf + pcb[p].queue = SndBuf
    BY <1>1 DEF IInv, Frames
  <2>2. pcb[p].sndbuf + k \in 0 .. SndBuf /\ pcb[p].queue - k \in 0 .. SndBuf
    BY <1>1, <1>2, <2>1, LenAssumption
  <2> DEFINE B == BOOLEAN
             N == 0 .. SndBuf
  <2>3. PcbType = [state: States, sndbuf: N, queue: N, arg: 0 .. Calls, rxclosed: B, pend: B]
    BY DEF PcbType
  <2>4. pcb[p].sndbuf + k \in N /\ pcb[p].queue - k \in N
    BY <2>2
  <2> HIDE DEF B, N
  <2>5. QED
    BY Zenon, <1>2, <2>3, <2>4
<1> HIDE DEF m
<1>4. ASSUME NEW x \in PcbType, pcb' = [pcb EXCEPT ![p] = x], UNCHANGED lists,
             x.arg = m.arg, x.queue = m.queue, x.sndbuf = m.sndbuf,
             x.state \notin {"CLOSED", "TIME_WAIT", "SYN_SENT"},
             p = ptPcb => x.state \in Held /\ (x.pend => x.state \notin Fresh)
      PROVE  IInv'
  <2>1. Stays(p, k, x)
    BY <1>3, <1>4 DEF Stays
  <2>2. x.arg = pcb[p].arg
    BY <1>3, <1>4
  <2>3. QED
    BY Zenon, <1>1, <1>4, <2>1, <2>2, MoveInv
<1>5. ASSUME FreeActive(p, m) PROVE IInv'
  <2> DEFINE x == Freed(p, m)
  <2>1. x \in PcbType /\ x.state = "CLOSED"
    BY <1>3, FreedFacts
  <2>2. pcb' = [pcb EXCEPT ![p] = x]
    BY <1>5 DEF FreeActive
  <2> HIDE DEF x
  <2>3. Frees(p, x)
    BY <1>5, <2>1 DEF FreeActive, Frees
  <2>4. QED
    BY Zenon, <1>1, <2>1, <2>2, <2>3, MoveInv
<1>6. ASSUME ToTimeWait(p, m), pcb[p].state \notin Held PROVE IInv'
  <2> DEFINE x == [m EXCEPT !.state = "TIME_WAIT", !.queue = 0]
  <2>1. x \in PcbType /\ x.arg = pcb[p].arg /\ x.state = "TIME_WAIT"
    <3>1. "TIME_WAIT" \in States
      BY DEF States
    <3>2. QED
      BY Zenon, <1>3, <3>1, PurgedFacts
  <2>2. pcb' = [pcb EXCEPT ![p] = x]
    BY <1>6 DEF ToTimeWait
  <2> HIDE DEF x
  <2>3. Waits(p, x)
    BY <1>2, <1>6, <2>1 DEF ToTimeWait, Waits
  <2>4. QED
    BY Zenon, <1>1, <2>1, <2>2, <2>3, MoveInv
<1>7. CASE m.state = "ESTABLISHED" /\ fin
  <2> DEFINE n == [m EXCEPT !.state = "CLOSE_WAIT"]
  <2>1. PICK x \in CloseOpen(n) : pcb' = [pcb EXCEPT ![p] = x] /\ UNCHANGED lists
    BY <1>7 DEF Segment, m
  <2>2. /\ n \in PcbType /\ n.state = "CLOSE_WAIT"
        /\ n.arg = m.arg /\ n.queue = m.queue /\ n.sndbuf = m.sndbuf
    BY <1>3 DEF PcbType, States, Open
  <2> HIDE DEF n
  <2>3. /\ x \in PcbType /\ x.state \in {"LAST_ACK", "CLOSE_WAIT"}
        /\ x.arg = m.arg /\ x.queue = m.queue /\ x.sndbuf = m.sndbuf
    BY <2>1, <2>2, CloseFacts
  <2>4. QED
    BY Zenon, <1>4, <2>1, <2>3 DEF Held, Fresh
<1>8. CASE m.state = "FIN_WAIT_1" /\ fin /\ ~finack
  <2> DEFINE x == [m EXCEPT !.state = "CLOSING"]
  <2>1. pcb' = [pcb EXCEPT ![p] = x] /\ UNCHANGED lists
    BY <1>8 DEF Segment, m
  <2>2. /\ x \in PcbType /\ x.state = "CLOSING"
        /\ x.arg = m.arg /\ x.queue = m.queue /\ x.sndbuf = m.sndbuf
    BY <1>3 DEF PcbType, States, Linger
  <2> HIDE DEF x
  <2>3. p # ptPcb
    BY <1>2, <1>3, <1>8 DEF Held
  <2>4. QED
    BY Zenon, <1>4, <2>1, <2>2, <2>3
<1>9. CASE m.state = "FIN_WAIT_1" /\ ~fin /\ finack
  <2> DEFINE x == [m EXCEPT !.state = "FIN_WAIT_2"]
  <2>1. pcb' = [pcb EXCEPT ![p] = x] /\ UNCHANGED lists
    BY <1>9 DEF Segment, m
  <2>2. /\ x \in PcbType /\ x.state = "FIN_WAIT_2"
        /\ x.arg = m.arg /\ x.queue = m.queue /\ x.sndbuf = m.sndbuf
    BY <1>3 DEF PcbType, States, Linger
  <2> HIDE DEF x
  <2>3. p # ptPcb
    BY <1>2, <1>3, <1>9 DEF Held
  <2>4. QED
    BY Zenon, <1>4, <2>1, <2>2, <2>3
<1> DEFINE Over == \/ m.state = "FIN_WAIT_1" /\ fin /\ finack
                   \/ m.state = "FIN_WAIT_2" /\ fin
                   \/ m.state = "CLOSING" /\ finack
<1>10. CASE Over
  <2>1. ToTimeWait(p, m)
    BY <1>10 DEF Segment, m
  <2>2. pcb[p].state \notin Held
    BY <1>3, <1>10 DEF Held
  <2>3. QED
    BY <1>6, <2>1, <2>2
<1>11. CASE m.state = "LAST_ACK" /\ finack
  <2>1. FreeActive(p, m)
    BY <1>11 DEF Segment, m
  <2>2. QED
    BY <1>5, <2>1
<1>12. CASE /\ ~(m.state = "ESTABLISHED" /\ fin) /\ ~(m.state = "FIN_WAIT_1" /\ fin /\ ~finack)
            /\ ~(m.state = "FIN_WAIT_1" /\ ~fin /\ finack) /\ ~Over
            /\ ~(m.state = "LAST_ACK" /\ finack)
  <2>1. pcb' = [pcb EXCEPT ![p] = m] /\ UNCHANGED lists
    BY <1>12 DEF Segment, m
  <2>2. QED
    BY Zenon, <1>1, <1>2, <1>3, <1>4, <2>1 DEF Open, Linger
<1>13. QED
  BY <1>7, <1>8, <1>9, <1>10, <1>11, <1>12

LEMMA SynAckInv == ASSUME NEW p PROVE IInv /\ SynAck(p) => IInv'
<1> SUFFICES ASSUME IInv, SynAck(p) PROVE IInv'
  OBVIOUS
<1> DEFINE m == [pcb[p] EXCEPT !.state = "ESTABLISHED"]
<1>1. /\ p \in active /\ pcb[p].state = "SYN_SENT"
      /\ pcb' = [pcb EXCEPT ![p] = m] /\ cb' = [cb EXCEPT !.connected = TRUE]
      /\ UNCHANGED <<pc, call, ptPcb, cnt, res, result, free, active, tw, leaked, acked, wild, broken>>
  BY DEF SynAck, app, lists
<1>2. p \in Pcbs /\ pcb[p] \in PcbType
  BY <1>1, ActiveFacts
<1>3. /\ m \in PcbType /\ m.state = "ESTABLISHED" /\ m.queue = pcb[p].queue
      /\ m.sndbuf = pcb[p].sndbuf /\ m.arg = pcb[p].arg /\ m.pend = pcb[p].pend
  BY <1>2 DEF PcbType, States, Open
<1> HIDE DEF m
<1>4. pcb \in [Pcbs -> PcbType] /\ cb \in CbType
  BY DEF IInv, TypeOK
<1>5. /\ pcb' \in [Pcbs -> PcbType] /\ pcb'[p] = m
      /\ \A q \in Pcbs : q # p => pcb'[q] = pcb[q]
  BY <1>1, <1>2, <1>3, <1>4
<1>6. cb' \in CbType /\ cb'.sent = cb.sent
  BY Zenon, <1>1, <1>4 DEF CbType
<1>7. active \subseteq Pcbs
  BY DEF IInv, TypeOK
<1>8. p = ptPcb /\ \A q \in active : pcb[q].state = "SYN_SENT" => q = p
  BY <1>1 DEF IInv, Connecting, ConnectFindsFrame
<1>9. TypeOK'
  BY <1>1, <1>5, <1>6 DEF IInv, TypeOK
<1>10. PcbsAccounted'
  <2>1. p \notin tw /\ tw \subseteq Pcbs
    BY <1>1 DEF IInv, PcbsAccounted, TypeOK
  <2>2. QED
    BY <1>1, <1>3, <1>5, <1>7, <2>1 DEF IInv, PcbsAccounted
<1>11. ~pcb[p].pend
  BY <1>1, <1>8, ActiveFacts DEF Fresh
<1>12. Handle'
  BY <1>1, <1>3, <1>5, <1>6, <1>8, <1>11 DEF IInv, Handle, Held
<1>13. Frames'
  BY <1>1, <1>3, <1>5, <1>7 DEF IInv, Frames
<1>14. Connecting'
  BY <1>1, <1>3, <1>5, <1>7, <1>8 DEF Connecting, ConnectFindsFrame
<1>15. SuccessIsAcked'
  BY <1>1 DEF IInv, SuccessIsAcked
<1>16. QED
  BY <1>9, <1>10, <1>12, <1>13, <1>14, <1>15 DEF IInv

LEMMA SlowTmrInv == ASSUME NEW p \in Pcbs PROVE IInv /\ SlowTmr(p) => IInv'
<1> SUFFICES ASSUME IInv, SlowTmr(p) PROVE IInv'
  OBVIOUS
<1> DEFINE m == NewPcb(0)
<1>1. /\ p \in active \cup tw /\ p # ptPcb /\ pcb' = [pcb EXCEPT ![p] = m]
      /\ active' = active \ {p} /\ tw' = tw \ {p} /\ free' = free \cup {p}
      /\ UNCHANGED <<pc, call, ptPcb, cnt, res, result, cb, leaked, acked, wild, broken>>
  BY DEF SlowTmr, TimeFixed, Waiting, Sending, app
<1>2. /\ pcb \in [Pcbs -> PcbType] /\ free \subseteq Pcbs /\ active \subseteq Pcbs /\ tw \subseteq Pcbs
  BY DEF IInv, TypeOK
<1>3. m \in PcbType
  BY ClosedPcbFacts, TickAssumption
<1> HIDE DEF m
<1>4. /\ pcb' \in [Pcbs -> PcbType]
      /\ \A q \in Pcbs : q # p => pcb'[q] = pcb[q]
  BY <1>1, <1>2, <1>3
<1>5. TypeOK'
  BY <1>1, <1>2, <1>4 DEF IInv, TypeOK
<1>6. PcbsAccounted'
  BY <1>1, <1>2, <1>4 DEF IInv, PcbsAccounted
<1>7. Handle'
  BY <1>1, <1>2, <1>4 DEF IInv, Handle
<1>8. Frames'
  BY <1>1, <1>2, <1>4 DEF IInv, Frames
<1>9. Connecting' /\ SuccessIsAcked'
  BY <1>1, <1>2, <1>4 DEF IInv, Connecting, ConnectFindsFrame, SuccessIsAcked
<1>10. QED
  BY <1>5, <1>6, <1>7, <1>8, <1>9 DEF IInv

LEMMA TickInv == IInv /\ Tick => IInv'
<1> SUFFICES ASSUME IInv, Tick PROVE IInv'
  OBVIOUS
<1>1. /\ cb' = [cb EXCEPT !.timer = @ - 1] /\ cb.timer > 0
      /\ UNCHANGED <<pc, call, ptPcb, cnt, res, result, pcb, free, active, tw, leaked, acked, wild, broken>>
  BY DEF Tick, app, lists
<1>2. cb \in CbType
  BY DEF IInv, TypeOK
<1>3. cb' \in CbType /\ cb'.connected = cb.connected /\ cb'.sent = cb.sent
  BY <1>1, <1>2, TickAssumption DEF CbType
<1>4. TypeOK' /\ PcbsAccounted' /\ Frames'
  BY <1>1, <1>3 DEF IInv, TypeOK, PcbsAccounted, Frames
<1>5. Handle' /\ Connecting' /\ SuccessIsAcked'
  BY <1>1, <1>3 DEF IInv, Handle, Connecting, ConnectFindsFrame, SuccessIsAcked
<1>6. QED
  BY <1>4, <1>5 DEF IInv
-----------------------------------------------------------------------------
(* sendMessage.                                                             *)

LEMMA ConnectDoneInv == IInv /\ ConnectDone => IInv'
<1> SUFFICES ASSUME IInv, ConnectDone PROVE IInv'
  OBVIOUS
<1>1. /\ pc = "connect"
      /\ UNCHANGED <<call, ptPcb, cnt, result, pcb, free, active, tw, leaked, acked, wild, broken>>
      /\ \/ cb.connected /\ pc' = "write" /\ cb' = [cb EXCEPT !.timer = ChunkTicks] /\ res' = res
         \/ pc' = "close" /\ cb' = cb /\ res' = FALSE
  BY DEF ConnectDone, InCall, lists
<1>2. cb \in CbType /\ res \in BOOLEAN
  BY DEF IInv, TypeOK
<1>3. cb' \in CbType /\ cb'.connected = cb.connected /\ cb'.sent = cb.sent
  BY <1>1, <1>2, TickAssumption DEF CbType
<1>4. res' \in BOOLEAN
  BY Zenon, <1>1, <1>2
<1>5. TypeOK'
  BY <1>1, <1>3, <1>4 DEF IInv, TypeOK
<1>6. PcbsAccounted' /\ Frames' /\ SuccessIsAcked'
  BY <1>1 DEF IInv, PcbsAccounted, Frames, SuccessIsAcked
<1>7. Handle'
  BY <1>1, <1>3 DEF IInv, Handle
<1>8. Connecting'
  BY <1>1, <1>3 DEF IInv, Connecting, ConnectFindsFrame
<1>9. QED
  BY <1>5, <1>6, <1>7, <1>8 DEF IInv

\* No connection is being opened once sendMessage writes.
LEMMA NoneOpening ==
    ASSUME IInv, pc \in {"write", "push"}
    PROVE  \A p \in active : pcb[p].state # "SYN_SENT"
BY DEF IInv, Connecting, ConnectFindsFrame

LEMMA OutputInv == IInv /\ (Output \/ Push) => IInv'
<1> SUFFICES ASSUME IInv, Output \/ Push PROVE IInv'
  OBVIOUS
<1>1. /\ pc \in {"write", "push"} /\ pc' \in {"push", "close"}
      /\ res' \in {res, FALSE}
      /\ pc' = "close" /\ res' # FALSE => cb.sent >= MsgLen
      /\ UNCHANGED <<call, ptPcb, cnt, cb, result, pcb, free, active, tw, leaked, acked, wild, broken>>
  <2>1. CASE Output
    BY Zenon, <2>1 DEF Output, InCall, lists
  <2>2. CASE Push
    BY Zenon, <2>2 DEF Push, AllSent, InCall, lists
  <2>3. QED
    BY Zenon, <2>1, <2>2
<1>2. res' \in BOOLEAN
  BY Zenon, <1>1 DEF IInv, TypeOK
<1>3. TypeOK'
  BY <1>1, <1>2 DEF IInv, TypeOK
<1>4. PcbsAccounted' /\ Frames' /\ SuccessIsAcked'
  BY <1>1 DEF IInv, PcbsAccounted, Frames, SuccessIsAcked
<1>5. Handle'
  <2>1. acked[call] <= cnt /\ (~wild => cb.sent = acked[call])
    BY <1>1 DEF IInv, Handle
  <2>2. cnt \in 0 .. MsgLen /\ call \in 1 .. Calls /\ acked[call] \in 0 .. MsgLen
    BY <1>1 DEF IInv, Handle, TypeOK
  <2>3. pc' = "close" /\ res' /\ ~wild => acked[call] = MsgLen
    BY <1>1, <2>1, <2>2, LenAssumption
  <2>4. QED
    BY <1>1, <2>3 DEF IInv, Handle
<1>6. Connecting'
  BY <1>1, NoneOpening DEF Connecting, ConnectFindsFrame
<1>7. QED
  BY <1>3, <1>4, <1>5, <1>6 DEF IInv

LEMMA WriteInv == IInv /\ Write => IInv'
<1> SUFFICES ASSUME IInv, Write PROVE IInv'
  OBVIOUS
<1> USE LenAssumption
<1> DEFINE m == pcb[ptPcb]
           n == Chunk(m.sndbuf, MsgLen - cnt)
           x == [m EXCEPT !.sndbuf = @ - n, !.queue = @ + n]
<1>1. /\ pc = "write" /\ cnt < MsgLen /\ pc' \in {"write", "close"} /\ res' \in {res, FALSE}
      /\ pc' = "close" => res' = FALSE
      /\ UNCHANGED <<call, ptPcb, cb, result, free, active, tw, leaked, acked, wild, broken>>
  BY Zenon DEF Write, InCall, lists
<1>2. /\ ptPcb \in free \cup active /\ ptPcb \in Pcbs /\ m \in PcbType
      /\ ptPcb \in free => m.state = "CLOSED"
      /\ ptPcb \in active => acked[call] + m.queue = cnt /\ m.sndbuf + m.queue = SndBuf
      /\ call \in 1 .. Calls /\ cnt \in 0 .. MsgLen /\ pcb \in [Pcbs -> PcbType]
      /\ acked[call] <= cnt /\ acked[call] \in Nat
  BY <1>1 DEF IInv, Handle, Frames, TypeOK
<1>3. m.queue \in 0 .. SndBuf /\ m.sndbuf \in 0 .. SndBuf
  BY <1>2 DEF PcbType
<1>4. n \in 0 .. m.sndbuf /\ n <= MsgLen - cnt /\ n \in Nat
  BY <1>1, <1>2, <1>3 DEF Chunk
<1>5. res' \in BOOLEAN
  BY Zenon, <1>1 DEF IInv, TypeOK
<1>6. CASE UNCHANGED <<cnt, pcb>>
  <2>1. TypeOK'
    BY <1>1, <1>5, <1>6 DEF IInv, TypeOK
  <2>2. PcbsAccounted' /\ Frames' /\ SuccessIsAcked'
    BY <1>1, <1>6 DEF IInv, PcbsAccounted, Frames, SuccessIsAcked
  <2>3. Handle'
    BY <1>1, <1>6 DEF IInv, Handle
  <2>4. Connecting'
    BY <1>1, <1>6, NoneOpening DEF Connecting, ConnectFindsFrame
  <2>5. QED
    BY <2>1, <2>2, <2>3, <2>4 DEF IInv
<1>7. CASE ~UNCHANGED <<cnt, pcb>>
  <2>1. /\ n > 0 => m.state \in Open
        /\ cnt' = cnt + n
        /\ pcb' = [pcb EXCEPT ![ptPcb].sndbuf = @ - n, ![ptPcb].queue = @ + n]
    BY <1>7 DEF Write
  <2>2. pcb' = [pcb EXCEPT ![ptPcb] = x]
    BY Zenon, <1>2, <2>1
  <2>3. ptPcb \in free => n = 0
    BY <1>2, <1>4, <2>1 DEF Open
  <2>4. m.queue + n \in 0 .. SndBuf /\ m.sndbuf - n \in 0 .. SndBuf
    BY <1>2, <1>3, <1>4, <2>3
  <2>5. /\ x \in PcbType /\ x.state = m.state /\ x.arg = m.arg /\ x.pend = m.pend
        /\ x.queue = m.queue + n /\ x.sndbuf = m.sndbuf - n
    <3> DEFINE B == BOOLEAN
               N == 0 .. SndBuf
    <3>1. PcbType = [state: States, sndbuf: N, queue: N, arg: 0 .. Calls, rxclosed: B, pend: B]
      BY DEF PcbType
    <3>2. m.sndbuf - n \in N /\ m.queue + n \in N
      BY <2>4
    <3> HIDE DEF B, N, n, m
    <3>3. QED
      BY Zenon, <1>2, <3>1, <3>2
  <2>6. cnt' \in 0 .. MsgLen
    BY <1>2, <1>4, <2>1
  <2> HIDE DEF x, n
  <2>7. pcb' \in [Pcbs -> PcbType] /\ pcb'[ptPcb] = x /\ \A q \in Pcbs : q # ptPcb => pcb'[q] = pcb[q]
    BY <1>2, <2>2, <2>5
  <2>8. TypeOK'
    BY <1>1, <1>5, <2>6, <2>7 DEF IInv, TypeOK
  <2>9. active \subseteq Pcbs /\ tw \subseteq Pcbs
    BY DEF IInv, TypeOK
  <2>10. PcbsAccounted'
    BY <1>1, <2>5, <2>7, <2>9 DEF IInv, PcbsAccounted
  <2>11. ptPcb \in active => acked[call] + x.queue = cnt' /\ x.sndbuf + x.queue = SndBuf
    BY <1>2, <1>3, <1>4, <2>1, <2>5
  <2>12. Handle'
    <3>1. acked[call] <= cnt'
      BY <1>2, <1>4, <2>1
    <3>2. QED
      BY <1>1, <2>5, <2>7, <2>11, <3>1 DEF IInv, Handle
  <2>13. Frames'
    <3>1. ptPcb \in active => m.arg = call /\ acked[call] + x.queue <= MsgLen
      BY <1>1, <1>2, <2>6, <2>11 DEF IInv, Handle
    <3>2. QED
      BY <1>1, <2>5, <2>7, <2>9, <2>11, <3>1 DEF IInv, Frames
  <2>14. Connecting'
    BY <1>1, <2>5, <2>7, <2>9, NoneOpening DEF Connecting, ConnectFindsFrame
  <2>15. SuccessIsAcked'
    BY <1>1 DEF IInv, SuccessIsAcked
  <2>16. QED
    BY <2>8, <2>10, <2>12, <2>13, <2>14, <2>15 DEF IInv
<1>8. QED
  BY <1>6, <1>7

LEMMA CloseInv == IInv /\ Close => IInv'
<1> SUFFICES ASSUME IInv, Close PROVE IInv'
  OBVIOUS
<1> DEFINE p == ptPcb
<1>1. /\ pc = "close" /\ TcpClose(p) /\ pc' = "idle" /\ ptPcb' = NoPcb
      /\ result' = [result EXCEPT ![call] = IF res THEN "ok" ELSE "error"]
      /\ cb' = NewCb /\ cnt' = 0 /\ res' = TRUE
      /\ UNCHANGED <<call, leaked, acked, wild>>
  BY DEF Close
<1>2. /\ call \in 1 .. Calls /\ (res /\ ~wild => acked[call] = MsgLen)
      /\ p \in Pcbs
      /\ p \in active => pcb[p].state \in Held
  BY <1>1 DEF IInv, Handle, TypeOK
<1>3. /\ pcb \in [Pcbs -> PcbType] /\ free \subseteq Pcbs /\ active \subseteq Pcbs /\ tw \subseteq Pcbs
      /\ result \in [1 .. Calls -> {"none", "ok", "error"}] /\ PcbsAccounted
      /\ p \in active => p \notin tw /\ p \notin free
  BY DEF IInv, TypeOK, PcbsAccounted
<1>4. \A q \in active : pcb[q].state = "SYN_SENT" => q = p
  BY DEF IInv, Connecting, ConnectFindsFrame
<1>5. SuccessIsAcked'
  BY <1>1, <1>2, <1>3 DEF IInv, SuccessIsAcked
\* The pcbs afterwards.
<1>6. /\ pcb' \in [Pcbs -> PcbType] /\ active' \subseteq active /\ free' \subseteq Pcbs /\ tw' = tw
      /\ \A q \in active' :
            /\ pcb'[q].queue = pcb[q].queue /\ pcb'[q].sndbuf = pcb[q].sndbuf
            /\ pcb'[q].arg = pcb[q].arg /\ pcb'[q].state # "SYN_SENT"
      /\ PcbsAccounted' /\ broken' \in BOOLEAN
  <2>1. CASE p \in free /\ broken' = TRUE /\ UNCHANGED <<pcb, lists>>
    <3>1. p \notin active
      BY <1>3, <2>1
    <3>2. PcbsAccounted'
      BY <1>1, <1>3, <2>1 DEF PcbsAccounted, lists
    <3>3. QED
      BY <1>3, <1>4, <2>1, <3>1, <3>2 DEF lists
  <2>2. CASE p \in active /\ FreeActive(p, pcb[p]) /\ UNCHANGED broken
    <3>1. Freed(p, pcb[p]) \in PcbType
      BY <1>2, <1>3, FreedFacts
    <3>2. /\ pcb' \in [Pcbs -> PcbType] /\ \A q \in Pcbs : q # p => pcb'[q] = pcb[q]
          /\ active' = active \ {p} /\ free' = free \cup {p} /\ tw' = tw
      BY <1>2, <1>3, <2>2, <3>1 DEF FreeActive
    <3>3. PcbsAccounted'
      BY <1>1, <1>2, <1>3, <2>2, <3>2 DEF PcbsAccounted
    <3>4. broken' \in BOOLEAN
      BY <2>2 DEF IInv, TypeOK
    <3>5. QED
      BY <1>2, <1>3, <1>4, <3>2, <3>3, <3>4
  <2>3. CASE /\ p \in active /\ pcb[p].state # "SYN_SENT" /\ UNCHANGED <<lists, broken>>
             /\ \E x \in CloseOpen(pcb[p]) : pcb' = [pcb EXCEPT ![p] = x]
    <3>1. PICK x \in CloseOpen(pcb[p]) : pcb' = [pcb EXCEPT ![p] = x]
      BY Zenon, <2>3
    <3>2. /\ x \in PcbType /\ x.queue = pcb[p].queue /\ x.sndbuf = pcb[p].sndbuf /\ x.arg = pcb[p].arg
          /\ x.state \notin {"SYN_SENT", "CLOSED", "TIME_WAIT"}
      BY <1>2, <1>3, <2>3, <3>1, CloseFacts DEF Held, Open
    <3>3. /\ pcb' \in [Pcbs -> PcbType] /\ pcb'[p] = x /\ \A q \in Pcbs : q # p => pcb'[q] = pcb[q]
          /\ active' = active /\ free' = free /\ tw' = tw
      BY <1>2, <1>3, <2>3, <3>1, <3>2 DEF lists
    <3>4. PcbsAccounted'
      BY <1>1, <1>2, <1>3, <2>3, <3>2, <3>3 DEF PcbsAccounted
    <3>5. broken' \in BOOLEAN
      BY <2>3 DEF IInv, TypeOK
    <3>6. QED
      BY <1>2, <1>3, <1>4, <3>2, <3>3, <3>4, <3>5
  <2>4. QED
    BY Zenon, <1>1, <2>1, <2>2, <2>3 DEF TcpClose
<1>7. TypeOK'
  <2>1. result' \in [1 .. Calls -> {"none", "ok", "error"}]
    BY <1>1, <1>2, <1>3
  <2>2. active' \subseteq Pcbs /\ tw' \subseteq Pcbs
    BY <1>3, <1>6
  <2>3. NewCb \in CbType /\ 0 \in 0 .. MsgLen
    BY LenAssumption, TickAssumption DEF NewCb, CbType
  <2>4. QED
    BY <1>1, <1>6, <2>1, <2>2, <2>3 DEF IInv, TypeOK
<1>8. Handle'
  BY <1>1 DEF Handle
<1>9. Frames'
  <2>1. \A c \in 1 .. Calls : c > call => result'[c] = result[c]
    BY <1>1, <1>2, <1>3
  <2>2. QED
    BY <1>1, <1>6, <2>1 DEF IInv, Frames
<1>10. Connecting'
  BY <1>6 DEF Connecting, ConnectFindsFrame
<1>11. QED
  BY <1>5, <1>6, <1>7, <1>8, <1>9, <1>10 DEF IInv

\* What tcp_new leaves: at most the pcb it returns leaves its list, and a FIN
\* that had been pending may have been sent on others.
LEMMA TcpNewFacts ==
    ASSUME IInv, pc = "idle", NEW a \in TcpNew
    PROVE  /\ a.mem \in [Pcbs -> PcbType]
           /\ a.new # NoPcb => a.new \in free \cup active \cup tw
           /\ a.free = free \ {a.new} /\ a.active = active \ {a.new} /\ a.tw = tw \ {a.new}
           /\ \A p \in Pcbs : /\ a.mem[p].queue = pcb[p].queue
                              /\ a.mem[p].sndbuf = pcb[p].sndbuf
                              /\ a.mem[p].arg = pcb[p].arg
           /\ \A p \in active : a.mem[p].state \notin {"CLOSED", "TIME_WAIT", "SYN_SENT"}
           /\ \A p \in tw : a.mem[p].state = "TIME_WAIT"
           /\ a.new = NoPcb =>
                /\ free = {} /\ tw = {}
                /\ \A p \in active : pcb[p].state \notin {"LAST_ACK", "CLOSING"}
<1>1. /\ pcb \in [Pcbs -> PcbType] /\ free \subseteq Pcbs /\ active \subseteq Pcbs /\ tw \subseteq Pcbs
      /\ NoPcb \notin Pcbs
  BY PoolAssumption DEF IInv, TypeOK
<1>2. /\ free \cap (active \cup tw) = {} /\ active \cap tw = {}
      /\ \A p \in active : pcb[p].state \notin {"CLOSED", "TIME_WAIT"}
      /\ \A p \in tw : pcb[p].state = "TIME_WAIT"
  BY DEF IInv, PcbsAccounted
<1>3. \A p \in active : pcb[p].state # "SYN_SENT"
  BY Zenon DEF IInv, Connecting, ConnectFindsFrame
<1>4. CASE free # {}
  <2>1. PICK p \in free : a = [new |-> p, mem |-> pcb, tw |-> tw, active |-> active, free |-> free \ {p}]
    BY <1>4 DEF TcpNew
  <2>2. a.new = p /\ a.mem = pcb /\ a.tw = tw /\ a.active = active /\ a.free = free \ {p}
    BY <2>1
  <2>3. p \notin active /\ p \notin tw /\ p # NoPcb
    BY <1>1, <1>2
  <2>4. QED
    BY <1>1, <1>2, <1>3, <2>2, <2>3
<1>5. CASE free = {}
  <2>1. PICK s \in ClosePend :
           a \in IF Victims(s) = {}
                   THEN {[new |-> NoPcb, mem |-> s, tw |-> tw, active |-> active, free |-> free]}
                   ELSE {[new |-> p, mem |-> s, tw |-> tw \ {p}, active |-> active \ {p}, free |-> free] :
                            p \in Victims(s)}
    BY Zenon, <1>5 DEF TcpNew
  <2>2. /\ DOMAIN s = Pcbs /\ s = [p \in Pcbs |-> s[p]]
        /\ \A p \in Pcbs : s[p] \in IF p \in active /\ pcb[p].pend THEN ShutdownFin(pcb[p]) ELSE {pcb[p]}
    BY DEF ClosePend
  <2>3. \A p \in Pcbs :
           /\ s[p] \in PcbType
           /\ s[p].queue = pcb[p].queue /\ s[p].sndbuf = pcb[p].sndbuf /\ s[p].arg = pcb[p].arg
           /\ p \notin active => s[p] = pcb[p]
           /\ pcb[p].state \notin Open => s[p].state = pcb[p].state
           /\ pcb[p].state \in Open => s[p].state \in {"FIN_WAIT_1", "ESTABLISHED", "LAST_ACK", "CLOSE_WAIT"}
    <3> TAKE p \in Pcbs
    <3>1. pcb[p] \in PcbType
      BY Zenon, <1>1
    <3>2. CASE p \in active /\ pcb[p].pend
      <4>1. s[p] \in ShutdownFin(pcb[p])
        BY <2>2, <3>2
      <4>2. QED
        BY <3>1, <3>2, <4>1, ShutdownFacts DEF Open
    <3>3. CASE ~(p \in active /\ pcb[p].pend)
      <4>1. s[p] = pcb[p]
        BY <2>2, <3>3
      <4>2. QED
        BY <3>1, <4>1 DEF Open
    <3>4. QED
      BY <3>2, <3>3
  <2>4. s \in [Pcbs -> PcbType]
    BY <2>2, <2>3
  <2>5. \A p \in active : s[p].state \notin {"CLOSED", "TIME_WAIT", "SYN_SENT"}
    BY Zenon, <1>1, <1>2, <1>3, <2>3
  <2>6. \A p \in tw : s[p].state = "TIME_WAIT"
    BY Zenon, <1>1, <1>2, <2>3
  <2>7. Victims(s) \subseteq active \cup tw
    BY DEF Victims
  <2>8. CASE Victims(s) = {}
    <3>0. a = [new |-> NoPcb, mem |-> s, tw |-> tw, active |-> active, free |-> free]
      BY <2>1, <2>8, Zenon
    <3>1. a.new = NoPcb /\ a.mem = s /\ a.tw = tw /\ a.active = active /\ a.free = free
      BY <3>0
    <3>2. tw = {} /\ \A p \in active : s[p].state \notin {"LAST_ACK", "CLOSING"}
      BY <2>8 DEF Victims
    <3>3. \A p \in active : pcb[p].state \notin {"LAST_ACK", "CLOSING"}
      BY Zenon, <1>1, <2>3, <3>2 DEF Open
    <3>4. QED
      BY <1>1, <1>5, <2>3, <2>4, <2>5, <2>6, <3>1, <3>2, <3>3
  <2>9. CASE Victims(s) # {}
    <3>1. PICK p \in Victims(s) :
             a = [new |-> p, mem |-> s, tw |-> tw \ {p}, active |-> active \ {p}, free |-> free]
      BY Zenon, <2>1, <2>9
    <3>2. a.new = p /\ a.mem = s /\ a.tw = tw \ {p} /\ a.active = active \ {p} /\ a.free = free
      BY <3>1
    <3>3. p \in active \cup tw /\ p # NoPcb
      BY <1>1, <2>7
    <3>4. QED
      BY <1>5, <2>3, <2>4, <2>5, <2>6, <3>2, <3>3
  <2>10. QED
    BY Zenon, <2>8, <2>9
<1>6. QED
  BY <1>4, <1>5

\* A new pcb in either state.
LEMMA NewPcbFacts ==
    ASSUME NEW c \in 0 .. Calls
    PROVE  /\ NewPcb(c) \in PcbType
           /\ LET x == [NewPcb(c) EXCEPT !.state = "SYN_SENT"]
              IN  /\ x \in PcbType /\ x.state = "SYN_SENT" /\ x.arg = c
                  /\ x.queue = 0 /\ x.sndbuf = SndBuf /\ ~x.pend
<1> DEFINE B == BOOLEAN
           N == 0 .. SndBuf
           F == FALSE
           x == [NewPcb(c) EXCEPT !.state = "SYN_SENT"]
<1>1. /\ PcbType = [state: States, sndbuf: N, queue: N, arg: 0 .. Calls, rxclosed: B, pend: B]
      /\ NewPcb(c) = [state |-> "CLOSED", sndbuf |-> SndBuf, queue |-> 0, arg |-> c,
                      rxclosed |-> F, pend |-> F]
  BY DEF PcbType, NewPcb
<1>2. /\ F \in B /\ 0 \in N /\ SndBuf \in N
      /\ "CLOSED" \in States /\ "SYN_SENT" \in States
  BY LenAssumption DEF States
<1>3. ~F
  OBVIOUS
<1> HIDE DEF B, N, F
<1>4. NewPcb(c) \in PcbType
  BY <1>1, <1>2
<1>5. /\ x \in PcbType /\ x.state = "SYN_SENT" /\ x.arg = c
      /\ x.queue = 0 /\ x.sndbuf = SndBuf /\ x.pend = F
  BY <1>1, <1>2
<1>6. QED
  BY <1>3, <1>4, <1>5

LEMMA StartInv == IInv /\ Start => IInv'
<1> SUFFICES ASSUME IInv, Start PROVE IInv'
  OBVIOUS
<1> USE PoolAssumption, LenAssumption, TickAssumption
<1> DEFINE c == call + 1
           x == [NewPcb(c) EXCEPT !.state = "SYN_SENT"]
<1>1. /\ pc = "idle" /\ call < Calls /\ call' = c
      /\ cb' = [NewCb EXCEPT !.timer = ConnTicks] /\ cnt' = 0 /\ res' = TRUE
      /\ UNCHANGED <<acked, wild, broken>>
  BY DEF Start
<1>2. /\ call \in 0 .. Calls /\ pcb \in [Pcbs -> PcbType]
      /\ free \subseteq Pcbs /\ active \subseteq Pcbs /\ tw \subseteq Pcbs /\ leaked \subseteq Pcbs
      /\ acked \in [1 .. Calls -> 0 .. MsgLen]
      /\ result \in [1 .. Calls -> {"none", "ok", "error"}] /\ ptPcb = NoPcb
  BY <1>1 DEF IInv, TypeOK, Handle
<1>3. c \in 1 .. Calls /\ c \in 0 .. Calls /\ acked[c] = 0 /\ result[c] = "none"
  <2>1. c \in 1 .. Calls /\ c > call
    BY <1>1, <1>2
  <2>2. QED
    BY <2>1 DEF IInv, Frames
<1>4. /\ NewPcb(c) \in PcbType
      /\ x \in PcbType /\ x.state = "SYN_SENT" /\ x.arg = c
      /\ x.queue = 0 /\ x.sndbuf = SndBuf /\ ~x.pend
  BY <1>3, NewPcbFacts
<1>5. cb' \in CbType /\ ~cb'.connected /\ cb'.sent = 0
  <2> DEFINE B == BOOLEAN
             T == 0 .. ConnTicks + ChunkTicks
             F == FALSE
  <2>1. /\ CbType = [connected: B, sent: Nat, timer: T]
        /\ NewCb = [connected |-> F, sent |-> 0, timer |-> 0]
    BY DEF CbType, NewCb
  <2>2. F \in B /\ ConnTicks \in T /\ 0 \in T
    OBVIOUS
  <2>3. ~F
    OBVIOUS
  <2> HIDE DEF B, T, F
  <2>4. cb' \in CbType /\ cb'.connected = F /\ cb'.sent = 0
    BY <1>1, <2>1, <2>2
  <2>5. QED
    BY <2>3, <2>4
<1>6. PICK a \in TcpNew :
         /\ free' = a.free /\ tw' = a.tw
         /\ \/ /\ a.new # NoPcb
               /\ pc' = "connect" /\ ptPcb' = a.new /\ UNCHANGED <<result, leaked>>
               /\ pcb' = [a.mem EXCEPT ![a.new] = x]
               /\ active' = a.active \cup {a.new}
            \/ /\ UNCHANGED <<pc, ptPcb>> /\ result' = [result EXCEPT ![c] = "error"]
               /\ pcb' = [p \in Pcbs |-> IF p = a.new THEN NewPcb(c) ELSE a.mem[p]]
               /\ active' = a.active /\ leaked' = leaked \cup ({a.new} \ {NoPcb})
  BY <1>1 DEF Start
<1>7. /\ a.mem \in [Pcbs -> PcbType]
      /\ a.new # NoPcb => a.new \in free \cup active \cup tw
      /\ a.free = free \ {a.new} /\ a.active = active \ {a.new} /\ a.tw = tw \ {a.new}
      /\ \A p \in Pcbs : /\ a.mem[p].queue = pcb[p].queue
                         /\ a.mem[p].sndbuf = pcb[p].sndbuf
                         /\ a.mem[p].arg = pcb[p].arg
      /\ \A p \in active : a.mem[p].state \notin {"CLOSED", "TIME_WAIT", "SYN_SENT"}
      /\ \A p \in tw : a.mem[p].state = "TIME_WAIT"
  BY <1>1, <1>6, TcpNewFacts
<1>8. /\ free \cap (active \cup tw) = {} /\ active \cap tw = {}
      /\ leaked = Pcbs \ (free \cup active \cup tw)
  BY DEF IInv, PcbsAccounted
<1>9. /\ \A p \in active :
           /\ pcb[p].arg \in 1 .. call /\ acked[pcb[p].arg] + pcb[p].queue <= MsgLen
           /\ pcb[p].sndbuf + pcb[p].queue = SndBuf
      /\ \A p, q \in active : pcb[p].arg = pcb[q].arg => p = q
      /\ \A d \in 1 .. Calls : d > call => acked[d] = 0 /\ result[d] = "none"
  BY DEF IInv, Frames
<1> HIDE DEF x
\* The pcbs that stay active.
<1>10. \A p \in active : /\ a.mem[p].arg \in 1 .. call /\ a.mem[p].arg # c
                         /\ acked[a.mem[p].arg] + a.mem[p].queue <= MsgLen
                         /\ a.mem[p].sndbuf + a.mem[p].queue = SndBuf
  <2> TAKE p \in active
  <2>1. /\ a.mem[p].arg = pcb[p].arg /\ a.mem[p].queue = pcb[p].queue
        /\ a.mem[p].sndbuf = pcb[p].sndbuf
    BY <1>2, <1>7
  <2>2. pcb[p].arg \in 1 .. call /\ pcb[p].arg # c
    BY <1>2, <1>9
  <2>3. QED
    BY <1>9, <2>1, <2>2
<1>11. \A p, q \in active : a.mem[p].arg = a.mem[q].arg => p = q
  BY <1>2, <1>7, <1>9
<1>12. \A d \in 1 .. Calls : d > c => acked[d] = 0 /\ result[d] = "none" /\ d # c
  BY <1>2, <1>9
<1>13. 1 .. call \subseteq 1 .. c /\ c \in 1 .. c
  BY <1>2
<1>14. res' \in BOOLEAN /\ wild' \in BOOLEAN /\ broken' \in BOOLEAN
  BY <1>1 DEF IInv, TypeOK
<1>15. acked' \in [1 .. Calls -> 0 .. MsgLen] /\ cnt' \in 0 .. MsgLen /\ call' \in 0 .. Calls
  BY <1>1, <1>2, <1>3
<1> HIDE DEF c
<1>16. CASE /\ a.new # NoPcb
            /\ pc' = "connect" /\ ptPcb' = a.new /\ UNCHANGED <<result, leaked>>
            /\ pcb' = [a.mem EXCEPT ![a.new] = x]
            /\ active' = a.active \cup {a.new}
  <2> DEFINE n == a.new
  <2>1. /\ n \in Pcbs /\ pcb' \in [Pcbs -> PcbType] /\ pcb'[n] = x
        /\ \A p \in Pcbs : p # n => pcb'[p] = a.mem[p]
    BY <1>2, <1>4, <1>7, <1>16
  <2>2. /\ free' = free \ {n} /\ tw' = tw \ {n} /\ active' = (active \ {n}) \cup {n}
        /\ n \in free \cup active \cup tw
    BY <1>6, <1>7, <1>16
  <2>3. /\ free' \subseteq Pcbs /\ active' \subseteq Pcbs /\ tw' \subseteq Pcbs
        /\ leaked' \subseteq Pcbs /\ result' \in [1 .. Calls -> {"none", "ok", "error"}]
    BY <1>2, <1>16, <2>1, <2>2
  <2>4. TypeOK'
    BY <1>5, <1>14, <1>15, <1>16, <2>1, <2>3 DEF TypeOK
  <2>5. PcbsAccounted'
    <3>1. free' \cap (active' \cup tw') = {} /\ active' \cap tw' = {}
      BY <1>8, <2>2
    <3>2. leaked' = Pcbs \ (free' \cup active' \cup tw')
      BY <1>8, <1>16, <2>2
    <3>3. \A p \in active' : pcb'[p].state \notin {"CLOSED", "TIME_WAIT"}
      BY <1>2, <1>4, <1>7, <2>1, <2>2
    <3>4. \A p \in tw' : pcb'[p].state = "TIME_WAIT"
      BY <1>2, <1>7, <2>1, <2>2
    <3>5. QED
      BY <3>1, <3>2, <3>3, <3>4 DEF PcbsAccounted
  <2>6. Handle'
    <3>1. n \in active' /\ n \notin free'
      BY <2>2
    <3>2. QED
      BY <1>1, <1>3, <1>4, <1>5, <1>16, <2>1, <3>1 DEF Handle, Held
  <2>7. Frames'
    <3>1. \A p \in active' : p # n =>
             /\ p \in active /\ pcb'[p] = a.mem[p]
      BY <1>2, <2>1, <2>2
    <3>2. \A p \in active' :
             /\ pcb'[p].arg \in 1 .. c
             /\ acked[pcb'[p].arg] + pcb'[p].queue <= MsgLen
             /\ pcb'[p].sndbuf + pcb'[p].queue = SndBuf
             /\ pcb'[p].arg = c => p = n
      BY <1>3, <1>4, <1>10, <1>13, <2>1, <3>1
    <3>3. \A p, q \in active' : pcb'[p].arg = pcb'[q].arg => p = q
      BY <1>4, <1>10, <1>11, <2>1, <3>1
    <3>4. QED
      BY <1>1, <1>12, <1>16, <3>2, <3>3 DEF Frames
  <2>8. Connecting'
    <3>1. \A p \in active' : pcb'[p].state = "SYN_SENT" => p = n
      BY <1>2, <1>7, <2>1, <2>2
    <3>2. QED
      BY <1>1, <1>4, <1>5, <1>16, <2>1, <3>1 DEF Connecting, ConnectFindsFrame
  <2>9. SuccessIsAcked'
    BY <1>1, <1>16 DEF IInv, SuccessIsAcked
  <2>10. QED
    BY <2>4, <2>5, <2>6, <2>7, <2>8, <2>9 DEF IInv
<1>17. CASE /\ UNCHANGED <<pc, ptPcb>> /\ result' = [result EXCEPT ![c] = "error"]
            /\ pcb' = [p \in Pcbs |-> IF p = a.new THEN NewPcb(c) ELSE a.mem[p]]
            /\ active' = a.active /\ leaked' = leaked \cup ({a.new} \ {NoPcb})
  <2> DEFINE n == a.new
  <2>1. /\ pcb' \in [Pcbs -> PcbType]
        /\ \A p \in Pcbs : p # n => pcb'[p] = a.mem[p]
    BY <1>4, <1>7, <1>17
  <2>2. /\ free' = free \ {n} /\ tw' = tw \ {n} /\ active' = active \ {n}
        /\ leaked' = leaked \cup ({n} \ {NoPcb})
        /\ n # NoPcb => n \in free \cup active \cup tw
    BY Zenon, <1>6, <1>7, <1>17
  <2>3. /\ result' \in [1 .. Calls -> {"none", "ok", "error"}] /\ result'[c] = "error"
        /\ \A d \in 1 .. Calls : d # c => result'[d] = result[d]
    BY <1>2, <1>3, <1>17
  <2>4. free' \subseteq Pcbs /\ active' \subseteq Pcbs /\ tw' \subseteq Pcbs /\ leaked' \subseteq Pcbs
    BY <1>2, <2>2
  <2>5. pc' = "idle" /\ ptPcb' = NoPcb
    BY <1>1, <1>2, <1>17
  <2>6. TypeOK'
    BY <1>5, <1>14, <1>15, <2>1, <2>3, <2>4, <2>5 DEF TypeOK
  <2>7. PcbsAccounted'
    <3>1. free' \cap (active' \cup tw') = {} /\ active' \cap tw' = {}
      BY <1>8, <2>2
    <3>2. leaked' = Pcbs \ (free' \cup active' \cup tw')
      BY <1>2, <1>8, <2>2
    <3>3. /\ \A p \in active' : pcb'[p].state \notin {"CLOSED", "TIME_WAIT"}
          /\ \A p \in tw' : pcb'[p].state = "TIME_WAIT"
      BY <1>2, <1>7, <2>1, <2>2
    <3>4. QED
      BY <3>1, <3>2, <3>3 DEF PcbsAccounted
  <2>8. Handle'
    BY <2>5 DEF Handle
  <2>9. Frames'
    <3>1. \A p \in active' : p \in active /\ pcb'[p] = a.mem[p]
      BY <1>2, <2>1, <2>2
    <3>2. \A p \in active' :
             /\ pcb'[p].arg \in 1 .. c
             /\ acked[pcb'[p].arg] + pcb'[p].queue <= MsgLen
             /\ pcb'[p].sndbuf + pcb'[p].queue = SndBuf
      BY <1>10, <1>13, <3>1
    <3>3. \A p, q \in active' : pcb'[p].arg = pcb'[q].arg => p = q
      BY <1>11, <3>1
    <3>4. \A d \in 1 .. Calls : d > c => acked[d] = 0 /\ result'[d] = "none"
      BY <1>12, <2>3
    <3>5. QED
      BY <1>1, <2>5, <3>2, <3>3, <3>4 DEF Frames
  <2>10. Connecting'
    BY <1>2, <1>7, <2>1, <2>2 DEF Connecting, ConnectFindsFrame
  <2>11. SuccessIsAcked'
    BY <1>1, <2>3 DEF IInv, SuccessIsAcked
  <2>12. QED
    BY <2>6, <2>7, <2>8, <2>9, <2>10, <2>11 DEF IInv
<1>18. QED
  BY <1>6, <1>16, <1>17
-----------------------------------------------------------------------------
LEMMA StepInv == IInv /\ [Next]_vars => IInv'
<1> SUFFICES ASSUME IInv, [Next]_vars PROVE IInv'
  OBVIOUS
<1>1. CASE App
  BY <1>1, StartInv, ConnectDoneInv, WriteInv, OutputInv, CloseInv DEF App
<1>2. CASE Tick
  BY <1>2, TickInv
<1>3. ASSUME NEW p \in Pcbs, Stack(p) PROVE IInv'
  BY <1>3, SynAckInv, ResetInv, FastTmrInv, SlowTmrInv, SegmentInv DEF Stack
<1>4. CASE UNCHANGED vars
  <2> USE <1>4 DEF vars, app, lists, IInv
  <2>1. TypeOK'
    BY DEF TypeOK, CbType, PcbType
  <2>2. PcbsAccounted'
    BY Zenon DEF PcbsAccounted
  <2>3. Handle'
    BY Zenon DEF Handle
  <2>4. Frames'
    BY Zenon DEF Frames
  <2>5. Connecting' /\ SuccessIsAcked'
    BY Zenon DEF Connecting, ConnectFindsFrame, SuccessIsAcked
  <2>6. QED
    BY <2>1, <2>2, <2>3, <2>4, <2>5
<1>5. QED
  BY <1>1, <1>2, <1>3, <1>4 DEF Next

\* The queues of every pcb stay within TCP_SND_BUF and no message is
\* acknowledged beyond its end.
THEOREM SendTyped == Spec => []TypeOK
<1>1. IInv => TypeOK
  BY DEF IInv
<1>2. QED
  BY <1>1, InitInv, StepInv, PTL DEF Spec

\* Every pcb is in the pool, on one list, or was lost by a failed tcp_connect,
\* over any number of calls of sendMessage and any behaviour of the peers.
THEOREM PoolAccounted == Spec => []PcbsAccounted
<1>1. IInv => PcbsAccounted
  BY DEF IInv
<1>2. QED
  BY <1>1, InitInv, StepInv, PTL DEF Spec

\* When sendMessage returns 0 the peer has acknowledged the whole message, as
\* long as no callback of an earlier connection wrote into its frame.
THEOREM SentIsAcknowledged == Spec => []SuccessIsAcked
<1>1. IInv => SuccessIsAcked
  BY DEF IInv
<1>2. QED
  BY <1>1, InitInv, StepInv, PTL DEF Spec

\* The connect callback always finds the frame of the call that waits for it.
THEOREM FrameFound == Spec => []ConnectFindsFrame
<1>1. IInv => ConnectFindsFrame
  BY DEF IInv, Connecting
<1>2. QED
  BY <1>1, InitInv, StepInv, PTL DEF Spec

\* tcp_new fails only when there is no pcb left that tcp_alloc may take.
THEOREM PoolUsedUp == Spec => NoPcbOnlyIfAllBusy
<1> DEFINE A == call' # call /\ ptPcb' = NoPcb /\ leaked' = leaked =>
                  /\ free = {} /\ tw = {}
                  /\ \A p \in active : pcb[p].state \notin {"LAST_ACK", "CLOSING"}
<1>1. IInv /\ [Next]_vars => A
  <2> SUFFICES ASSUME IInv, [Next]_vars, call' # call, ptPcb' = NoPcb, leaked' = leaked
               PROVE  /\ free = {} /\ tw = {}
                      /\ \A p \in active : pcb[p].state \notin {"LAST_ACK", "CLOSING"}
    OBVIOUS
  <2>1. Start
    <3>1. ~ConnectDone /\ ~Output /\ ~Push /\ ~Close
      BY DEF ConnectDone, Output, Push, Close, InCall
    <3>2. ~Write
      BY DEF Write, InCall
    <3>3. ~Tick /\ ~UNCHANGED vars
      BY DEF Tick, app, vars
    <3>4. ASSUME NEW p \in Pcbs PROVE ~Stack(p)
      <4>1. ~SynAck(p) /\ ~Reset(p) /\ ~FastTmr(p) /\ ~SlowTmr(p)
        BY DEF SynAck, Reset, FastTmr, SlowTmr, app
      <4>2. ASSUME NEW k, NEW finack, NEW fin PROVE ~Segment(p, k, finack, fin)
        BY DEF Segment, app
      <4>3. QED
        BY <4>1, <4>2 DEF Stack
    <3>5. QED
      BY <3>1, <3>2, <3>3, <3>4 DEF Next, App
  <2>2. PICK a \in TcpNew : \/ a.new # NoPcb /\ ptPcb' = a.new
                            \/ leaked' = leaked \cup ({a.new} \ {NoPcb})
    BY <2>1 DEF Start
  <2>3. pc = "idle"
    BY <2>1 DEF Start
  <2>4. /\ a.new # NoPcb => a.new \in free \cup active \cup tw
        /\ a.new = NoPcb =>
             /\ free = {} /\ tw = {}
             /\ \A p \in active : pcb[p].state \notin {"LAST_ACK", "CLOSING"}
    BY <2>2, <2>3, TcpNewFacts
  <2>5. a.new # NoPcb => a.new \notin leaked
    BY <2>4 DEF IInv, PcbsAccounted
  <2>6. QED
    BY <2>2, <2>4, <2>5
<1>2. QED
  BY <1>1, InitInv, StepInv, PTL DEF Spec, NoPcbOnlyIfAllBusy
=============================================================================
