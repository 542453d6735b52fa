------------------------------ MODULE TcpRecv ------------------------------
(***************************************************************************)
(* The receiving half of an established TCP connection of lwIP, with the   *)
(* HTTP client as its application: tcp_input, tcp_process and tcp_receive  *)
(* (lwip-2.1.2/src/core/tcp_in.c) with the queue of out-of-sequence        *)
(* segments, the window and its announcement (tcp.c), the acknowledgements *)
(* (tcp_out.c), and httpc_tcp_recv, which reads the header of the response *)
(* only when it is complete and the body at once.                          *)
(*                                                                         *)
(* The peer has a stream of StreamLen bytes and then closes. It sends any  *)
(* piece of it at any time, as often as it wants, inside the window it has *)
(* been told; the network loses and reorders segments and                  *)
(* acknowledgements. A byte is its place in the stream, so that what is    *)
(* delivered can be told from what should have been.                       *)
(*                                                                         *)
(* TrimLengthOnly, KeepCovered, AnnounceAll, ZeroWindow and DropSilently   *)
(* are faulty variants of the definitions that follow them; no action uses *)
(* them.                                                                   *)
(***************************************************************************)
EXTENDS Integers, Sequences

CONSTANTS
    Width,      \* the number of sequence numbers, 2^32 in the code
    Iss,        \* the sequence number of the first byte
    StreamLen,  \* the length of the response
    Header,     \* the length of its header
    Wnd,        \* TCP_WND
    Mss         \* the largest segment

ASSUME TcpAssumption ==
    /\ {StreamLen, Header, Wnd, Mss} \subseteq Nat \ {0}
    /\ Width \in Nat /\ Iss \in 0..(Width - 1)
    /\ Width > 2 * (StreamLen + Wnd + 1)
    /\ Header < StreamLen
    \* A longer header would never be read: the window closes before its end.
    /\ Header + Mss <= Wnd

VARIABLES
    pcb,     \* the receiving half of the tcp_pcb
    stream,  \* the bytes given to the application
    closed,  \* "no", or how the application's close ended: "fin" or "rst"
    peer,    \* what has reached the peer: una, the place acknowledged, and
             \* right, the place where the window ends
    stuck    \* an assertion has failed; it is an endless loop

vars == <<pcb, stream, closed, peer, stuck>>

Flags == {"DELAY", "NOW"}                                \* TF_ACK_DELAY, TF_ACK_NOW
Sent == {"arrives", "lost", "no_header", "not_sent"}     \* the fate of an ACK

Add(a, n) == (a + n) % Width
SeqLT(a, b) == (a - b) % Width >= Width \div 2
SeqGT(a, b) == SeqLT(b, a)
SeqGEQ(a, b) == ~SeqLT(a, b)
SeqLEQ(a, b) == ~SeqLT(b, a)
SeqBetween(a, b, c) == SeqGEQ(a, b) /\ SeqLEQ(a, c)

SeqnoAt(place) == Add(Iss, place)

TcpLen(s) == s.len + IF s.fin THEN 1 ELSE 0

\* The pieces of the stream that fit into a segment.
Segments ==
    {[seqno |-> SeqnoAt(f), from |-> f, len |-> n, fin |-> e] :
        f \in 0..StreamLen, n \in 0..Mss, e \in BOOLEAN}

Sendable ==
    {s \in Segments : /\ s.from + s.len <= StreamLen
                      /\ s.fin => s.from + s.len = StreamLen
                      /\ s.from + TcpLen(s) <= peer.right}

\* The SYN of the peer is acknowledged along with the request.
Init ==
    /\ pcb = [rcv_nxt |-> Iss, rcv_wnd |-> Wnd, ann_wnd |-> Wnd,
              edge |-> SeqnoAt(Wnd), ooseq |-> <<>>, flags |-> {}]
    /\ stream = <<>> /\ closed = "no" /\ stuck = FALSE
    /\ peer = [una |-> 0, right |-> Wnd]

-----------------------------------------------------------------------------
\* The window and its announcement.

WindowStep == IF Wnd \div 2 < Mss THEN Wnd \div 2 ELSE Mss
UpdateThreshold == IF Wnd \div 4 < 4 * Mss THEN Wnd \div 4 ELSE 4 * Mss

\* What tcp_update_rcv_ann_wnd returns.
Inflation(nxt, wnd, edge) ==
    LET right == Add(nxt, wnd)
    IN  IF SeqGEQ(right, Add(edge, WindowStep)) THEN (right - edge) % Width ELSE 0

AnnounceAll(nxt, wnd, edge) == Wnd

ZeroWindow(nxt, wnd, edge) == IF Inflation(nxt, wnd, edge) > 0 THEN wnd ELSE 0

\* tcp_update_rcv_ann_wnd: the edge moves by a whole step or not at all.
AnnWnd(nxt, wnd, edge) ==
    IF Inflation(nxt, wnd, edge) > 0 THEN wnd
    ELSE IF SeqGT(nxt, edge) THEN 0 ELSE (edge - nxt) % Width

AckNow(p) == [p EXCEPT !.flags = @ \cup {"NOW"}]

\* tcp_ack: every second segment is acknowledged at once.
Ack(flags) ==
    IF "DELAY" \in flags THEN (flags \ {"DELAY"}) \cup {"NOW"} ELSE flags \cup {"DELAY"}

\* tcp_recved, out of a callback of tcp_input: the tcp_output in it does nothing.
Recved(p, n) ==
    LET wnd == IF p.rcv_wnd + n > Wnd THEN Wnd ELSE p.rcv_wnd + n
    IN  [p EXCEPT !.rcv_wnd = wnd, !.ann_wnd = AnnWnd(p.rcv_nxt, wnd, p.edge),
                  !.flags = IF Inflation(p.rcv_nxt, wnd, p.edge) >= UpdateThreshold
                            THEN @ \cup {"NOW"} ELSE @]

\* tcp_send_empty_ack
SendEmptyAck(p, how) ==
    [p EXCEPT !.edge = IF how = "no_header" THEN @ ELSE Add(p.rcv_nxt, p.ann_wnd),
              !.flags = IF how \in {"arrives", "lost"} THEN {} ELSE Flags]

\* tcp_output with nothing to send.
Output(p, how) == IF "NOW" \in p.flags THEN SendEmptyAck(p, how) ELSE p

\* An acknowledgement with p's numbers reaches the peer.
Heard(p) ==
    LET una == peer.una + ((p.rcv_nxt - SeqnoAt(peer.una)) % Width)
        right == una + p.ann_wnd
    IN  [una |-> una, right |-> IF right > peer.right THEN right ELSE peer.right]

-----------------------------------------------------------------------------
\* The queue of out-of-sequence segments.

\* How many of the places I of a queue a walk from its start passes.
Leading(q, I) == CHOOSE k \in 0..Len(q) : 1..k \subseteq I /\ k + 1 \notin I

From(q, i) == SubSeq(q, i, Len(q))

\* The end of a segment is trimmed if it reaches beyond a sequence number.
CutAt(s, seqno) ==
    IF SeqGT(Add(s.seqno, s.len), seqno)
    THEN [s EXCEPT !.len = (seqno - s.seqno) % Width] ELSE s

KeepCovered(s, q) ==
    [seg |-> IF q # <<>> THEN CutAt(s, Head(q).seqno) ELSE s, rest |-> q]

\* tcp_oos_insert_segment: the segment s in front of q swallows what it covers,
\* the FIN included, and ends where the next segment starts.
OosInsert(s, q) ==
    IF s.fin THEN [seg |-> s, rest |-> <<>>]
    ELSE LET end == Add(s.seqno, s.len)
             k == Leading(q, {i \in DOMAIN q : SeqGEQ(end, Add(q[i].seqno, q[i].len))})
             rest == From(q, k + 1)
             t == [s EXCEPT !.fin = \E i \in 1..k : q[i].fin]
         IN  [seg |-> IF rest # <<>> THEN CutAt(t, Head(rest).seqno) ELSE t,
              rest |-> rest]

Inserted(s, q) == LET i == OosInsert(s, q) IN <<i.seg>> \o i.rest

\* A segment that is put behind the last one is cut at the end of the window.
CutToWindow(p, s) ==
    LET right == Add(p.rcv_nxt, p.rcv_wnd)
    IN  IF SeqGT(Add(s.seqno, TcpLen(s)), right)
        THEN [s EXCEPT !.fin = FALSE, !.len = (right - s.seqno) % Width] ELSE s

\* tcp_receive, a segment out of sequence: the walk through the queue.
Queue(p, s) ==
    LET q == p.ooseq
        k == Leading(q, {i \in DOMAIN q : SeqLT(q[i].seqno, s.seqno)})
        trimmed == IF k > 0 THEN [SubSeq(q, 1, k) EXCEPT ![k] = CutAt(@, s.seqno)] ELSE <<>>
    IN  CASE q = <<>> -> <<s>>
          [] k < Len(q) /\ q[k + 1].seqno = s.seqno ->
                IF s.len > q[k + 1].len
                THEN SubSeq(q, 1, k) \o Inserted(s, From(q, k + 1)) ELSE q
          [] k < Len(q) /\ q[k + 1].seqno # s.seqno ->
                trimmed \o Inserted(s, From(q, k + 1))
          [] k > 0 /\ k = Len(q) ->
                IF q[k].fin THEN q ELSE trimmed \o <<CutToWindow(p, s)>>

-----------------------------------------------------------------------------
\* tcp_receive.  Its results: the block, the segments whose data goes to the
\* application, and whether an assertion has failed; the one result, as a set.

Result(p) == {[pcb |-> p, data |-> <<>>, failed |-> FALSE]}

FitWindow(p, s) ==
    IF TcpLen(s) > p.rcv_wnd THEN [s EXCEPT !.fin = FALSE, !.len = p.rcv_wnd] ELSE s

End(s) == Add(s.seqno, TcpLen(s))

\* How many segments of the queue follow in sequence.
InRow(i) ==
    LET q == <<i.seg>> \o i.rest
    IN  Leading(i.rest, {j \in DOMAIN i.rest : q[j + 1].seqno = End(q[j])})

\* The segment is taken, and k of those behind it.
Taken(p, i, k) ==
    LET nxt == End(IF k = 0 THEN i.seg ELSE i.rest[k])
        n == (nxt - p.rcv_nxt) % Width
    IN  [pcb |-> [p EXCEPT !.rcv_nxt = nxt, !.rcv_wnd = @ - n,
                           !.ann_wnd = AnnWnd(nxt, p.rcv_wnd - n, p.edge),
                           !.ooseq = From(i.rest, k + 1), !.flags = Ack(@)],
         data |-> <<i.seg>> \o SubSeq(i.rest, 1, k),
         failed |-> n > p.rcv_wnd \/ (i.seg.fin /\ i.rest # <<>>)]

\* The next segment in sequence: it is put in front of the queue first.
InSequence(p, s) ==
    UNION {{Taken(p, i, k) : k \in {InRow(i)}} :
                i \in {OosInsert(FitWindow(p, s), p.ooseq)}}

TrimLengthOnly(p, s) ==
    LET off == (p.rcv_nxt - s.seqno) % Width
    IN  IF SeqBetween(p.rcv_nxt, Add(s.seqno, 1), Add(s.seqno, TcpLen(s) - 1))
        THEN [s EXCEPT !.seqno = p.rcv_nxt, !.len = @ - off] ELSE s

\* The first edge is trimmed if the start of the segment has been received.
TrimFirst(p, s) ==
    LET off == (p.rcv_nxt - s.seqno) % Width
    IN  IF SeqBetween(p.rcv_nxt, Add(s.seqno, 1), Add(s.seqno, TcpLen(s) - 1))
        THEN [s EXCEPT !.seqno = p.rcv_nxt, !.len = @ - off, !.from = @ + off] ELSE s

DropSilently(p, s) == p

\* A segment outside of the window, a duplicate for one, is answered.
Outside(p, s) == AckNow(p)

InWindow(p, seqno) == SeqBetween(seqno, p.rcv_nxt, Add(p.rcv_nxt, p.rcv_wnd - 1))

\* copied: there is memory for a copy of the segment.
TcpReceive(p, in, copied) ==
    IF TcpLen(in) = 0 THEN Result(IF InWindow(p, in.seqno) THEN p ELSE AckNow(p))
    ELSE UNION {IF ~InWindow(p, s.seqno) THEN Result(Outside(p, s))
                ELSE IF s.seqno = p.rcv_nxt THEN InSequence(p, s)
                ELSE Result(AckNow(IF copied THEN [p EXCEPT !.ooseq = Queue(p, s)] ELSE p)) :
                    s \in {TrimFirst(p, in)}}

-----------------------------------------------------------------------------
Bytes(s) == [i \in 1..s.len |-> s.from + i - 1]

\* The data of the segments d, one behind the other, behind what there is.
Gathered(got, d) ==
    LET upTo[k \in 0..Len(d)] == IF k = 0 THEN got ELSE upTo[k - 1] \o Bytes(d[k])
    IN  upTo[Len(d)]

\* httpc_tcp_recv with the data: nothing is read until the header is complete,
\* then the header and what follows it, from then on everything.
Read(p, before, after) ==
    CASE after < Header -> p
      [] before < Header /\ after >= Header ->
            LET q == Recved(p, Header)
            IN  IF after > Header THEN Recved(q, after - Header) ELSE q
      [] before >= Header -> IF after > before THEN Recved(p, after - before) ELSE p

\* The application does not read the FIN.
FinRead(p) == [p EXCEPT !.rcv_wnd = IF @ # Wnd THEN @ + 1 ELSE @]

\* tcp_close, called by httpc_close: unread data makes it a reset.
CloseWith(p) == IF p.rcv_wnd # Wnd THEN "rst" ELSE "fin"

\* tcp_input with a segment of the peer.
TcpInput(in, copied, how) ==
    /\ closed = "no" /\ ~stuck
    /\ \E r \in TcpReceive(pcb, in, copied) :
        IF r.failed THEN stuck' = TRUE /\ UNCHANGED <<pcb, stream, closed, peer>>
        ELSE /\ stream' = Gathered(stream, r.data)
             /\ \E p \in {Read(r.pcb, Len(stream), Len(stream'))} :
                IF \E i \in 1..Len(r.data) : r.data[i].fin
                THEN /\ pcb' = FinRead(AckNow(p)) /\ closed' = CloseWith(pcb')
                     /\ UNCHANGED peer
                ELSE /\ pcb' = Output(p, how) /\ UNCHANGED closed
                     /\ peer' = IF how = "arrives" /\ "NOW" \in p.flags
                                THEN Heard(p) ELSE peer
             /\ UNCHANGED stuck

\* The peer has not heard the last of the handshake and repeats its SYN.
SynAgain(how) ==
    /\ closed = "no" /\ ~stuck
    /\ pcb' = Output(AckNow(pcb), how)
    /\ peer' = IF how = "arrives" THEN Heard(pcb) ELSE peer
    /\ UNCHANGED <<stream, closed, stuck>>

\* tcp_fasttmr: a delayed acknowledgement is sent; the flags go in any case.
FastTimer(how) ==
    /\ closed = "no" /\ ~stuck /\ "DELAY" \in pcb.flags
    /\ pcb' = [SendEmptyAck(pcb, how) EXCEPT !.flags = {}]
    /\ peer' = IF how = "arrives" THEN Heard(pcb) ELSE peer
    /\ UNCHANGED <<stream, closed, stuck>>

\* tcp_slowtmr gives up the queue when nothing has come for a while.
FreeOoseq ==
    /\ closed = "no" /\ ~stuck /\ pcb.ooseq # <<>>
    /\ pcb' = [pcb EXCEPT !.ooseq = <<>>]
    /\ UNCHANGED <<stream, closed, peer, stuck>>

Next ==
    \/ \E s \in Sendable, copied \in BOOLEAN, how \in Sent : TcpInput(s, copied, how)
    \/ \E how \in Sent : SynAgain(how) \/ FastTimer(how)
    \/ FreeOoseq

\* The peer repeats what has not been acknowledged until a repetition and the
\* answer to it get through; the station's timer runs.
Repeat ==
    \E s \in Sendable : /\ s.from = peer.una /\ TcpLen(s) > 0
                        /\ TcpInput(s, TRUE, "arrives")

Spec ==
    /\ Init /\ [][Next]_vars
    /\ WF_vars(Repeat) /\ WF_vars(\E how \in Sent : FastTimer(how))

-----------------------------------------------------------------------------
Numbers == 0..(Width - 1)

TypeOK ==
    /\ pcb \in [rcv_nxt: Numbers, rcv_wnd: 0..Wnd, ann_wnd: 0..Wnd, edge: Numbers,
                ooseq: Seq([seqno: Numbers, from: 0..StreamLen, len: 0..Mss,
                            fin: BOOLEAN]), flags: SUBSET Flags]
    /\ stream \in Seq(0..(StreamLen - 1))
    /\ closed \in {"no", "fin", "rst"} /\ stuck \in BOOLEAN
    /\ peer \in [una: 0..StreamLen, right: 0..(StreamLen + Wnd + 1)]

\* tcp_receive: whatever is lost, repeated, cut anew or comes out of order, the
\* application gets the stream of the peer, no byte missing and none twice, and
\* it is told the end only behind the last one.
InOrder ==
    /\ \A i \in 1..Len(stream) : stream[i] = i - 1
    /\ closed # "no" => Len(stream) = StreamLen

\* The queue: its segments are in order, apart, behind rcv_nxt and inside of the
\* window, they hold the bytes their sequence numbers stand for, and nothing is
\* behind a FIN.
QueueSound ==
    LET q == pcb.ooseq
    IN  \A i \in 1..Len(q) :
            /\ q[i].seqno = SeqnoAt(q[i].from)
            /\ i = 1 => SeqGT(q[1].seqno, pcb.rcv_nxt)
            /\ i < Len(q) => /\ SeqLEQ(Add(q[i].seqno, TcpLen(q[i])), q[i + 1].seqno)
                             /\ ~q[i].fin /\ q[i].len > 0
            /\ SeqLEQ(Add(q[i].seqno, TcpLen(q[i])), Add(pcb.rcv_nxt, pcb.rcv_wnd))

\* The control block is sound.
PcbSound == TypeOK /\ QueueSound

\* What has been announced is taken: the end of the window that the peer knows
\* is never behind the end of the one there is, so that no assertion on the
\* window fails for a peer that respects it.
AnnouncedIsTaken ==
    /\ ~stuck
    /\ closed = "no" =>
            peer.right <= Len(stream) + pcb.rcv_wnd

\* tcp_update_rcv_ann_wnd: "keep the right edge of window constant" -- an
\* acknowledgement never takes back a part of the window.
EdgeNeverBack == [][SeqGEQ(pcb'.edge, pcb.edge)]_vars

\* As long as the peer repeats what it has no answer for, the response gets
\* through, and tcp_close then ends the connection with a FIN, not with a reset
\* that may cost the peer's last data: the window is whole again by then.
Delivered == <>(closed = "fin")
=============================================================================
