--------------------------- MODULE HttpDownload ---------------------------
(***************************************************************************)
(* httpDownload (src/network_lwip.c) on top of the lwIP HTTP client        *)
(* (apps/http/http_client.c).  httpDownload waits in a loop that runs the  *)
(* stack; the stack calls httpc_tcp_connected, httpc_tcp_recv,             *)
(* httpc_tcp_err and httpc_tcp_poll, which call back into httpDownload     *)
(* through the state on its stack frame.                                   *)
(*                                                                         *)
(* TCP delivers the response in order, cut into segments and pbufs         *)
(* anywhere; the peer may stop, close or reset at any time.  Body bytes    *)
(* are counted, since they only ever come in order.                        *)
(*                                                                         *)
(* HeaderClosesOK, PollForgetsState, ErrIsSilent, LengthRequired and       *)
(* PollRestarts are faulty variants of the definitions that follow them;   *)
(* no action uses them.                                                    *)
(***************************************************************************)
EXTENDS Integers

CONSTANTS
    BufferSize,   \* sizBuffer
    PollTimeout,  \* HTTPC_POLL_TIMEOUT
    Responses,    \* what the server answers: [status, clen, len]
    Aligns        \* addresses modulo 4 at which a pbuf payload may start

NoLen == -1       \* HTTPC_CONTENT_LEN_INVALID
OK    == 200

ASSUME SizeAssumption == BufferSize \in Nat \ {0} /\ PollTimeout \in Nat \ {0}
ASSUME ResponseAssumption ==
    \A r \in Responses : /\ r.status \in Nat /\ r.len \in Nat
                         /\ r.clen \in Nat \cup {NoLen}
ASSUME AlignAssumption == Aligns \subseteq 0 .. 3

VARIABLES
    app,      \* httpDownload: "call", "wait", "hang" or "return"
    iResult,  \* the value httpDownload returns
    pcb,      \* the TCP connection: "none", "syn_sent", "established"
    req,      \* httpc_state_t
    dl,       \* HTTP_DOWNLOAD_STATE_T on the stack of httpDownload
    sha,      \* the hash unit: bytes fed, and whether any is not body data
    refused,  \* pcb->refused_data points to a pbuf the callback has freed
    resp,     \* the response of the server
    sent,     \* body bytes TCP has delivered (history)
    idle,     \* timer ticks since the last body data (history)
    eof       \* the close came after the complete response (history)

httpVars == <<app, iResult, pcb, req, dl, sha, refused, resp, sent, idle, eof>>

Parses == {"first_line", "headers", "rx_data"}
Stage(p) == CASE p = "first_line" -> 0 [] p = "headers" -> 1 [] OTHER -> 2
Results == {"OK", "ERR_CLOSED", "ERR_CONTENT_LEN", "ERR_TIMEOUT", "ERR_MEM"}

ReqType == [alive: BOOLEAN, parse: Parses, status: Nat,
            clen: Nat \cup {NoLen}, rx: Nat, ticks: 1 .. PollTimeout]
DlType == [cnt: 0 .. BufferSize - 1, fin: BOOLEAN, res: Results, srv: Nat, calls: Nat]

NewReq == [alive |-> TRUE, parse |-> "first_line", status |-> 0,
           clen |-> NoLen, rx |-> 0, ticks |-> PollTimeout]
NoReq == [NewReq EXCEPT !.alive = FALSE]

HttpInit ==
    /\ app = "call" /\ iResult = -1 /\ pcb = "none" /\ req = NoReq
    /\ dl = [cnt |-> 0, fin |-> FALSE, res |-> "OK", srv |-> 0, calls |-> 0]
    /\ sha = [fed |-> 0, dirty |-> FALSE]
    /\ refused = FALSE /\ resp \in Responses /\ sent = 0 /\ idle = 0 /\ eof = FALSE

\* httpc_get_file allocates the state and the pcb and starts to connect, or
\* fails and leaves nothing behind.
GetFile ==
    /\ app = "call"
    /\ \/ app' = "wait" /\ pcb' = "syn_sent" /\ req' = NewReq
       \/ app' = "return" /\ UNCHANGED <<pcb, req>>
    /\ UNCHANGED <<iResult, dl, sha, refused, resp, sent, idle, eof>>

\* httpDownloadResultCallback with the result r and the response code srv.
ResultCallback(r, srv) ==
    dl' = [dl EXCEPT !.fin = TRUE, !.res = r, !.srv = srv, !.calls = @ + 1]

\* httpc_close: the result callback, then httpc_free_state closes the pcb and
\* takes its callbacks away.
Close(r, srv) == ResultCallback(r, srv) /\ req' = NoReq /\ pcb' = "none"

\* The stack runs inside network_cyclic_process, of httpDownload or of a later
\* caller; it calls back as long as the request state is there.
Callback == req.alive /\ app # "hang" /\ ~refused

Connected ==
    /\ Callback /\ pcb = "syn_sent"
    /\ \/ pcb' = "established" /\ UNCHANGED <<req, dl>>
       \/ Close("ERR_MEM", 0)
    /\ UNCHANGED <<app, iResult, sha, refused, resp, sent, idle, eof>>

\* sha384_update feeds single bytes up to the next multiple of 4 without a look
\* at the end of the chunk.
Pad(al) == (4 - al) % 4
ReadsPast(len, al) == len < Pad(al)

\* httpDownloadDataCallback on n bytes in pbufs that end at the offsets ends:
\* a pbuf is hashed, then copied if it leaves room in the buffer; the first one
\* that does not ends the loop.  The one possible result, as a set.
CopyChunks(n, ends) ==
    LET left == BufferSize - dl.cnt
    IN  IF n < left THEN {[copied |-> n, hashed |-> n, ok |-> TRUE]}
        ELSE {c \in [copied: {0} \cup ends, hashed: ends, ok: BOOLEAN] :
                /\ ~c.ok /\ c.copied < left /\ c.hashed >= left
                /\ ~\E e \in ends : c.copied < e /\ e < c.hashed}

\* Whether a pbuf whose data ends at one of ends is read past its end, when the
\* first one starts at an address al0 modulo 4 and the others at al.
AnyReadsPast(ends, al0, al) ==
    \/ \E e \in ends : ReadsPast(e, al0) /\ \A f \in ends : e <= f
    \/ \E d, e \in ends : /\ d < e /\ ~\E f \in ends : d < f /\ f < e
                          /\ ReadsPast(e - d, al)

\* httpc_tcp_recv: the parse state a segment reaches and the n body bytes in it.
Parse(q, stage, n) ==
    [q EXCEPT !.parse = stage,
              !.status = IF stage # "first_line" THEN resp.status ELSE @,
              !.clen = IF stage = "rx_data" THEN resp.clen ELSE @,
              !.rx = @ + n,
              !.ticks = IF n > 0 THEN PollTimeout ELSE @]

Recv(stage, n) ==
    /\ Callback /\ pcb = "established"
    /\ Stage(stage) >= Stage(req.parse)
    /\ IF n = 0 THEN req.parse # "rx_data"
                ELSE stage = "rx_data" /\ sent + n <= resp.len
    /\ req' = Parse(req, stage, n)
    /\ sent' = sent + n /\ idle' = IF n > 0 THEN 0 ELSE idle
    /\ IF n = 0 THEN UNCHANGED <<dl, sha, refused>>
       ELSE \E cuts \in SUBSET (1 .. n - 1), al \in Aligns,
               \* Directly behind the headers the data may start anywhere.
               al0 \in IF req.parse = "rx_data" THEN Aligns ELSE 0 .. 3 :
            \E c \in CopyChunks(n, cuts \cup {n}) :
                /\ dl' = [dl EXCEPT !.cnt = @ + c.copied]
                /\ sha' = [fed |-> sha.fed + c.hashed,
                           dirty |-> sha.dirty \/ AnyReadsPast(
                                {e \in cuts \cup {n} : e <= c.hashed}, al0, al)]
                \* ERR_MEM makes lwIP keep the pbuf, which is freed already.
                /\ refused' = ~c.ok
    /\ UNCHANGED <<app, iResult, pcb, resp, eof>>

HeaderClosesOK(q) ==
    IF q.parse # "rx_data" THEN "ERR_CLOSED" ELSE "OK"

LengthRequired(q) ==
    CASE q.parse # "rx_data" -> "ERR_CLOSED"
      [] q.parse = "rx_data" /\ q.clen # q.rx -> "ERR_CONTENT_LEN"
      [] OTHER -> "OK"

ClosedResult(q) ==
    CASE q.parse # "rx_data" -> "ERR_CLOSED"
      [] q.parse = "rx_data" /\ q.clen # NoLen /\ q.clen # q.rx -> "ERR_CONTENT_LEN"
      [] OTHER -> "OK"

\* The peer closes: httpc_tcp_recv without a pbuf.
RecvFin ==
    /\ Callback /\ pcb = "established"
    /\ Close(ClosedResult(req), req.status)
    /\ eof' = (req.parse = "rx_data" /\ sent = resp.len)
    /\ UNCHANGED <<app, iResult, sha, refused, resp, sent, idle>>

\* The same, but sha384_finalize_byte never returns: it waits for the end of a
\* block, and the padding of the body fills the last block only if the unit got
\* the body and nothing else.
HashNeverReady ==
    /\ Callback /\ pcb = "established"
    /\ ClosedResult(req) = "OK" /\ req.status = OK /\ sha.dirty
    /\ app' = "hang"
    /\ UNCHANGED <<iResult, pcb, req, dl, sha, refused, resp, sent, idle, eof>>

ErrIsSilent ==
    /\ Callback /\ pcb # "none"
    /\ req' = NoReq /\ pcb' = "none"
    /\ UNCHANGED <<app, dl, iResult, sha, refused, resp, sent, idle, eof>>

\* A reset, or too many retransmissions: httpc_tcp_err.
TcpErr ==
    /\ Callback /\ pcb # "none"
    /\ Close("ERR_CLOSED", 0)
    /\ UNCHANGED <<app, iResult, sha, refused, resp, sent, idle, eof>>

PollForgetsState(t) ==
    IF t = 0 THEN ResultCallback("ERR_TIMEOUT", 0) /\ UNCHANGED <<req, pcb>>
    ELSE req' = [req EXCEPT !.ticks = t] /\ UNCHANGED <<pcb, dl>>

PollRestarts(t) ==
    IF t = 0 THEN req' = NewReq /\ pcb' = "syn_sent" /\ dl' = [dl EXCEPT !.cnt = 0]
    ELSE req' = [req EXCEPT !.ticks = t] /\ UNCHANGED <<pcb, dl>>

\* httpc_tcp_poll with t ticks left.
Poll(t) ==
    IF t = 0 THEN Close("ERR_TIMEOUT", 0)
    ELSE req' = [req EXCEPT !.ticks = t] /\ UNCHANGED <<pcb, dl>>

\* tcp_slowtmr; tcp_tmr runs tcp_fasttmr before it, so data that was refused has
\* been handed out again.
Tick ==
    /\ Callback
    /\ Poll(req.ticks - 1)
    /\ idle' = idle + 1
    /\ UNCHANGED <<app, iResult, sha, refused, resp, sent, eof>>

\* Whatever comes first, the next segment or tcp_fasttmr, hands the refused pbuf
\* to the callback again, or its memory is in use for the segment itself: each
\* way ends in pbuf_free of a pbuf without a reference, and the assertion there
\* stops the program.
RedeliverRefused ==
    /\ refused /\ app # "hang"
    /\ app' = "hang"
    /\ UNCHANGED <<iResult, pcb, req, dl, sha, refused, resp, sent, idle, eof>>

\* The wait loop sees fIsFinished.
Return ==
    /\ app = "wait" /\ dl.fin
    /\ app' = "return"
    /\ iResult' = IF dl.res = "OK" /\ dl.srv = OK THEN 0 ELSE -1
    /\ UNCHANGED <<pcb, req, dl, sha, refused, resp, sent, idle, eof>>

HttpNext ==
    \/ GetFile \/ Connected \/ RecvFin \/ HashNeverReady \/ TcpErr \/ Tick
    \/ RedeliverRefused \/ Return
    \/ \E stage \in Parses, n \in 0 .. resp.len : Recv(stage, n)

\* network_cyclic_process runs the timers on every turn of the wait loop, with
\* or without a link.
HttpSpec == HttpInit /\ [][HttpNext]_httpVars /\ WF_httpVars(GetFile) /\ WF_httpVars(Tick)
                     /\ WF_httpVars(Return) /\ WF_httpVars(RedeliverRefused)
-----------------------------------------------------------------------------
\* The download as the caller of httpDownload sees it.
Status ==
    CASE app = "call" -> "off"
      [] app \in {"wait", "hang"} -> "running"
      [] OTHER -> IF iResult = 0 THEN "done" ELSE "off"

Download == INSTANCE Transfer WITH Sizes <- {r.clen : r \in Responses},
                                   status <- Status, size <- resp.clen, got <- dl.cnt

\* The state keeps its type; above all the write position never reaches the
\* end of the buffer (httpDownloadDataCallback).
HttpTypeOK ==
    /\ app \in {"call", "wait", "hang", "return"} /\ iResult \in {0, -1}
    /\ pcb \in {"none", "syn_sent", "established"}
    /\ req \in ReqType /\ dl \in DlType /\ sha \in [fed: Nat, dirty: BOOLEAN]
    /\ refused \in BOOLEAN /\ eof \in BOOLEAN /\ sent \in Nat /\ idle \in Nat

\* When httpDownload returns 0, everything TCP delivered is in the buffer and
\* in the hash, and it is as long as the server announced.
SuccessIsComplete ==
    app = "return" /\ iResult = 0 =>
        /\ dl.cnt = sent /\ sha.fed = sent
        /\ resp.status = OK /\ resp.clen \in {NoLen, sent}

\* httpDownload implements Transfer: what is in the buffer is only ever
\* continued, a success has the announced length, and no callback changes the
\* buffer or the outcome once httpDownload has returned.
IsTransfer == Download!Spec

\* A callback always finds the stack frame of httpDownload: the result is
\* reported once, and once it is there is no request state to call back from.
CallbacksFindFrame ==
    /\ dl.calls <= 1
    /\ dl.fin \/ app = "return" => ~req.alive /\ pcb = "none"

\* The download only times out after PollTimeout timer ticks without body data,
\* however long it takes (the patch in httpc_tcp_recv).
TimeoutOnlyIfIdle ==
    dl.fin /\ dl.res = "ERR_TIMEOUT" => idle >= PollTimeout

\* A complete response with status 200 that the server closes is a success,
\* with or without a Content-Length header.
CompleteSucceeds ==
    app = "return" /\ eof /\ resp.status = OK /\ resp.clen \in {NoLen, resp.len}
      => iResult = 0

\* httpDownload returns, unless a chunk did not fit into the buffer or the hash
\* unit got bytes that are not body data: the timers end every wait for a peer.
Returns == <>(app = "return" \/ (app = "hang" /\ (refused \/ sha.dirty)))

\* pbuf_free is never called on a pbuf without a reference
\* ("pbuf_free: p->ref > 0").
RefPositive == ~(refused /\ app = "hang")

\* The hash sum gets the chunk data ("Add the chunk data to the hash sum.").
HashOfData == ~sha.dirty
=============================================================================
