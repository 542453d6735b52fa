----------------------------- MODULE MCTcpRecv -----------------------------
(* Sequence numbers that wrap around within the response.                   *)
EXTENDS TcpRecv
=============================================================================
