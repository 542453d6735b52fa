--------------------------- MODULE MCSendMessage ---------------------------
(***************************************************************************)
(* Small instances of SendMessage: more messages than pcbs, so that the    *)
(* pool runs dry, and messages of two pieces for a send buffer of one.     *)
(***************************************************************************)
EXTENDS SendMessage
=============================================================================
