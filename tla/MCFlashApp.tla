----------------------------- MODULE MCFlashApp -----------------------------
(* Two images, and labels that fail each test of readFDL alone or pass. *)
EXTENDS FlashApp

MCHash == [f \in Files |-> "hash_" \o f]

Good == [detect |-> TRUE, read |-> TRUE, start |-> TRUE, end |-> TRUE,
         label |-> FdlSize + 32, content |-> FdlSize, crc |-> TRUE]

MCLabels ==
    {Good,
     [Good EXCEPT !.detect = FALSE], [Good EXCEPT !.read = FALSE],
     [Good EXCEPT !.start = FALSE], [Good EXCEPT !.end = FALSE],
     [Good EXCEPT !.label = 0], [Good EXCEPT !.crc = FALSE],
     [Good EXCEPT !.label = FdlSize + 33, !.content = FdlSize + 1]}
=============================================================================
