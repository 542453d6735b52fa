------------------------------ MODULE MCSha384 ------------------------------
(* Messages of up to two blocks and a byte. *)
EXTENDS Sha384

MCSizes == 0..257
=============================================================================
