---------------------------- MODULE MCEthDriver ----------------------------
(* Three buffers: in two segments, with a number beyond the first 64 KiB. *)
EXTENDS EthDriver

MCRom == <<<<0, 0>>, <<3, 63>>, <<1, 50>>>>
=============================================================================
