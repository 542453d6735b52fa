------------------------------- MODULE MCMem -------------------------------
(* A heap of up to four blocks and a pool of three pbufs. The size 253 and  *)
(* the length 93 are rounded to numbers beyond their widths. The elements   *)
(* of the pool are alike.                                                   *)
EXTENDS Pbuf

PoolSymmetry == Permutations(PoolElems)
=============================================================================
