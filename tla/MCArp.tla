------------------------------- MODULE MCArp -------------------------------
(* An instance of Arp for TLC: two local hosts beside the gateway, so that  *)
(* more addresses are in use than the cache has entries.                   *)
EXTENDS Arp, TLC

CONSTANTS gw, a, b, r, bc, f1, f2, f3, none

MCHosts == {gw, a, b}
MCPeers == {a, b}
MCRemote == {r}
MCFrames == {f1, f2, f3}
=============================================================================
