----------------------------- MODULE MCNetBoot -----------------------------
(* Small instances of NetBoot for TLC. *)
EXTENDS NetBoot, TLC

CONSTANTS f1, f2
MCFiles == {f1, f2}
MCBlocks == (f1 :> 4) @@ (f2 :> 1)
MCOptionSets == {{"netmask"}, {"netmask", "router"}, {"netmask", "router", "dns", "boot"}}
=============================================================================
