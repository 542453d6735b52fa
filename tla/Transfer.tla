------------------------------ MODULE Transfer ------------------------------
(***************************************************************************)
(* What a download promises to the program that asks for it, whatever the  *)
(* protocol: data only ever arrives behind the data that is there already, *)
(* a download that reports success has got as much as was announced, and   *)
(* what it has got does not change any more until the next one is started. *)
(* HttpDownload and the TFTP client of NetBoot implement it.               *)
(***************************************************************************)
EXTENDS Integers

CONSTANT Sizes     \* sizes that may be announced

VARIABLES
  status,   \* "running", "done" after a success, "off" otherwise
  size,     \* the announced size, -1 if none was
  got       \* how much has arrived

Unannounced == -1

Init == status = "off" /\ size \in Sizes \cup {Unannounced} /\ got = 0

(* The program asks for a download, which starts or fails at once. *)
Start ==
  /\ status # "running"
  /\ status' \in {"running", "off"}
  /\ size' \in Sizes \cup {Unannounced}
  /\ got' = 0

(* More data arrives, and it may have been the last. *)
Receive ==
  /\ status = "running"
  /\ got' > got
  /\ status' \in {"running", "done"}
  /\ status' = "done" => size \in {Unannounced, got'}
  /\ UNCHANGED size

(* The end without more data. *)
Finish ==
  /\ status = "running"
  /\ status' \in {"done", "off"}
  /\ status' = "done" => size \in {Unannounced, got}
  /\ UNCHANGED <<size, got>>

Next == Start \/ Receive \/ Finish

Spec == Init /\ [][Next]_<<status, size, got>>
=============================================================================
