------------------------------ MODULE Station ------------------------------
(***************************************************************************)
(* What a flash station promises to the operator who puts a board into it: *)
(* the board is written once or not at all, with the image the server      *)
(* names for it, and then the lamp says for good whether it is complete.   *)
(* FlashApp implements it.                                                 *)
(***************************************************************************)
CONSTANTS
    Files,   \* images
    Hash     \* the hash of each image

VARIABLES
    wanted,  \* the hash the server named, "zero" before
    device,  \* what the board holds: "old", "partial" or an image
    lamp     \* "off", "green" or "yellow"

Init == wanted = "zero" /\ device = "old" /\ lamp = "off"

(* The server names an image. *)
Choose ==
    /\ lamp = "off" /\ device = "old"
    /\ wanted' \in {Hash[f] : f \in Files} \cup {"zero"}
    /\ UNCHANGED <<device, lamp>>

(* The only attempt to write the board, which may fail on the way. *)
Write ==
    /\ lamp = "off" /\ device = "old"
    /\ device' \in {f \in Files : Hash[f] = wanted} \cup {"partial"}
    /\ UNCHANGED <<wanted, lamp>>

(* The verdict, which is final. *)
Show ==
    /\ lamp = "off"
    /\ lamp' = IF device \in Files THEN "green" ELSE "yellow"
    /\ UNCHANGED <<wanted, device>>

Next == Choose \/ Write \/ Show

Spec == Init /\ [][Next]_<<wanted, device, lamp>>
=============================================================================
