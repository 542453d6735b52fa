---------------------------- MODULE MCInfoFile ----------------------------
(* All files over a newline, two digits and one other character, up to     *)
(* MaxLen characters.                                                      *)
EXTENDS InfoFile

CONSTANT MaxLen

MCFiles == UNION {[1..n -> {NL, Other, 1, 10}] : n \in 0..MaxLen}
=============================================================================
