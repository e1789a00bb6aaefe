--------------------------- MODULE MCConnectionTask ---------------------------
(* Instances of ConnectionTask for TLC. *)
EXTENDS ConnectionTask

CONSTANTS c1, c2

TwoCalls == {c1, c2}
==============================================================================
