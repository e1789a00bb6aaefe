---------------------------- MODULE MCSessionTable ----------------------------
(* Instances of SessionTable for TLC. *)
EXTENDS SessionTable

CONSTANTS k1, k2

OneKey  == {k1}
TwoKeys == {k1, k2}

FairTable == TableSpec /\ TableFairness
==============================================================================
