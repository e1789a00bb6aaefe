----------------------------- MODULE MCHostMirror -----------------------------
(* Instances of HostMirror for TLC. *)
EXTENDS HostMirror, TLC

CONSTANTS k1, k2

TwoKeys == {k1, k2}
Symmetry == Permutations(TwoKeys)

FairMirror == MirrorSpec /\ MirrorFairness
==============================================================================
