--------------------------- MODULE MCSessionFlags ---------------------------
(* Instances of SessionFlags for TLC. *)
EXTENDS SessionFlags, TLC

CONSTANTS daemon, dash, k1, k2

OneKey  == {k1}
TwoKeys == {k1, k2}
Both    == {daemon, dash}

\* A pin that acknowledges.
PinOnly == {[pinned |-> TRUE, follow_up |-> FALSE]}

FairSpec == Spec /\ Fairness(daemon)
=============================================================================
