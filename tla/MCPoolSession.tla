---------------------------- MODULE MCPoolSession ----------------------------
(* Instances of PoolSession for TLC. *)
EXTENDS PoolSession, TLC

CONSTANTS c1, c2, c3

TwoClients   == {c1, c2}
ThreeClients == {c1, c2, c3}
OneForced    == {c3}
NoneForced   == {}

\* The clients that do not steal are interchangeable.
PlainClients == Permutations(Clients \ Forced)

FairSpec == Spec /\ Fairness
==============================================================================
