---------------------------- MODULE MCPoolDaemon ----------------------------
(* Instances of PoolDaemon for TLC. *)
EXTENDS PoolDaemon, TLC

CONSTANTS d1, d2, l1, l2, p1, p2, s1

TwoDaemons   == {d1, d2}
OneLauncher  == {l1}
TwoLaunchers == {l1, l2}
TwoPids      == {p1, p2}
OneStop      == {s1}
NoStop       == {}

Interchangeable ==
    Permutations(Daemons) \cup Permutations(Launchers) \cup Permutations(Pids)
==============================================================================
