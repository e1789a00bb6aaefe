--------------------------- MODULE MCCodexCleanup ---------------------------
(* Two conversations, the TUI and its picker, one removal that may force,   *)
(* and two daemons, of which the second is of an older version.             *)
EXTENDS CodexCleanup, TLC

CONSTANTS t1, t2, k1, main, picker

TwoThreads   == {t1, t2}
OneKiller    == {k1}
OnePicker    == {picker}
FirstOrdered == {1}
Symmetry     == Permutations(TwoThreads)
=============================================================================
