--------------------------- MODULE MCWindowBindings ---------------------------
(* Instances of WindowBindings for TLC. *)
EXTENDS WindowBindings, TLC

CONSTANTS t1, t2

OneToken  == {t1}
TwoTokens == {t1, t2}

Interchangeable == Permutations(Tokens)
==============================================================================
