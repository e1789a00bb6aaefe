----------------------------- MODULE MCForwards -----------------------------
(* Two rules of one target, two backends, of one host entry or of two.      *)
EXTENDS Forwards

CONSTANTS f1, f2
MCRules == {f1, f2}
MCSaved == {{f1}}
MCEdited == {{}, {f1}, {f2}}
=============================================================================
