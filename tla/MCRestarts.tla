----------------------------- MODULE MCRestarts -----------------------------
EXTENDS Restarts
CONSTANTS c, a
MCKeys == {c, a}
MCCodex == {c}
MCRevived == {}
=============================================================================
