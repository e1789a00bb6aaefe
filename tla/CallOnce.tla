------------------------------- MODULE CallOnce -------------------------------
(***************************************************************************)
(* What a host's connection promises to those who call through it: a call  *)
(* runs on the host at most once, whatever becomes of the connection; one  *)
(* that was refused, or whose caller left before it was under way, never   *)
(* runs; an answer is the answer of a run; and what was answered, refused  *)
(* or failed stays so.                                                     *)
(***************************************************************************)
EXTENDS Naturals

CONSTANT Calls

VARIABLES
    status,  \* what the caller has been told
    gone,    \* the calls that are on their way, or were
    ran      \* how often the host has run a call

callVars == <<status, gone, ran>>

Init ==
    /\ status = [c \in Calls |-> "idle"]
    /\ gone = {}
    /\ ran = [c \in Calls |-> 0]

Open(c) ==
    /\ status[c] = "idle"
    /\ status' = [status EXCEPT ![c] = "open"]
    /\ UNCHANGED <<gone, ran>>

Refuse(c) ==
    /\ status[c] = "idle"
    /\ status' = [status EXCEPT ![c] = "refused"]
    /\ UNCHANGED <<gone, ran>>

Commit(c) ==
    /\ status[c] = "open" /\ c \notin gone
    /\ gone' = gone \cup {c}
    /\ UNCHANGED <<status, ran>>

\* A call under way may run after its caller was told that it failed.
Run(c) ==
    /\ c \in gone /\ ran[c] = 0
    /\ ran' = [ran EXCEPT ![c] = 1]
    /\ UNCHANGED <<status, gone>>

Answer(c) ==
    /\ status[c] = "open" /\ ran[c] = 1
    /\ status' = [status EXCEPT ![c] = "answered"]
    /\ UNCHANGED <<gone, ran>>

\* A lost connection fails several calls at once.
Fail(C) ==
    /\ \A c \in C : status[c] = "open"
    /\ status' = [c \in Calls |-> IF c \in C THEN "failed" ELSE status[c]]
    /\ UNCHANGED <<gone, ran>>

Next ==
    \/ \E c \in Calls : Open(c) \/ Refuse(c) \/ Commit(c) \/ Run(c) \/ Answer(c)
    \/ \E C \in SUBSET Calls : Fail(C)

Spec == Init /\ [][Next]_callVars
==============================================================================
