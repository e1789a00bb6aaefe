----------------------------- MODULE HostAccount -----------------------------
(***************************************************************************)
(* What a dashboard is promised about a host it mirrors: an account of the *)
(* host's sessions that may lag and may be missing, but that only ever     *)
(* moves forward through what the host was.  A session once seen to be     *)
(* gone is never listed again, and a key never falls back to an earlier    *)
(* session that had it, also across disconnections.                        *)
(*                                                                         *)
(* This is the abstract specification of HostMirror.                       *)
(***************************************************************************)
EXTENDS Naturals

CONSTANTS
    Keys,     \* session keys: launcher pids, recycled by the host
    MaxGen    \* bound: sessions that have one key, one after the other

VARIABLES
    host,     \* the host's row for each key
    view,     \* the last account the dashboard had of it
    known     \* does it have one now?

Row == [gen : 0..MaxGen, live : BOOLEAN, attached : BOOLEAN]

Absent(g) == [gen |-> g, live |-> FALSE, attached |-> FALSE]
NoRows    == [k \in Keys |-> Absent(0)]

\* s is what r is or became.
NotAfter(r, s) == r.gen < s.gen \/ (r.gen = s.gen /\ (s.live => r.live))

Init ==
    /\ host \in [Keys -> Row]
    /\ view = NoRows
    /\ known = FALSE

HostMoves(k) ==
    /\ \E r \in Row : NotAfter(host[k], r) /\ host' = [host EXCEPT ![k] = r]
    /\ UNCHANGED <<view, known>>

Learns(k, r) == NotAfter(view[k], r) /\ NotAfter(r, host[k])

\* News of one session.
Update(k) ==
    /\ known
    /\ \E r \in Row : Learns(k, r) /\ view' = [view EXCEPT ![k] = r]
    /\ UNCHANGED <<host, known>>

\* A full account, where there was none.
Snapshot ==
    /\ ~known
    /\ view' \in [Keys -> Row]
    /\ \A k \in Keys : Learns(k, view'[k])
    /\ known' = TRUE
    /\ UNCHANGED host

Lose ==
    /\ known' = FALSE
    /\ UNCHANGED <<host, view>>

Next ==
    \/ \E k \in Keys : HostMoves(k) \/ Update(k)
    \/ Snapshot
    \/ Lose

Spec == Init /\ [][Next]_<<host, view, known>>
==============================================================================
