--------------------------- MODULE ConnectionTask ---------------------------
(***************************************************************************)
(* The connection task of one remote host (backend/mod.rs), the wake and   *)
(* network check beside it (backend/recovery.rs), and the dashboard's      *)
(* threads that call the host through it.                                  *)
(*                                                                         *)
(* The task dials, serves and waits in a loop.  Callers put requests in a  *)
(* channel that outlives every connection; a connection keeps those it has *)
(* written in a table of its own.  HostMirror models what the host pushes. *)
(***************************************************************************)
EXTENDS Naturals, Sequences, FiniteSets, SequencesExt

CONSTANTS
    Calls,      \* requests of the dashboard; each is sent once
    Probe,      \* the request of a wake or network check
    MaxEvents,  \* bound: wake and network events
    BackoffCap  \* RECONNECT_MAX, in doublings of RECONNECT_INITIAL

ASSUME ConnectionTaskAssumption ==
    /\ MaxEvents \in Nat /\ BackoffCap \in Nat
    /\ Probe \notin Calls /\ "stale" \notin Calls \cup {Probe}

VARIABLES
    pc,        \* where the task is: "top", "setup", "connect", "handshake",
               \* "serving", "waiting" or "done"
    conn,      \* the state it shows: ConnState
    standing,  \* standing_failure is Some
    gate,      \* a declined deploy is remembered
    probeCache,\* the host's last probe may be reused
    backoff,   \* doublings of the next wait
    healthy,   \* the connection is RECONNECT_HEALTHY old
    event,     \* the watch channel has changed
    events,    \* events so far
    probing,   \* a check is under way
    recovery,  \* recovery_active
    queue,     \* the request channel; a closed probe stays as "stale"
    pending,   \* requests written on this connection
    call,      \* what each call's thread has reached
    retired,   \* the task is told to abort
    wire,      \* requests under way to the host on this connection
    late,      \* calls that were under way on one that is gone
    runs,      \* how often the host ran a call
    replies,   \* answers under way on this connection
    waits      \* waits since the link was last healthy or checked

taskVars  == <<pc, conn, standing, gate, probeCache, backoff, healthy, waits>>
watchVars == <<event, probing, recovery>>
callVars  == <<queue, pending, call>>
hostVars  == <<wire, late, runs, replies>>
vars == <<taskVars, watchVars, callVars, hostVars, events, retired>>

Down == {"disconnected", "failed"}

Init ==
    /\ pc = "top" /\ conn = "connecting"
    /\ standing = FALSE /\ gate = FALSE /\ probeCache = FALSE
    /\ backoff = 0 /\ healthy = FALSE /\ waits = 0
    /\ event = FALSE /\ events = 0 /\ probing = FALSE /\ recovery = FALSE
    /\ queue = <<>> /\ pending = {}
    /\ call = [c \in Calls |-> "idle"]
    /\ retired = FALSE
    /\ wire = {} /\ late = {} /\ runs = [c \in Calls |-> 0] /\ replies = {}
-----------------------------------------------------------------------------
(* Callers.  The state is read before the request is sent.                  *)

(* enqueue: a host that is down is not asked.                               *)
CheckState(c) ==
    /\ call[c] = "idle"
    /\ call' = [call EXCEPT ![c] = IF conn \in Down THEN "refused" ELSE "checked"]
    /\ UNCHANGED <<taskVars, watchVars, queue, pending, hostVars, events, retired>>

SendRequest(c) ==
    /\ call[c] = "checked"
    /\ IF pc = "done"
       THEN /\ call' = [call EXCEPT ![c] = "refused"]
            /\ UNCHANGED queue
       ELSE /\ call' = [call EXCEPT ![c] = "open"]
            /\ queue' = Append(queue, c)
    /\ UNCHANGED <<taskVars, watchVars, pending, hostVars, events, retired>>

(* The caller's deadline; what it sent stays where it is.                   *)
GiveUp(c) ==
    /\ call[c] = "open"
    /\ call' = [call EXCEPT ![c] = "failed"]
    /\ UNCHANGED <<taskVars, watchVars, queue, pending, hostVars, events, retired>>

(* The reply channels of R are dropped.                                     *)
Dropped(R) == [c \in Calls |-> IF c \in R /\ call[c] = "open" THEN "failed" ELSE call[c]]

(* A request nobody waits for any more.                                     *)
Closed(r) == IF r \in Calls THEN call[r] # "open" ELSE r = "stale"

(* A check ends: its request, wherever it is, has lost its receiver.        *)
WithoutProbe(q) == [i \in DOMAIN q |-> IF q[i] = Probe THEN "stale" ELSE q[i]]
-----------------------------------------------------------------------------
(* Dialling.                                                                *)

(* The top of the loop: a diagnosis stands until an attempt concludes       *)
(* something else.                                                          *)
Dial ==
    /\ pc = "top"
    /\ pc' = "setup"
    /\ conn' = IF standing THEN conn ELSE "connecting"
    /\ UNCHANGED <<standing, gate, probeCache, backoff, healthy, waits, watchVars, callVars,
                   hostVars, events, retired>>

(* wait_before_retry, on entry.                                             *)
BackOff(from) ==
    /\ backoff' = IF from < BackoffCap THEN from + 1 ELSE from
    /\ waits' = IF waits < BackoffCap THEN waits + 1 ELSE waits

SetupFails(diagnosed, declined) ==
    /\ pc = "setup"
    /\ declined => diagnosed /\ ~gate
    /\ standing' = diagnosed
    /\ gate' = (gate \/ declined)
    /\ probeCache' = FALSE
    /\ conn' = IF diagnosed THEN "failed" ELSE "disconnected"
    /\ pc' = "waiting"
    /\ BackOff(backoff)
    /\ UNCHANGED <<healthy, watchVars, callVars, hostVars, events, retired>>

(* A host whose deploy was declined may still have a server to try.         *)
SetupDone(declined) ==
    /\ pc = "setup"
    /\ declined => ~gate
    /\ gate' = (gate \/ declined)
    /\ probeCache' = ~declined
    /\ pc' = "connect"
    /\ UNCHANGED <<conn, standing, backoff, healthy, waits, watchVars, callVars,
                   hostVars, events, retired>>

(* connect_with_retry gives up.                                             *)
ConnectFails ==
    /\ pc = "connect"
    /\ standing' = FALSE
    /\ probeCache' = FALSE
    /\ conn' = "disconnected"
    /\ pc' = "waiting"
    /\ BackOff(backoff)
    /\ UNCHANGED <<gate, healthy, watchVars, callVars, hostVars, events, retired>>

Connects ==
    /\ pc = "connect"
    /\ pc' = "handshake"
    /\ healthy' = FALSE
    /\ UNCHANGED <<conn, standing, gate, probeCache, backoff, waits, watchVars,
                   callVars, hostVars, events, retired>>

(* A mutant of Connected: the recovery goes on.                             *)
Connected_Recovering ==
    /\ pc = "handshake"
    /\ pc' = "serving"
    /\ conn' = "connected"
    /\ UNCHANGED <<standing, gate, probeCache, backoff, healthy, waits, watchVars,
                   callVars, hostVars, events, retired>>

(* The handshake is done and the subscription sent: connected().            *)
Connected ==
    /\ pc = "handshake"
    /\ pc' = "serving"
    /\ conn' = "connected"
    /\ recovery' = FALSE
    /\ UNCHANGED <<standing, gate, probeCache, backoff, healthy, waits, event, probing,
                   callVars, hostVars, events, retired>>

(* RECONNECT_HEALTHY has passed.                                            *)
Ages ==
    /\ pc = "serving" /\ ~healthy
    /\ healthy' = TRUE
    /\ waits' = 0
    /\ UNCHANGED <<pc, conn, standing, gate, probeCache, backoff, watchVars, callVars,
                   hostVars, events, retired>>
-----------------------------------------------------------------------------
(* Serving.                                                                 *)

Written(r) ==
    /\ queue' = Tail(queue)
    /\ pending' = {p \in pending : ~Closed(p)} \cup {r}
    /\ wire' = wire \cup {r}

(* The next request is taken; one whose caller has given up is not sent.    *)
TakeRequest ==
    /\ pc = "serving" /\ queue # <<>>
    /\ IF Closed(Head(queue))
       THEN /\ queue' = Tail(queue)
            /\ UNCHANGED <<pending, wire>>
       ELSE Written(Head(queue))
    /\ UNCHANGED <<taskVars, watchVars, call, late, runs, replies, events, retired>>

(* The host runs what reached it, also after the connection is gone; an     *)
(* answer goes the way the request came.                                    *)
HostRuns(r) ==
    /\ r \in wire
    /\ wire' = wire \ {r}
    /\ runs' = IF r \in Calls THEN [runs EXCEPT ![r] = @ + 1] ELSE runs
    /\ replies' = replies \cup {r}
    /\ UNCHANGED <<taskVars, watchVars, callVars, late, events, retired>>

HostRunsLate(c) ==
    /\ c \in late
    /\ late' = late \ {c}
    /\ runs' = [runs EXCEPT ![c] = @ + 1]
    /\ UNCHANGED <<taskVars, watchVars, callVars, wire, replies, events, retired>>

(* A healthy check takes the events that came meanwhile with it.            *)
ReplyArrives(r) ==
    /\ pc = "serving" /\ r \in replies
    /\ replies' = replies \ {r}
    /\ pending' = pending \ {r}
    /\ IF r = Probe
       THEN /\ probing' = FALSE /\ recovery' = FALSE /\ event' = FALSE
            /\ UNCHANGED call
       ELSE /\ call' = IF r \in pending /\ call[r] = "open"
                       THEN [call EXCEPT ![r] = "answered"] ELSE call
            /\ UNCHANGED watchVars
    /\ UNCHANGED <<taskVars, queue, wire, late, runs, events, retired>>

(* A mutant of Ends: what had no answer is asked again.                     *)
Ends_Requeues ==
    /\ queue' = WithoutProbe(queue \o SetToSeq(pending \cap Calls))
    /\ UNCHANGED call
    /\ pending' = {} /\ replies' = {} /\ probing' = FALSE
    /\ wire' = {} /\ late' = late \cup (wire \cap Calls)

(* The serving future ends, and drops its table with the reply channels in  *)
(* it; nothing it wrote is asked again.                                     *)
Ends ==
    /\ queue' = WithoutProbe(queue)
    /\ call' = Dropped(pending)
    /\ pending' = {} /\ replies' = {} /\ probing' = FALSE
    /\ wire' = {} /\ late' = late \cup (wire \cap Calls)

(* The connection is lost.  During a check the task redials at once; so it  *)
(* does when the check had no answer in time.                               *)
Lost ==
    /\ pc = "serving"
    /\ Ends
    /\ gate' = FALSE
    /\ standing' = FALSE
    /\ conn' = "disconnected"
    /\ IF probing
       THEN pc' = "top" /\ backoff' = 0 /\ waits' = 0
       ELSE pc' = "waiting" /\ BackOff(IF healthy THEN 0 ELSE backoff)
    /\ UNCHANGED <<probeCache, healthy, event, recovery, runs, events, retired>>

(* The check has no answer, be it that the handshake is not done: Stalled.  *)
Stalls ==
    /\ pc \in {"handshake", "serving"} /\ probing
    /\ Ends
    /\ gate' = FALSE
    /\ standing' = FALSE
    /\ conn' = "disconnected"
    /\ pc' = "top" /\ backoff' = 0 /\ waits' = 0
    /\ UNCHANGED <<probeCache, healthy, event, recovery, runs, events, retired>>

(* The handshake is refused, with a reason or without one, or times out.    *)
HandshakeFails(reason) ==
    /\ pc = "handshake"
    /\ Ends
    /\ probeCache' = FALSE
    /\ standing' = reason
    /\ conn' = IF reason THEN "failed" ELSE "disconnected"
    /\ IF probing
       THEN pc' = "top" /\ backoff' = 0 /\ waits' = 0
       ELSE pc' = "waiting" /\ BackOff(backoff)
    /\ UNCHANGED <<gate, healthy, event, recovery, runs, events, retired>>
-----------------------------------------------------------------------------
(* Wake and network events.                                                 *)

NetworkChanges ==
    /\ events < MaxEvents
    /\ events' = events + 1
    /\ event' = TRUE
    /\ UNCHANGED <<taskVars, probing, recovery, callVars, hostVars, retired>>

(* watch_connection: an event starts a check, over the request channel.     *)
ProbeStarts ==
    /\ pc \in {"handshake", "serving"} /\ event /\ ~probing
    /\ event' = FALSE
    /\ probing' = TRUE /\ recovery' = TRUE
    /\ queue' = Append(queue, Probe)
    /\ UNCHANGED <<taskVars, pending, call, hostVars, events, retired>>

(* An event bypasses the wait.                                              *)
WaitWoken ==
    /\ pc = "waiting" /\ event
    /\ event' = FALSE
    /\ recovery' = TRUE
    /\ backoff' = 0 /\ waits' = 0
    /\ pc' = "top"
    /\ UNCHANGED <<conn, standing, gate, probeCache, healthy, probing, callVars,
                   hostVars, events, retired>>

WaitEnds ==
    /\ pc = "waiting"
    /\ pc' = "top"
    /\ UNCHANGED <<conn, standing, gate, probeCache, backoff, healthy, waits, watchVars,
                   callVars, hostVars, events, retired>>

(* A mutant of WaitTakes: requests wait with the task.                      *)
WaitTakes_Keeps ==
    /\ pc = "waiting" /\ queue # <<>> /\ Closed(Head(queue))
    /\ queue' = Tail(queue)
    /\ UNCHANGED <<taskVars, watchVars, pending, call, hostVars, events, retired>>

(* Requests that race in while the task waits fail at once.                 *)
WaitTakes ==
    /\ pc = "waiting" /\ queue # <<>>
    /\ queue' = Tail(queue)
    /\ call' = Dropped({Head(queue)})
    /\ UNCHANGED <<taskVars, watchVars, pending, hostVars, events, retired>>
-----------------------------------------------------------------------------
(* retire: the host is removed.  The abort lands at the task's next pause,  *)
(* and takes the channel with it.                                           *)
Retire ==
    /\ ~retired
    /\ retired' = TRUE
    /\ conn' = "disconnected"
    /\ UNCHANGED <<pc, standing, gate, probeCache, backoff, healthy, waits, watchVars,
                   callVars, hostVars, events>>

AbortLands ==
    /\ retired /\ pc # "done"
    /\ pc' = "done"
    /\ call' = [c \in Calls |-> IF call[c] = "open" THEN "failed" ELSE call[c]]
    /\ queue' = <<>> /\ pending' = {} /\ replies' = {} /\ probing' = FALSE
    /\ wire' = {} /\ late' = late \cup (wire \cap Calls)
    /\ UNCHANGED <<conn, standing, gate, probeCache, backoff, healthy, waits, event,
                   recovery, runs, events, retired>>
-----------------------------------------------------------------------------
SetupEnds   == \E b, d \in BOOLEAN : SetupFails(b, d) \/ SetupDone(d)
ConnectEnds == ConnectFails \/ Connects
ServeEnds   == Lost \/ Stalls \/ \E b \in BOOLEAN : HandshakeFails(b)

Next ==
    \/ Dial \/ SetupEnds \/ ConnectEnds \/ Connected \/ Ages
    \/ ServeEnds \/ TakeRequest
    \/ \E r \in Calls \cup {Probe} : HostRuns(r) \/ ReplyArrives(r)
    \/ NetworkChanges \/ ProbeStarts \/ WaitWoken \/ WaitEnds \/ WaitTakes
    \/ \E c \in Calls : CheckState(c) \/ SendRequest(c) \/ GiveUp(c) \/ HostRunsLate(c)
    \/ Retire \/ AbortLands

Spec == Init /\ [][Next]_vars

(* Every await of the task has a deadline, and requests that are there are  *)
(* taken before a wait is over.  Neither the host nor the callers' deadlines *)
(* are relied on.                                                           *)
FairSpec ==
    /\ Spec
    /\ WF_vars(Dial) /\ WF_vars(SetupEnds) /\ WF_vars(ConnectEnds)
    /\ WF_vars(Connected \/ \E b \in BOOLEAN : HandshakeFails(b))
    /\ WF_vars(TakeRequest) /\ WF_vars(Stalls)
    /\ WF_vars(WaitEnds) /\ SF_vars(WaitTakes) /\ WF_vars(AbortLands)
    /\ \A r \in Calls \cup {Probe} : WF_vars(ReplyArrives(r))
-----------------------------------------------------------------------------
(* Types, and that requests are on a connection only while it serves.       *)
ConnectionTypeOK ==
    /\ pc \in {"top", "setup", "connect", "handshake", "serving", "waiting", "done"}
    /\ conn \in {"connecting", "connected"} \cup Down
    /\ {standing, gate, probeCache, healthy, event, probing, recovery, retired} \subseteq BOOLEAN
    /\ backoff \in 0..BackoffCap /\ events \in 0..MaxEvents
    /\ waits \in 0..BackoffCap
    /\ queue \in Seq(Calls \cup {Probe, "stale"})
    /\ pending \subseteq Calls \cup {Probe} /\ replies \subseteq Calls \cup {Probe}
    /\ call \in [Calls -> {"idle", "refused", "checked", "open", "answered", "failed"}]
    /\ wire \subseteq Calls \cup {Probe} /\ late \subseteq Calls
    /\ pc # "serving" => pending \cup wire \cup replies = {}

(* What the task remembers from one attempt to the next is true: a          *)
(* connection that is served is under recovery only while a check of it     *)
(* runs, and a diagnosis that is kept is the one that is shown.             *)
MemoryIsTrue ==
    /\ pc = "serving" /\ recovery => probing
    /\ pc \in {"top", "setup", "connect", "handshake", "waiting"} /\ standing /\ ~retired
          => conn = "failed"

(* Link after link that drops young is dialled at growing intervals: only a *)
(* link that lasted, or an event, shortens the wait.                        *)
Flapping == backoff >= waits

(* No caller is left in the channel, though its own deadline may never come *)
(* and the host may never answer or never be reached.                       *)
LeavesQueue ==
    \A c \in Calls : (call[c] = "open" /\ c \notin pending) ~> (call[c] # "open" \/ c \in pending)

(* A call runs once at most, one that was refused or given up in the channel *)
(* never, and an answer is never that of another connection's run.          *)
Promise == INSTANCE CallOnce WITH
    status <- [c \in Calls |-> IF call[c] = "checked" THEN "idle" ELSE call[c]],
    gone <- {c \in Calls : c \in wire \cup late \/ runs[c] > 0},
    ran <- runs

ImplementsCallOnce == Promise!Spec
==============================================================================
