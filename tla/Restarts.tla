------------------------------ MODULE Restarts ------------------------------
(***************************************************************************)
(* The restart queue of the dashboard (app/restart.rs) and the event loop  *)
(* that drives it (advance_restart and handle_tick of app/run.rs).         *)
(*                                                                         *)
(* A restart ends a session and opens a window that resumes its thread.    *)
(* Most agents are ended first.  A Codex replacement is opened first and   *)
(* waits on the host until the old session is gone (wait_for_handoff).     *)
(* Cleanup and opening run beside the loop and may outlive their deadline. *)
(*                                                                         *)
(* Jobs that wait in one place are taken in any order; the code takes them *)
(* in the order they came.                                                 *)
(***************************************************************************)
EXTENDS Naturals, Sequences, FiniteSets

CONSTANTS
    Keys,       \* sessions of one remote host that may be restarted
    Codex,      \* those that run Codex
    Revived,    \* those that died with an earlier dashboard: kill_old is false
    MaxReps,    \* bound: replacements opened
    MaxBatches, \* bound: restarts the user confirms
    MaxTroubles,\* bound: losses of the link, and times other operations take all the room
    None

ASSUME RestartsAssumption ==
    /\ Codex \subseteq Keys /\ Revived \subseteq Keys
    /\ IsFiniteSet(Keys)
    /\ MaxReps \in Nat /\ MaxBatches \in Nat /\ MaxTroubles \in Nat

VARIABLES
    jobs,      \* every Job, and the place it is in
    pending,   \* Restarts.pending
    tracked,   \* pending_replacements: the token of a replacement, seen or not
    failed,    \* Restarts.failed: the job whose replacement may still attach
    batches,   \* what each batch has finished of its total
    nextBatch,
    offered,   \* sessions the table, or a prompt still open, offers to restart
    full,      \* operations.has_capacity() is false
    old,       \* the sessions on the host
    asked,     \* those with a kill request under way
    reps,      \* the replacement windows ever opened
    aged,      \* replacements with no retry budget left
    mirrored,  \* a Snapshot is in since the link came up
    troubles   \* losses and fillings so far

queueVars == <<jobs, pending, tracked, failed, batches, nextBatch>>
hostVars  == <<old, asked, reps, aged>>
envVars   == <<full, mirrored, troubles>>
vars == <<queueVars, offered, hostVars, envVars>>

Tokens  == 1..MaxReps
Batches == 1..MaxBatches
Waiting == {"queued", "opening", "opened", "refused", "cleaning"}
Done    == {"ended", "unconfirmed"}
Job == [key : Keys, batch : Batches, at : Waiting \cup Done, token : {0} \cup Tokens,
        seen : BOOLEAN, reuse : BOOLEAN, confirmed : BOOLEAN]
Sight == [token : Tokens, seen : BOOLEAN]
Batch == [total : Nat, finished : Nat]
Replacement == [key : Keys, st : {"spawned", "waiting", "running", "failed", "gone"},
                told : BOOLEAN, settled : BOOLEAN]

ASSUME NoneAssumption == None \notin Job \cup Sight \cup Batch

Init ==
    /\ jobs = {} /\ pending = {}
    /\ tracked = [k \in Keys |-> None]
    /\ failed = [k \in Keys |-> None]
    /\ batches = [b \in Batches |-> None] /\ nextBatch = 0
    /\ offered = Keys
    /\ old = [k \in Keys |-> IF k \in Revived THEN "gone" ELSE "live"]
    /\ asked = {} /\ reps = <<>> /\ aged = {}
    /\ full = FALSE /\ mirrored = TRUE /\ troubles = 0
-----------------------------------------------------------------------------
(* Reading the queue.                                                       *)

(* The row of replacement n on the host.  That the mirror has it later      *)
(* tells no behaviour apart: what a job reads there it uses later still.    *)
RowOf(n) ==
    CASE reps[n].st \in {"waiting", "running"} -> "present"
      [] reps[n].st = "failed" -> "failed"
      [] OTHER -> "missing"

(* Backend::binding_presence: the host's account, not the drawn rows.       *)
Presence(n) == IF mirrored THEN RowOf(n) ELSE "unknown"

HasRetryBudget(j) == j.key \notin Codex \/ j.token \notin aged

NeedsCleanupFirst(j) == j.key \notin Revived \cup Codex /\ ~j.confirmed

(* A failed restart is retried on the replacement that waits for it, or     *)
(* anew when that one is known not to attach any more.                      *)
Reuses(k) ==
    /\ failed[k] # None
    /\ Presence(failed[k].token) = "present"
    /\ HasRetryBudget(failed[k])

(* A mutant of Anew: a replacement that has no row has ended.               *)
Anew_Unseen(k) ==
    \/ failed[k] = None
    \/ Presence(failed[k].token) \in {"failed", "missing"}

Anew(k) ==
    \/ failed[k] = None
    \/ Presence(failed[k].token) = "failed"
    \/ Presence(failed[k].token) = "missing" /\ failed[k].seen

(* The row of replacement n has been in the mirror.                         *)
Sighted(k) ==
    /\ tracked[k] # None
    /\ tracked[k].seen \/ Presence(tracked[k].token) \in {"present", "failed"}
-----------------------------------------------------------------------------
(* The queue.                                                               *)

(* The user confirms the restart of S.  The prompt for sessions that died   *)
(* with an earlier dashboard is asked once.                                 *)
Enqueue(S) ==
    LET batch == nextBatch + 1
        taken == {k \in S \ pending : Reuses(k) \/ Anew(k)}
        JobOf(k) ==
            IF Reuses(k)
            THEN [failed[k] EXCEPT !.batch = batch, !.reuse = TRUE, !.at = "queued"]
            ELSE [key |-> k, batch |-> batch, at |-> "queued", token |-> 0,
                  seen |-> FALSE, reuse |-> FALSE, confirmed |-> FALSE]
    IN  /\ nextBatch < MaxBatches
        /\ S # {} /\ S \subseteq offered
        /\ nextBatch' = batch
        /\ jobs' = jobs \cup {JobOf(k) : k \in taken}
        /\ pending' = pending \cup taken
        /\ failed' = [k \in Keys |-> IF k \in taken THEN None ELSE failed[k]]
        /\ batches' = IF taken = {} THEN batches
                      ELSE [batches EXCEPT ![batch] =
                               [total |-> Cardinality(taken), finished |-> 0]]
        /\ offered' = offered \ (S \cap Revived)
        /\ UNCHANGED <<tracked, hostVars, envVars>>

Move(j, i) == jobs' = (jobs \ {j}) \cup {i}

(* A mutant of Track: a job without a replacement is tracked.               *)
Track_Unopened(j) ==
    tracked' = IF tracked[j.key] = None
               THEN [tracked EXCEPT ![j.key] = [token |-> j.token, seen |-> j.seen]]
               ELSE tracked

(* track_replacement *)
Track(j) ==
    tracked' = IF j.token # 0 /\ tracked[j.key] = None
               THEN [tracked EXCEPT ![j.key] = [token |-> j.token, seen |-> j.seen]]
               ELSE tracked

(* The completion of job i, once j, is sent to the loop.                    *)
Finish(j, i, outcome) ==
    /\ Move(j, [i EXCEPT !.at = outcome])
    /\ Track(i)
    /\ UNCHANGED asked

(* wait_for_cleanup: the host is asked to end the session.                  *)
StartCleanup(j, i) ==
    /\ Move(j, [i EXCEPT !.at = "cleaning"])
    /\ Track(i)
    /\ asked' = asked \cup {i.key}

(* What is left for a job with a replacement, or with none to end.          *)
CleanOrFinish(j, i) ==
    IF i.key \notin Revived /\ ~i.confirmed
    THEN StartCleanup(j, i)
    ELSE Finish(j, i, "ended")

(* next(): too little is left of the handoff's deadline.                    *)
Expire(j) ==
    /\ ~full
    /\ j.at = "queued" /\ j.reuse /\ ~HasRetryBudget(j)
    /\ \A i \in jobs : i.at \notin {"opened", "refused"}
    /\ Finish(j, j, "unconfirmed")
    /\ UNCHANGED <<pending, failed, batches, nextBatch, offered, old, reps, aged,
                   envVars>>

(* The opening of a replacement has ended: advance_restart, restart_ready.  *)
AdvanceReady(j) ==
    /\ ~full
    /\ \/ j.at = "refused" /\ Finish(j, j, "unconfirmed")
       \/ j.at = "opened" /\ CleanOrFinish(j, [j EXCEPT !.reuse = TRUE])
    /\ UNCHANGED <<pending, failed, batches, nextBatch, offered, old, reps, aged,
                   envVars>>

(* start_operation drops work under a key that is in use, and all work when *)
(* there is no room.                                                        *)
Open(j) ==
    /\ IF full \/ \E i \in jobs : i.at = "opening" /\ i.key = j.key
       THEN jobs' = jobs \ {j}
       ELSE Move(j, [j EXCEPT !.at = "opening"])
    /\ UNCHANGED <<tracked, asked>>

(* A mutant of AdvanceQueued: the room for operations is not looked at.     *)
AdvanceQueued_NoRoom(j) ==
    /\ j.at = "queued"
    /\ j.reuse => HasRetryBudget(j)
    /\ \A i \in jobs : i.at \notin {"opened", "refused"}
    /\ \/ NeedsCleanupFirst(j) /\ StartCleanup(j, j)
       \/ ~NeedsCleanupFirst(j) /\ ~j.reuse /\ Open(j)
       \/ ~NeedsCleanupFirst(j) /\ j.reuse /\ CleanOrFinish(j, j)
    /\ UNCHANGED <<pending, failed, batches, nextBatch, offered, old, reps, aged,
                   envVars>>

(* A mutant of AdvanceQueued: every agent's replacement is opened first.    *)
AdvanceQueued_OpensFirst(j) ==
    /\ ~full
    /\ j.at = "queued"
    /\ j.reuse => HasRetryBudget(j)
    /\ \A i \in jobs : i.at \notin {"opened", "refused"}
    /\ \/ ~j.reuse /\ Open(j)
       \/ j.reuse /\ CleanOrFinish(j, j)
    /\ UNCHANGED <<pending, failed, batches, nextBatch, offered, old, reps, aged,
                   envVars>>

(* advance_restart, when no opening has ended.                              *)
AdvanceQueued(j) ==
    /\ ~full
    /\ j.at = "queued"
    /\ j.reuse => HasRetryBudget(j)
    /\ \A i \in jobs : i.at \notin {"opened", "refused"}
    /\ \/ NeedsCleanupFirst(j) /\ StartCleanup(j, j)
       \/ ~NeedsCleanupFirst(j) /\ ~j.reuse /\ Open(j)
       \/ ~NeedsCleanupFirst(j) /\ j.reuse /\ CleanOrFinish(j, j)
    /\ UNCHANGED <<pending, failed, batches, nextBatch, offered, old, reps, aged,
                   envVars>>

(* The host has reserved a name and the terminal a window.                  *)
Opens(j) ==
    /\ j.at = "opening" /\ Len(reps) < MaxReps
    /\ reps' = Append(reps, [key |-> j.key, st |-> "spawned", told |-> TRUE, settled |-> FALSE])
    /\ Move(j, [j EXCEPT !.at = "opened", !.token = Len(reps) + 1])
    /\ UNCHANGED <<pending, tracked, failed, batches, nextBatch, offered, old, asked,
                   aged, envVars>>

(* No window, or one that the dashboard never hears of (within's timeout).  *)
OpenFails(j) ==
    /\ j.at = "opening"
    /\ \/ UNCHANGED reps
       \/ /\ Len(reps) < MaxReps
          /\ reps' = Append(reps, [key |-> j.key, st |-> "spawned", told |-> FALSE,
                                   settled |-> FALSE])
    /\ Move(j, [j EXCEPT !.at = "refused"])
    /\ UNCHANGED <<pending, tracked, failed, batches, nextBatch, offered, old, asked,
                   aged, envVars>>

(* Backend::kill_session returns.  It has succeeded only once the session   *)
(* has left a mirror that the host has filled.                              *)
CleanupEnds(j) ==
    /\ j.at = "cleaning"
    /\ \/ /\ old[j.key] = "gone" /\ mirrored
          /\ Move(j, [j EXCEPT !.at = "ended"])
          /\ asked' = asked \ {j.key}
       \/ /\ Move(j, [j EXCEPT !.at = "unconfirmed"])
          /\ UNCHANGED asked
    /\ UNCHANGED <<pending, tracked, failed, batches, nextBatch, offered, old, reps,
                   aged, envVars>>

(* continue_after_cleanup: the job goes round again to open its window.     *)
Continue(j) ==
    /\ j.at = "ended" /\ NeedsCleanupFirst(j)
    /\ Move(j, [j EXCEPT !.at = "queued", !.confirmed = TRUE])
    /\ UNCHANGED <<pending, tracked, failed, batches, nextBatch, offered, hostVars,
                   envVars>>

(* The batch of a job that is done counts one more.                         *)
Counted(b) ==
    IF batches[b].finished + 1 = batches[b].total
    THEN [batches EXCEPT ![b] = None]
    ELSE [batches EXCEPT ![b].finished = @ + 1]

(* A mutant of Settle: what was seen while the job was away is forgotten.   *)
Settle_Unseen(j) ==
    /\ j.at \in Done
    /\ ~(j.at = "ended" /\ NeedsCleanupFirst(j))
    /\ jobs' = jobs \ {j}
    /\ pending' = pending \ {j.key}
    /\ tracked' = [tracked EXCEPT ![j.key] = None]
    /\ failed' = IF j.at = "unconfirmed" /\ j.token # 0
                 THEN [failed EXCEPT ![j.key] = j]
                 ELSE failed
    /\ batches' = Counted(j.batch)
    /\ reps' = IF j.at = "ended" /\ j.token # 0
               THEN [reps EXCEPT ![j.token].settled = TRUE] ELSE reps
    /\ UNCHANGED <<nextBatch, offered, old, asked, aged, envVars>>

(* A tick looks for replacements (observe_pending), then settles what is    *)
(* done.  A restart that failed keeps its replacement.                      *)
Settle(j) ==
    /\ j.at \in Done
    /\ ~(j.at = "ended" /\ NeedsCleanupFirst(j))
    /\ jobs' = jobs \ {j}
    /\ pending' = pending \ {j.key}
    /\ tracked' = [tracked EXCEPT ![j.key] = None]
    /\ failed' = IF j.at = "unconfirmed" /\ j.token # 0
                 THEN [failed EXCEPT ![j.key] = [j EXCEPT !.seen = @ \/ Sighted(j.key)]]
                 ELSE failed
    /\ batches' = Counted(j.batch)
    /\ reps' = IF j.at = "ended" /\ j.token # 0
               THEN [reps EXCEPT ![j.token].settled = TRUE] ELSE reps
    /\ UNCHANGED <<nextBatch, offered, old, asked, aged, envVars>>

(* A tick with nothing done.                                                *)
ObservePending ==
    /\ tracked' = [k \in Keys |-> IF Sighted(k) THEN [tracked[k] EXCEPT !.seen = TRUE]
                                  ELSE tracked[k]]
    /\ tracked' # tracked
    /\ UNCHANGED <<jobs, pending, failed, batches, nextBatch, offered, hostVars,
                   envVars>>

(* What a tick keeps of a failed restart.                                   *)
Kept(j) ==
    CASE j = None -> None
      [] j # None /\ Presence(j.token) \in {"present", "failed"} -> [j EXCEPT !.seen = TRUE]
      [] j # None /\ Presence(j.token) = "missing" -> IF j.seen THEN None ELSE j
      [] OTHER -> j

ObserveFailed ==
    /\ failed' = [k \in Keys |-> Kept(failed[k])]
    /\ failed' # failed
    /\ UNCHANGED <<jobs, pending, tracked, batches, nextBatch, offered, hostVars,
                   envVars>>

(* Other operations take all the room.                                      *)
Fill ==
    /\ ~full /\ troubles < MaxTroubles /\ jobs # {}
    /\ full' = TRUE /\ troubles' = troubles + 1
    /\ UNCHANGED <<queueVars, offered, hostVars, mirrored>>

(* Every operation has a deadline.                                          *)
Free ==
    /\ full /\ full' = FALSE
    /\ UNCHANGED <<queueVars, offered, hostVars, mirrored, troubles>>
-----------------------------------------------------------------------------
(* The host.                                                                *)

(* A kill request runs, at its time or late, or never.                      *)
HostKills(k) ==
    /\ k \in asked
    /\ asked' = asked \ {k}
    /\ old' = [old EXCEPT ![k] = "gone"]
    /\ UNCHANGED <<queueVars, offered, reps, aged, envVars>>

OldEnds(k) ==
    /\ old[k] = "live"
    /\ old' = [old EXCEPT ![k] = "gone"]
    /\ UNCHANGED <<queueVars, offered, asked, reps, aged, envVars>>

Rep(n, from, to) ==
    /\ n \in DOMAIN reps /\ reps[n].st \in from
    /\ reps' = [reps EXCEPT ![n].st = to]
    /\ UNCHANGED <<queueVars, offered, old, asked, aged, envVars>>

(* Only the rows of Codex replacements are ever asked for, so the others    *)
(* run from the start and do not end.                                       *)
RowAppears(n) ==
    Rep(n, {"spawned"}, IF reps[n].key \in Codex THEN "waiting" ELSE "running")

(* wait_for_handoff: no other launcher has the thread.                      *)
HandedOver(n) ==
    LET k == reps[n].key
    IN  /\ old[k] = "gone"
        /\ \A m \in DOMAIN reps \ {n} : reps[m].key = k => reps[m].st # "running"

RepRuns(n) == Rep(n, {"waiting"}, "running") /\ HandedOver(n)
RepFails(n) == Rep(n, {"waiting"}, "failed")
RepEnds(n) ==
    /\ Rep(n, {"spawned", "waiting", "running", "failed"}, "gone")
    /\ reps[n].key \in Codex

(* RESTART_RETRY_WINDOW less SESSION_REMOVAL_TIMEOUT has passed for a       *)
(* replacement; it is looked at when a failed job is tried again.           *)
Ages(n) ==
    /\ \/ \E j \in jobs : j.at = "queued" /\ j.token = n
       \/ \E k \in Keys : failed[k] # None /\ failed[k].token = n
    /\ n \in DOMAIN reps \ aged /\ reps[n].key \in Codex
    /\ aged' = aged \cup {n}
    /\ UNCHANGED <<queueVars, offered, old, asked, reps, envVars>>
-----------------------------------------------------------------------------
(* The link.                                                                *)

LinkDrops ==
    /\ mirrored /\ troubles < MaxTroubles
    /\ mirrored' = FALSE /\ troubles' = troubles + 1
    /\ UNCHANGED <<queueVars, offered, hostVars, full>>

Snapshot ==
    /\ ~mirrored
    /\ mirrored' = TRUE
    /\ UNCHANGED <<queueVars, offered, hostVars, full, troubles>>
-----------------------------------------------------------------------------
OnJob(j) ==
    \/ Expire(j) \/ AdvanceReady(j) \/ AdvanceQueued(j)
    \/ Opens(j) \/ OpenFails(j) \/ CleanupEnds(j) \/ Continue(j) \/ Settle(j)

Next ==
    \/ \E S \in SUBSET Keys : Enqueue(S)
    \/ \E j \in jobs : OnJob(j)
    \/ ObservePending \/ ObserveFailed \/ Fill \/ Free
    \/ \E k \in Keys : HostKills(k) \/ OldEnds(k)
    \/ \E n \in Tokens : RowAppears(n) \/ RepRuns(n) \/ RepFails(n) \/ RepEnds(n) \/ Ages(n)
    \/ LinkDrops \/ Snapshot

Spec == Init /\ [][Next]_vars

(* The loop ticks for ever; opening, cleanup and every other operation have *)
(* deadlines; the connection task dials until it has a link.  One fairness  *)
(* for all of it is the least that can be assumed.                          *)
Progress ==
    \/ \E j \in jobs : OnJob(j)
    \/ ObservePending \/ ObserveFailed \/ Free \/ Snapshot

FairSpec == Spec /\ WF_vars(Progress)
-----------------------------------------------------------------------------
RestartsTypeOK ==
    /\ jobs \subseteq Job /\ pending \subseteq Keys
    /\ tracked \in [Keys -> {None} \cup Sight]
    /\ failed \in [Keys -> {None} \cup Job]
    /\ batches \in [Batches -> {None} \cup Batch]
    /\ nextBatch \in 0..MaxBatches
    /\ offered \subseteq Keys
    /\ old \in [Keys -> {"live", "gone"}] /\ asked \subseteq Keys
    /\ reps \in Seq(Replacement) /\ Len(reps) <= MaxReps
    /\ aged \subseteq Tokens
    /\ full \in BOOLEAN /\ mirrored \in BOOLEAN /\ troubles \in 0..MaxTroubles

(* A session belongs to one pending restart at most, wherever its job is,   *)
(* and to one as long as it is pending (restart.rs:1-3, enqueue, settle).   *)
OwnedOnce ==
    /\ \A i, j \in jobs : i.key = j.key => i = j
    /\ pending = {j.key : j \in jobs}

(* A batch is kept for as long as a job of it is under way, and counts what *)
(* is: settle never meets a batch that is gone, and none is left over.      *)
JobsOf(b) == {j \in jobs : j.batch = b}

BatchesCount ==
    /\ \A j \in jobs : batches[j.batch] # None
    /\ \A b \in Batches : batches[b] # None =>
          /\ JobsOf(b) # {}
          /\ batches[b].finished + Cardinality(JobsOf(b)) = batches[b].total

(* Both, of jobs in six places and of batches that overlap.                 *)
JobsAreCounted == OwnedOnce /\ BatchesCount

(* A session that was not restarted successfully has one replacement, of    *)
(* those the dashboard was told of, that may still attach to its thread.    *)
OneReplacement ==
    \A n, m \in DOMAIN reps :
        (/\ reps[n].key = reps[m].key
         /\ \A r \in {reps[n], reps[m]} :
                r.told /\ ~r.settled /\ r.st \in {"spawned", "waiting", "running"}) => n = m

(* No replacement runs a thread whose old session is alive: a Codex one     *)
(* waits for it on the host, the others are opened after its end.  And a    *)
(* Codex session is not asked to end before a window for its thread has     *)
(* been opened.                                                             *)
EndsInOrder ==
    /\ \A n \in DOMAIN reps : reps[n].st = "running" => old[reps[n].key] = "gone"
    /\ \A k \in asked \cap Codex : \E n \in DOMAIN reps : reps[n].key = k /\ reps[n].told

(* Every restart that was confirmed is settled, whatever fails on its way.  *)
RestartSettles == \A k \in Keys : k \in pending ~> k \notin pending

(* A restart whose replacement was seen, and ended, does not keep its       *)
(* session from another try: whatever became of the job meanwhile, its end  *)
(* is noticed, after a loss of the link too.                                *)
Holds(k, n) ==
    \E r \in {tracked[k], failed[k]} \ {None} : r.token = n

SeenEnd(k, n) ==
    /\ n \in DOMAIN reps /\ reps[n].st = "gone"
    /\ \E r \in {tracked[k], failed[k]} \ {None} : r.token = n /\ r.seen

RetryIsReleased ==
    \A k \in Codex, n \in Tokens : SeenEnd(k, n) ~> ~Holds(k, n)
=============================================================================
