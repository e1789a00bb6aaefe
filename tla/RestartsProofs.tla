--------------------------- MODULE RestartsProofs ---------------------------
(***************************************************************************)
(* For any sessions, replacements, batches and failures: a session has one *)
(* job at most and its batch counts it, the old session of an agent that   *)
(* must be ended first has ended before its replacement runs, and of the   *)
(* replacements of a session only one may still attach to its thread.      *)
(*                                                                         *)
(* The last rests on who remembers a replacement: the job it was opened    *)
(* for, and, when the restart could not be confirmed, the failed one.  A   *)
(* job that opens a window has none, so it forgets none; and a failed one  *)
(* is forgotten only for a replacement whose row was seen and is gone.     *)
(***************************************************************************)
EXTENDS Restarts, FiniteSetTheorems, SequenceTheorems, TLAPS

\* The batches that are counted were handed out, and jobs are finite in number.
Numbered ==
    /\ JobsAreCounted /\ IsFiniteSet(jobs)
    /\ \A b \in Batches : batches[b] # None => b <= nextBatch

\* What r, a job or what is tracked of one, knows of the replacement of k.
Knows(r, k) ==
    /\ r.token # 0 => /\ r.token \in DOMAIN reps /\ reps[r.token].key = k
                      /\ reps[r.token].told
    /\ r.seen => r.token # 0 /\ reps[r.token].st # "spawned"

\* A job has a replacement from its opening on, and is retried on it.
Shaped(j) ==
    /\ j.at \in {"opening", "refused"} => j.token = 0 /\ ~j.reuse
    /\ j.at = "opened" => j.token # 0
    /\ j.at # "opened" => (j.reuse <=> j.token # 0)

Known ==
    /\ \A j \in jobs : Shaped(j) /\ Knows(j, j.key)
    /\ \A k \in Keys : failed[k] # None =>
          failed[k].key = k /\ k \notin pending /\ failed[k].token # 0 /\ Knows(failed[k], k)
    /\ \A k \in Keys : tracked[k] # None =>
          /\ k \in pending /\ Knows(tracked[k], k)
          /\ \A j \in jobs : j.key = k => j.token = tracked[k].token

\* Where a job has come to an end, and where one is opened that may not come
\* first, the old session is gone.
Follows(j) ==
    /\ j.confirmed \/ j.at = "ended" => old[j.key] = "gone"
    /\ j.at \in {"opening", "opened", "refused"} /\ j.key \notin Codex => old[j.key] = "gone"

Ordered ==
    /\ \A k \in Revived : old[k] = "gone"
    /\ \A j \in jobs : Follows(j)
    /\ \A k \in Keys : failed[k] # None /\ failed[k].confirmed => old[k] = "gone"
    /\ \A n \in DOMAIN reps :
          reps[n].st = "running" \/ reps[n].key \notin Codex => old[reps[n].key] = "gone"
    /\ \A k \in asked \cap Codex : \E n \in DOMAIN reps : reps[n].key = k /\ reps[n].told

\* A replacement that may still attach is somebody's.
Attaches(n) ==
    reps[n].told /\ ~reps[n].settled /\ reps[n].st \in {"spawned", "waiting", "running"}
Remembered(n) ==
    \/ \E j \in jobs : j.token = n
    \/ failed[reps[n].key] # None /\ failed[reps[n].key].token = n
Owned == \A n \in DOMAIN reps : Attaches(n) => Remembered(n)

Inv == RestartsTypeOK /\ Numbered /\ Known /\ Ordered /\ Owned

------------------------------------------------------------------------------
(* Replacements *)

LEMMA ReplacementAdded ==
    ASSUME RestartsTypeOK, NEW r \in Replacement, Len(reps) < MaxReps,
           reps' = Append(reps, r)
    PROVE  /\ reps' \in Seq(Replacement) /\ Len(reps') <= MaxReps
           /\ Len(reps) + 1 \in Tokens
           /\ DOMAIN reps \subseteq Tokens
           /\ DOMAIN reps' = DOMAIN reps \cup {Len(reps) + 1}
           /\ Len(reps) + 1 \notin DOMAIN reps
           /\ \A n \in DOMAIN reps : reps'[n] = reps[n]
           /\ reps'[Len(reps) + 1] = r
<1>1. reps \in Seq(Replacement) /\ MaxReps \in Nat
  BY RestartsAssumption DEF RestartsTypeOK
<1>2. Len(reps) \in Nat /\ DOMAIN reps = 1..Len(reps)
  BY <1>1, LenProperties
<1>3. /\ reps' \in Seq(Replacement)
      /\ Len(reps') = Len(reps) + 1
      /\ \A n \in 1..Len(reps) : reps'[n] = reps[n]
      /\ reps'[Len(reps) + 1] = r
  BY <1>1, AppendProperties
<1>4. DOMAIN reps' = 1..Len(reps')
  BY <1>3, LenProperties
<1>5. QED
  BY <1>1, <1>2, <1>3, <1>4 DEF Tokens

LEMMA ReplacementChanged ==
    ASSUME RestartsTypeOK, NEW n \in DOMAIN reps, NEW r \in Replacement,
           reps' = [reps EXCEPT ![n] = r]
    PROVE  /\ reps' \in Seq(Replacement) /\ Len(reps') <= MaxReps
           /\ DOMAIN reps' = DOMAIN reps
           /\ reps'[n] = r
           /\ \A m \in DOMAIN reps \ {n} : reps'[m] = reps[m]
<1>1. reps \in Seq(Replacement) /\ Len(reps) <= MaxReps
  BY DEF RestartsTypeOK
<1>2. DOMAIN reps = 1..Len(reps)
  BY <1>1, LenProperties
<1>3. /\ reps' \in Seq(Replacement) /\ Len(reps') = Len(reps)
      /\ \A m \in 1..Len(reps) : reps'[m] = IF m = n THEN r ELSE reps[m]
  BY <1>1, <1>2, ExceptSeq
<1>4. DOMAIN reps' = 1..Len(reps')
  BY <1>3, LenProperties
<1>5. QED
  BY <1>1, <1>2, <1>3, <1>4

LEMMA ReplacementType ==
    ASSUME RestartsTypeOK, NEW n \in DOMAIN reps
    PROVE  reps[n] \in Replacement /\ n \in Tokens
<1>1. reps \in Seq(Replacement) /\ Len(reps) <= MaxReps /\ MaxReps \in Nat
  BY RestartsAssumption DEF RestartsTypeOK
<1>2. DOMAIN reps = 1..Len(reps) /\ Len(reps) \in Nat
  BY <1>1, LenProperties
<1>3. QED
  BY <1>1, <1>2, ElementOfSeq DEF Tokens

------------------------------------------------------------------------------
(* Jobs on their way *)

\* What a job's place, kill and window may become in one step of its own.
Opening(j, told) ==
    /\ j.at = "opening" /\ Len(reps) < MaxReps
    /\ reps' = Append(reps, [key |-> j.key, st |-> "spawned", told |-> told, settled |-> FALSE])

Moves(j, i) ==
    /\ i \in Job /\ i.key = j.key /\ i.batch = j.batch /\ i.seen = j.seen
    /\ Shaped(i) /\ Follows(i)
    /\ Move(j, i)
    /\ UNCHANGED <<pending, failed, batches, nextBatch, offered, old, aged, envVars>>
    /\ \/ tracked' = tracked
       \/ /\ i.token = j.token /\ j.token # 0 /\ tracked[j.key] = None
          /\ tracked' = [tracked EXCEPT ![j.key] = [token |-> j.token, seen |-> j.seen]]
    /\ asked' \subseteq asked \cup {j.key}
    /\ asked' \subseteq asked \/ j.key \notin Codex \/ j.token # 0
    /\ \/ reps' = reps /\ i.token = j.token
       \/ i.token = j.token /\ Opening(j, FALSE)
       \/ i.token = Len(reps) + 1 /\ Opening(j, TRUE)

LEMMA Replaced ==
    ASSUME NEW j \in Job, NEW a \in Waiting \cup Done
    PROVE  /\ [j EXCEPT !.at = a] \in Job
           /\ [j EXCEPT !.at = a].at = a
           /\ [j EXCEPT !.at = a].key = j.key /\ [j EXCEPT !.at = a].batch = j.batch
           /\ [j EXCEPT !.at = a].token = j.token /\ [j EXCEPT !.at = a].seen = j.seen
           /\ [j EXCEPT !.at = a].reuse = j.reuse
           /\ [j EXCEPT !.at = a].confirmed = j.confirmed
BY DEF Job

\* Ending the old session.
LEMMA CleaningMoves ==
    ASSUME Inv, NEW j \in jobs, NEW i \in Job,
           i.key = j.key, i.batch = j.batch, i.seen = j.seen, i.token = j.token,
           i.confirmed = j.confirmed, i.reuse <=> i.token # 0,
           j.key \notin Codex \/ j.token # 0, StartCleanup(j, i),
           UNCHANGED <<pending, failed, batches, nextBatch, offered, old, reps, aged, envVars>>
    PROVE  \E m \in Job : Moves(j, m)
<1> DEFINE m == [i EXCEPT !.at = "cleaning"]
<1>1. /\ m \in Job /\ m.at = "cleaning" /\ m.key = j.key /\ m.batch = j.batch
      /\ m.token = j.token /\ m.seen = j.seen /\ m.reuse = i.reuse /\ m.confirmed = j.confirmed
  BY Replaced DEF Waiting
<1>2. Move(j, m) /\ Track(i) /\ asked' = asked \cup {j.key}
  BY DEF StartCleanup
<1>3. Shaped(m) /\ Follows(m)
  BY <1>1 DEF Shaped, Follows, Inv, Ordered
<1>4. Moves(j, m)
  BY <1>1, <1>2, <1>3 DEF Moves, Track
<1>5. QED
  BY <1>1, <1>4

\* The end of a job.
LEMMA FinishMoves ==
    ASSUME Inv, NEW j \in jobs, NEW i \in Job, NEW outcome \in Done,
           i.key = j.key, i.batch = j.batch, i.seen = j.seen, i.token = j.token,
           i.confirmed = j.confirmed, i.reuse <=> i.token # 0,
           outcome = "ended" => old[j.key] = "gone", Finish(j, i, outcome),
           UNCHANGED <<pending, failed, batches, nextBatch, offered, old, reps, aged, envVars>>
    PROVE  \E m \in Job : Moves(j, m)
<1> DEFINE m == [i EXCEPT !.at = outcome]
<1>1. /\ m \in Job /\ m.at = outcome /\ m.key = j.key /\ m.batch = j.batch
      /\ m.token = j.token /\ m.seen = j.seen /\ m.reuse = i.reuse /\ m.confirmed = j.confirmed
  BY Replaced DEF Waiting
<1>2. Move(j, m) /\ Track(i) /\ asked' = asked
  BY DEF Finish
<1>3. Shaped(m) /\ Follows(m)
  BY <1>1 DEF Shaped, Follows, Inv, Ordered, Done
<1>4. Moves(j, m)
  BY <1>1, <1>2, <1>3 DEF Moves, Track
<1>5. QED
  BY <1>1, <1>4

LEMMA CleanOrFinishMoves ==
    ASSUME Inv, NEW j \in jobs, NEW i \in Job,
           i.key = j.key, i.batch = j.batch, i.seen = j.seen, i.token = j.token,
           i.confirmed = j.confirmed, i.reuse, i.token # 0, CleanOrFinish(j, i),
           UNCHANGED <<pending, failed, batches, nextBatch, offered, old, reps, aged, envVars>>
    PROVE  \E m \in Job : Moves(j, m)
<1>1. CASE i.key \notin Revived /\ ~i.confirmed
  BY <1>1, CleaningMoves DEF CleanOrFinish
<1>2. CASE i.key \in Revived \/ i.confirmed
  <2>1. old[j.key] = "gone"
    BY <1>2 DEF Inv, Ordered, Follows
  <2>2. QED
    BY <1>2, <2>1, FinishMoves DEF CleanOrFinish, Done
<1>3. QED
  BY <1>1, <1>2


\* Every step of a job but its last.
LEMMA JobMoves ==
    ASSUME Inv, NEW j \in jobs,
           \/ Expire(j) \/ AdvanceReady(j) \/ AdvanceQueued(j) \/ Opens(j)
           \/ OpenFails(j) \/ CleanupEnds(j) \/ Continue(j)
    PROVE  \E m \in Job : Moves(j, m)
<1>1. /\ j \in Job /\ Shaped(j) /\ Follows(j) /\ Knows(j, j.key)
  BY DEF Inv, RestartsTypeOK, Known, Ordered
<1>2. CASE Expire(j)
  <2>1. j.at # "opened" /\ "unconfirmed" \in Done
    BY <1>2 DEF Expire, Done
  <2>2. QED
    BY <1>1, <1>2, <2>1, FinishMoves DEF Expire, Shaped, hostVars, envVars
<1>3. CASE AdvanceReady(j)
  <2>1. CASE j.at = "refused" /\ Finish(j, j, "unconfirmed")
    BY <1>1, <1>3, <2>1, FinishMoves DEF AdvanceReady, Shaped, Done
  <2>2. CASE j.at = "opened" /\ CleanOrFinish(j, [j EXCEPT !.reuse = TRUE])
    <3> DEFINE i == [j EXCEPT !.reuse = TRUE]
    <3>1. /\ i \in Job /\ i.key = j.key /\ i.batch = j.batch /\ i.seen = j.seen
          /\ i.token = j.token /\ i.confirmed = j.confirmed /\ i.reuse
      BY <1>1 DEF Job
    <3>2. i.token # 0
      BY <1>1, <2>2, <3>1 DEF Shaped
    <3>3. CleanOrFinish(j, i)
      BY <2>2
    <3> HIDE DEF i
    <3>4. QED
      BY <1>3, <3>1, <3>2, <3>3, CleanOrFinishMoves DEF AdvanceReady
  <2>3. QED
    BY <1>3, <2>1, <2>2 DEF AdvanceReady
<1>4. CASE AdvanceQueued(j)
  <2>1. j.at = "queued" /\ (j.reuse <=> j.token # 0) /\ ~full
    BY <1>1, <1>4 DEF AdvanceQueued, Shaped
  <2>2. CASE NeedsCleanupFirst(j) /\ StartCleanup(j, j)
    BY <1>1, <1>4, <2>1, <2>2, CleaningMoves DEF AdvanceQueued, NeedsCleanupFirst
  <2>3. CASE ~NeedsCleanupFirst(j) /\ ~j.reuse /\ Open(j)
    <3> DEFINE m == [j EXCEPT !.at = "opening"]
    <3>1. ~ \E i \in jobs : i.at = "opening" /\ i.key = j.key
      BY <2>1 DEF Inv, Numbered, JobsAreCounted, OwnedOnce
    <3>2. Move(j, m) /\ tracked' = tracked /\ asked' = asked
      BY <2>1, <2>3, <3>1 DEF Open
    <3>3. /\ m \in Job /\ m.at = "opening" /\ m.key = j.key /\ m.batch = j.batch
          /\ m.token = j.token /\ m.seen = j.seen /\ m.reuse = j.reuse
          /\ m.confirmed = j.confirmed
      BY <1>1, Replaced DEF Waiting
    <3>4. j.key \in Keys
      BY <1>1 DEF Job
    <3>5. j.key \notin Codex => old[j.key] = "gone"
      BY <1>1, <2>3, <3>4 DEF NeedsCleanupFirst, Inv, Ordered, Follows
    <3>6. Shaped(m) /\ Follows(m)
      BY <1>1, <2>1, <2>3, <3>3, <3>5 DEF Shaped, Follows
    <3>7. Moves(j, m)
      BY <1>4, <3>2, <3>3, <3>6 DEF Moves, AdvanceQueued
    <3>8. QED
      BY <3>3, <3>7
  <2>4. CASE ~NeedsCleanupFirst(j) /\ j.reuse /\ CleanOrFinish(j, j)
    BY <1>1, <1>4, <2>1, <2>4, CleanOrFinishMoves DEF AdvanceQueued
  <2>5. QED
    BY <1>4, <2>2, <2>3, <2>4 DEF AdvanceQueued
<1>5. CASE Opens(j)
  <2> DEFINE n == Len(reps) + 1
             m == [j EXCEPT !.at = "opened", !.token = n]
  <2>1. n \in Tokens
    <3>1. reps \in Seq(Replacement) /\ Len(reps) < MaxReps /\ MaxReps \in Nat
      BY <1>5, RestartsAssumption DEF Opens, Inv, RestartsTypeOK
    <3>2. QED
      BY <3>1, LenProperties DEF Tokens
  <2> HIDE DEF n
  <2>2. /\ m \in Job /\ m.at = "opened" /\ m.key = j.key /\ m.batch = j.batch
        /\ m.token = n /\ m.seen = j.seen /\ m.confirmed = j.confirmed
    BY <1>1, <2>1 DEF Job, Waiting
  <2>3. n # 0
    BY <2>1 DEF Tokens
  <2>4. Shaped(m) /\ Follows(m)
    BY <1>1, <1>5, <2>2, <2>3 DEF Opens, Shaped, Follows
  <2>5. m.token = Len(reps) + 1
    BY <2>2 DEF n
  <2>6. Move(j, m)
    BY <1>5 DEF Opens, n
  <2> HIDE DEF m
  <2>7. Moves(j, m)
    BY <1>5, <2>2, <2>4, <2>5, <2>6 DEF Moves, Opens, Opening
  <2>8. QED
    BY <2>2, <2>7
<1>6. CASE OpenFails(j)
  <2> DEFINE m == [j EXCEPT !.at = "refused"]
  <2>1. /\ m \in Job /\ m.at = "refused" /\ m.key = j.key /\ m.batch = j.batch
        /\ m.token = j.token /\ m.seen = j.seen /\ m.reuse = j.reuse
        /\ m.confirmed = j.confirmed
    BY <1>1, Replaced DEF Waiting
  <2>2. Shaped(m) /\ Follows(m)
    BY <1>1, <1>6, <2>1 DEF OpenFails, Shaped, Follows
  <2>3. Moves(j, m)
    BY <1>6, <2>1, <2>2 DEF Moves, OpenFails, Opening
  <2>4. QED
    BY <2>1, <2>3
<1>7. CASE CleanupEnds(j)
  <2> DEFINE m(a) == [j EXCEPT !.at = a]
  <2>1. /\ "ended" \in Done /\ "unconfirmed" \in Done
    BY DEF Done
  <2>2. ASSUME NEW a \in Done, Move(j, m(a)), asked' \subseteq asked,
               a = "ended" => old[j.key] = "gone"
        PROVE  \E i \in Job : Moves(j, i)
    <3>1. /\ m(a) \in Job /\ m(a).at = a /\ m(a).key = j.key /\ m(a).batch = j.batch
          /\ m(a).token = j.token /\ m(a).seen = j.seen /\ m(a).reuse = j.reuse
          /\ m(a).confirmed = j.confirmed
      BY <1>1, <2>2, Replaced DEF Waiting
    <3>2. Shaped(m(a)) /\ Follows(m(a))
      BY <1>1, <1>7, <2>2, <3>1 DEF CleanupEnds, Shaped, Follows, Done
    <3>3. Moves(j, m(a))
      BY <1>7, <2>2, <3>1, <3>2 DEF Moves, CleanupEnds
    <3>4. QED
      BY <3>1, <3>3
  <2>3. QED
    BY <1>7, <2>1, <2>2 DEF CleanupEnds
<1>8. CASE Continue(j)
  <2> DEFINE m == [j EXCEPT !.at = "queued", !.confirmed = TRUE]
  <2>1. /\ m \in Job /\ m.at = "queued" /\ m.key = j.key /\ m.batch = j.batch
        /\ m.token = j.token /\ m.seen = j.seen /\ m.reuse = j.reuse /\ m.confirmed
    BY <1>1 DEF Job, Waiting
  <2>2. Shaped(m) /\ Follows(m)
    BY <1>1, <1>8, <2>1 DEF Continue, Shaped, Follows
  <2>3. Moves(j, m)
    BY <1>8, <2>1, <2>2 DEF Moves, Continue, hostVars, envVars
  <2>4. QED
    BY <2>1, <2>3
<1>9. QED
  BY <1>2, <1>3, <1>4, <1>5, <1>6, <1>7, <1>8


\* What a move of a job does to the replacements, and what the job knows then.
LEMMA MovesReps ==
    ASSUME Inv, NEW j \in jobs, NEW i \in Job, Moves(j, i)
    PROVE  /\ reps' \in Seq(Replacement) /\ Len(reps') <= MaxReps
           /\ DOMAIN reps \subseteq DOMAIN reps' /\ 0 \notin DOMAIN reps
           /\ \A n \in DOMAIN reps : reps'[n] = reps[n]
           /\ \A n \in DOMAIN reps' \ DOMAIN reps :
                 /\ reps'[n].key = j.key /\ j.at = "opening" /\ reps'[n].st = "spawned"
                 /\ reps'[n].told => i.token = n
           /\ Knows(i, j.key)'
           /\ i.token = j.token \/ j.token = 0
<1>1. RestartsTypeOK /\ j \in Job /\ Shaped(j) /\ Knows(j, j.key)
  BY DEF Inv, RestartsTypeOK, Known
<1>2. i.seen = j.seen /\ j.key \in Keys
  BY <1>1 DEF Moves, Job
<1>3. 0 \notin DOMAIN reps
  BY <1>1, ReplacementType DEF Tokens
<1>4. CASE reps' = reps /\ i.token = j.token
  <2>1. reps \in Seq(Replacement) /\ Len(reps) <= MaxReps
    BY <1>1 DEF RestartsTypeOK
  <2>2. Knows(i, j.key)'
    BY <1>1, <1>2, <1>4 DEF Knows
  <2>3. QED
    BY <1>3, <1>4, <2>1, <2>2
<1>5. ASSUME NEW told \in BOOLEAN, Opening(j, told), told => i.token = Len(reps) + 1,
             ~told => i.token = j.token
      PROVE  /\ reps' \in Seq(Replacement) /\ Len(reps') <= MaxReps
             /\ DOMAIN reps \subseteq DOMAIN reps'
             /\ \A n \in DOMAIN reps : reps'[n] = reps[n]
             /\ \A n \in DOMAIN reps' \ DOMAIN reps :
                   /\ reps'[n].key = j.key /\ j.at = "opening" /\ reps'[n].st = "spawned"
                   /\ reps'[n].told => i.token = n
             /\ Knows(i, j.key)'
             /\ i.token = j.token \/ j.token = 0
  <2> DEFINE r == [key |-> j.key, st |-> "spawned", told |-> told, settled |-> FALSE]
  <2>1. r \in Replacement /\ r.key = j.key /\ r.st = "spawned" /\ r.told = told
    BY <1>2 DEF Replacement
  <2>2. Len(reps) < MaxReps /\ reps' = Append(reps, r) /\ j.at = "opening"
    BY <1>5 DEF Opening
  <2> HIDE DEF r
  <2>3. /\ reps' \in Seq(Replacement) /\ Len(reps') <= MaxReps
        /\ DOMAIN reps' = DOMAIN reps \cup {Len(reps) + 1}
        /\ \A n \in DOMAIN reps : reps'[n] = reps[n]
        /\ reps'[Len(reps) + 1] = r
    BY <1>1, <2>1, <2>2, ReplacementAdded
  <2>4. j.token = 0 /\ ~j.seen
    BY <1>1, <2>2 DEF Shaped, Knows, Job
  <2>5. Knows(i, j.key)'
    <3>1. CASE told
      BY <1>2, <1>5, <2>1, <2>3, <2>4, <3>1 DEF Knows
    <3>2. CASE ~told
      BY <1>2, <1>5, <2>4, <3>2 DEF Knows
    <3>3. QED
      BY <3>1, <3>2
  <2>6. ASSUME NEW n \in DOMAIN reps' \ DOMAIN reps
        PROVE  /\ reps'[n].key = j.key /\ reps'[n].st = "spawned"
               /\ reps'[n].told => i.token = n
    <3>1. n = Len(reps) + 1
      BY <2>3
    <3>2. QED
      BY <1>5, <2>1, <2>3, <3>1
  <2>7. QED
    BY <2>2, <2>3, <2>4, <2>5, <2>6
<1>6. QED
  BY <1>3, <1>4, <1>5 DEF Moves

LEMMA MovesType ==
    ASSUME Inv, NEW j \in jobs, NEW i \in Job, Moves(j, i)
    PROVE  RestartsTypeOK'
<1>1. RestartsTypeOK /\ j \in Job
  BY DEF Inv, RestartsTypeOK
<1>2. j.key \in Keys /\ j.seen \in BOOLEAN /\ j.token \in {0} \cup Tokens
  BY <1>1 DEF Job
<1>3. jobs' \subseteq Job
  BY <1>1 DEF Moves, Move, RestartsTypeOK
<1>4. tracked' \in [Keys -> {None} \cup Sight]
  <2>1. CASE tracked' = tracked
    BY <1>1, <2>1 DEF RestartsTypeOK
  <2>2. CASE j.token # 0 /\ tracked' = [tracked EXCEPT ![j.key] =
                                          [token |-> j.token, seen |-> j.seen]]
    <3>1. [token |-> j.token, seen |-> j.seen] \in Sight
      BY <1>2, <2>2 DEF Sight
    <3>2. QED
      BY <1>1, <2>2, <3>1 DEF RestartsTypeOK
  <2>3. QED
    BY <2>1, <2>2 DEF Moves
<1>5. asked' \subseteq Keys
  BY <1>1, <1>2 DEF Moves, RestartsTypeOK
<1>6. reps' \in Seq(Replacement) /\ Len(reps') <= MaxReps
  BY MovesReps
<1>7. QED
  BY <1>1, <1>3, <1>4, <1>5, <1>6 DEF RestartsTypeOK, Moves, envVars

LEMMA MovesNumbered ==
    ASSUME Inv, NEW j \in jobs, NEW i \in Job, Moves(j, i)
    PROVE  Numbered'
<1>1. /\ jobs' = (jobs \ {j}) \cup {i} /\ i.key = j.key /\ i.batch = j.batch
      /\ UNCHANGED <<pending, batches, nextBatch>>
  BY DEF Moves, Move
<1>2. /\ \A a, b \in jobs : a.key = b.key => a = b
      /\ pending = {a.key : a \in jobs} /\ IsFiniteSet(jobs)
  BY DEF Inv, Numbered, JobsAreCounted, OwnedOnce
<1>3. i \in jobs => i = j
  BY <1>1, <1>2
<1>4. OwnedOnce'
  <2>1. \A a, b \in jobs' : a.key = b.key => a = b
    BY <1>1, <1>2
  <2>2. pending' = {a.key : a \in jobs'}
    BY <1>1, <1>2
  <2>3. QED
    BY <2>1, <2>2 DEF OwnedOnce
<1>5. IsFiniteSet(jobs')
  BY <1>1, <1>2, FS_RemoveElement, FS_AddElement
<1>6. ASSUME NEW b \in Batches
      PROVE  /\ (JobsOf(b) # {}) => (JobsOf(b)' # {})
             /\ Cardinality(JobsOf(b)') = Cardinality(JobsOf(b))
  <2>1. IsFiniteSet(JobsOf(b))
    BY <1>2, FS_Subset DEF JobsOf
  <2>2. CASE j.batch = b
    <3>1. /\ JobsOf(b)' = (JobsOf(b) \ {j}) \cup {i}
          /\ j \in JobsOf(b) /\ i \notin JobsOf(b) \ {j}
      BY <1>1, <1>3, <2>2 DEF JobsOf
    <3>2. /\ IsFiniteSet(JobsOf(b) \ {j})
          /\ Cardinality(JobsOf(b) \ {j}) = Cardinality(JobsOf(b)) - 1
      BY <2>1, <3>1, FS_RemoveElement
    <3>3. Cardinality(JobsOf(b)') = Cardinality(JobsOf(b) \ {j}) + 1
      BY <3>1, <3>2, FS_AddElement
    <3>4. Cardinality(JobsOf(b)) \in Nat
      BY <2>1, FS_CardinalityType
    <3>5. QED
      BY <3>1, <3>2, <3>3, <3>4
  <2>3. CASE j.batch # b
    BY <1>1, <2>3 DEF JobsOf
  <2>4. QED
    BY <2>2, <2>3
<1>7. BatchesCount'
  <2>1. \A a \in jobs' : batches'[a.batch] # None
    BY <1>1 DEF Inv, Numbered, JobsAreCounted, BatchesCount
  <2>2. ASSUME NEW b \in Batches, batches'[b] # None
        PROVE  /\ JobsOf(b)' # {}
               /\ batches'[b].finished + Cardinality(JobsOf(b)') = batches'[b].total
    BY <1>1, <1>6, <2>2 DEF Inv, Numbered, JobsAreCounted, BatchesCount
  <2>3. QED
    BY <2>1, <2>2 DEF BatchesCount
<1>8. QED
  BY <1>1, <1>4, <1>5, <1>7 DEF Numbered, JobsAreCounted, Inv

\* More replacements leave what was known of the others.
LEMMA KnowsStays ==
    ASSUME NEW r, NEW k, Knows(r, k), DOMAIN reps \subseteq DOMAIN reps',
           \A n \in DOMAIN reps : /\ reps'[n].key = reps[n].key
                                  /\ reps'[n].told = reps[n].told
                                  /\ reps'[n].st = reps[n].st \/ reps'[n].st # "spawned"
    PROVE  /\ r.token # 0 => /\ r.token \in DOMAIN reps' /\ reps'[r.token].key = k
                             /\ reps'[r.token].told
           /\ r.seen => r.token # 0 /\ reps'[r.token].st # "spawned"
BY DEF Knows

LEMMA MovesKnown ==
    ASSUME Inv, NEW j \in jobs, NEW i \in Job, Moves(j, i)
    PROVE  Known'
<1>1. /\ jobs' = (jobs \ {j}) \cup {i} /\ i.key = j.key /\ Shaped(i)
      /\ UNCHANGED <<pending, failed>>
  BY DEF Moves, Move
<1>2. /\ DOMAIN reps \subseteq DOMAIN reps'
      /\ \A n \in DOMAIN reps : reps'[n] = reps[n]
      /\ Knows(i, j.key)'
      /\ i.token = j.token \/ j.token = 0
  BY MovesReps
<1>3. ASSUME NEW a \in jobs' PROVE Shaped(a) /\ Knows(a, a.key)'
  <2>1. CASE a = i
    BY <1>1, <1>2, <2>1 DEF Knows
  <2>2. CASE a \in jobs
    <3>1. Shaped(a) /\ Knows(a, a.key)
      BY <2>2 DEF Inv, Known
    <3>2. QED
      BY <1>2, <3>1, KnowsStays DEF Knows
  <2>3. QED
    BY <1>1, <2>1, <2>2
<1>4. ASSUME NEW k \in Keys, failed'[k] # None
      PROVE  /\ failed'[k].key = k /\ k \notin pending' /\ failed'[k].token # 0
             /\ Knows(failed[k], k)'
  <2>1. failed[k].key = k /\ k \notin pending /\ failed[k].token # 0 /\ Knows(failed[k], k)
    BY <1>1, <1>4 DEF Inv, Known
  <2>2. QED
    BY <1>1, <1>2, <2>1, KnowsStays DEF Knows
<1>5. ASSUME NEW k \in Keys, tracked'[k] # None
      PROVE  /\ k \in pending' /\ Knows(tracked[k], k)'
             /\ \A a \in jobs' : a.key = k => a.token = tracked'[k].token
  <2>1. CASE tracked[k] # None /\ tracked'[k] = tracked[k]
    <3>1. /\ k \in pending /\ Knows(tracked[k], k)
          /\ \A a \in jobs : a.key = k => a.token = tracked[k].token
      BY <2>1 DEF Inv, Known
    <3>2. tracked[k].token # 0
      BY <2>1 DEF Inv, RestartsTypeOK, Sight, Tokens
    <3>3. i.key = k => i.token = tracked[k].token
      BY <1>1, <1>2, <3>1, <3>2
    <3>4. QED
      BY <1>1, <1>2, <2>1, <3>1, <3>3, KnowsStays DEF Knows
  <2>2. CASE /\ k = j.key /\ i.token = j.token
             /\ tracked'[k].token = j.token /\ tracked'[k].seen = j.seen
    <3>1. Knows(j, j.key) /\ j.key \in pending
      BY DEF Inv, Known, Numbered, JobsAreCounted, OwnedOnce
    <3>2. \A a \in jobs : a.key = j.key => a = j
      BY DEF Inv, Numbered, JobsAreCounted, OwnedOnce
    <3>3. Knows(tracked[k], k)'
      BY <1>2, <2>2, <3>1, KnowsStays DEF Knows
    <3>4. \A a \in jobs' : a.key = k => a.token = tracked'[k].token
      BY <1>1, <2>2, <3>2
    <3>5. QED
      BY <1>1, <2>2, <3>1, <3>3, <3>4
  <2>3. \/ tracked[k] # None /\ tracked'[k] = tracked[k]
        \/ /\ k = j.key /\ i.token = j.token
           /\ tracked'[k].token = j.token /\ tracked'[k].seen = j.seen
    <3>1. tracked \in [Keys -> {None} \cup Sight]
      BY DEF Inv, RestartsTypeOK
    <3>2. QED
      BY <1>5, <3>1 DEF Moves
  <2>4. QED
    BY <2>1, <2>2, <2>3
<1>6. QED
  BY <1>3, <1>4, <1>5 DEF Known, Shaped

LEMMA MovesOrdered ==
    ASSUME Inv, NEW j \in jobs, NEW i \in Job, Moves(j, i)
    PROVE  Ordered'
<1>1. /\ jobs' = (jobs \ {j}) \cup {i} /\ Follows(i) /\ UNCHANGED <<old, failed>>
  BY DEF Moves, Move
<1>2. /\ DOMAIN reps \subseteq DOMAIN reps'
      /\ \A n \in DOMAIN reps : reps'[n] = reps[n]
      /\ \A n \in DOMAIN reps' \ DOMAIN reps :
            reps'[n].key = j.key /\ j.at = "opening" /\ reps'[n].st = "spawned"
  BY MovesReps
<1>3. Ordered /\ Follows(j) /\ Knows(j, j.key)
  BY DEF Inv, Ordered, Known
<1>4. \A a \in jobs' : Follows(a)'
  BY <1>1, <1>3 DEF Ordered, Follows
<1>5. ASSUME NEW n \in DOMAIN reps', reps'[n].st = "running" \/ reps'[n].key \notin Codex
      PROVE  old'[reps'[n].key] = "gone"
  <2>1. CASE n \in DOMAIN reps
    BY <1>1, <1>2, <1>3, <1>5, <2>1 DEF Ordered
  <2>2. CASE n \notin DOMAIN reps
    BY <1>1, <1>2, <1>3, <1>5, <2>2 DEF Follows
  <2>3. QED
    BY <2>1, <2>2
<1>6. ASSUME NEW k \in asked' \cap Codex
      PROVE  \E n \in DOMAIN reps' : reps'[n].key = k /\ reps'[n].told
  <2>1. CASE k \in asked
    BY <1>2, <1>3, <2>1 DEF Ordered
  <2>2. CASE k \notin asked
    <3>1. k = j.key /\ j.token # 0
      BY <2>2 DEF Moves
    <3>2. j.token \in DOMAIN reps /\ reps[j.token].key = k /\ reps[j.token].told
      BY <1>3, <3>1 DEF Knows
    <3>3. QED
      BY <1>2, <3>2
  <2>3. QED
    BY <2>1, <2>2
<1>7. QED
  BY <1>1, <1>3, <1>4, <1>5, <1>6 DEF Ordered

LEMMA MovesOwned ==
    ASSUME Inv, NEW j \in jobs, NEW i \in Job, Moves(j, i)
    PROVE  Owned'
<1>1. jobs' = (jobs \ {j}) \cup {i} /\ failed' = failed
  BY DEF Moves, Move
<1>2. /\ 0 \notin DOMAIN reps
      /\ \A n \in DOMAIN reps : reps'[n] = reps[n]
      /\ \A n \in DOMAIN reps' \ DOMAIN reps : reps'[n].told => i.token = n
      /\ i.token = j.token \/ j.token = 0
  BY MovesReps
<1>3. ASSUME NEW n \in DOMAIN reps', Attaches(n)' PROVE Remembered(n)'
  <2>1. CASE n \notin DOMAIN reps
    BY <1>1, <1>2, <1>3, <2>1 DEF Attaches, Remembered
  <2>2. CASE n \in DOMAIN reps
    <3>1. Attaches(n)
      BY <1>2, <1>3, <2>2 DEF Attaches
    <3>2. Remembered(n)
      BY <2>2, <3>1 DEF Inv, Owned
    <3>3. CASE \E a \in jobs : a.token = n
      <4>1. PICK a \in jobs : a.token = n
        BY <3>3
      <4>2. CASE a = j
        BY <1>1, <1>2, <2>2, <4>1, <4>2 DEF Remembered
      <4>3. CASE a # j
        BY <1>1, <4>1, <4>3 DEF Remembered
      <4>4. QED
        BY <4>2, <4>3
    <3>4. CASE failed[reps[n].key] # None /\ failed[reps[n].key].token = n
      BY <1>1, <1>2, <2>2, <3>4 DEF Remembered
    <3>5. QED
      BY <3>2, <3>3, <3>4 DEF Remembered
  <2>3. QED
    BY <2>1, <2>2
<1>4. QED
  BY <1>3 DEF Owned

LEMMA MovesKeepInv ==
    ASSUME Inv, NEW j \in jobs, NEW i \in Job, Moves(j, i)
    PROVE  Inv'
BY MovesType, MovesNumbered, MovesKnown, MovesOrdered, MovesOwned DEF Inv


------------------------------------------------------------------------------
(* The host, the link and the room for operations *)

\* Nothing that the invariant speaks of but the link and the room.
LEMMA QuietKeepsInv ==
    ASSUME Inv, UNCHANGED <<queueVars, offered, old, asked, reps>>,
           aged' \subseteq Tokens, full' \in BOOLEAN, mirrored' \in BOOLEAN,
           troubles' \in 0..MaxTroubles
    PROVE  Inv'
<1>1. /\ UNCHANGED <<jobs, pending, tracked, failed, batches, nextBatch>>
      /\ UNCHANGED <<offered, old, asked, reps>>
  BY DEF queueVars
<1>2. RestartsTypeOK'
  BY <1>1 DEF Inv, RestartsTypeOK
<1>3. Numbered'
  BY <1>1 DEF Inv, Numbered, JobsAreCounted, OwnedOnce, BatchesCount, JobsOf
<1>4. Known'
  BY <1>1 DEF Inv, Known, Knows, Shaped
<1>5. Ordered'
  BY <1>1 DEF Inv, Ordered, Follows
<1>6. Owned'
  BY <1>1 DEF Inv, Owned, Attaches, Remembered
<1>7. QED
  BY <1>2, <1>3, <1>4, <1>5, <1>6 DEF Inv

\* An old session ends.
LEMMA EndKeepsInv ==
    ASSUME Inv, NEW k \in Keys, old' = [old EXCEPT ![k] = "gone"], asked' \subseteq asked,
           UNCHANGED <<queueVars, offered, reps, aged, envVars>>
    PROVE  Inv'
<1>1. /\ UNCHANGED <<jobs, pending, tracked, failed, batches, nextBatch>>
      /\ UNCHANGED <<offered, reps, aged, full, mirrored, troubles>>
  BY DEF queueVars, envVars
<1>2. RestartsTypeOK'
  BY <1>1 DEF Inv, RestartsTypeOK
<1>3. Numbered'
  BY <1>1 DEF Inv, Numbered, JobsAreCounted, OwnedOnce, BatchesCount, JobsOf
<1>4. Known'
  BY <1>1 DEF Inv, Known, Knows, Shaped
<1>5. Ordered'
  <2>1. \A x \in Keys : old[x] = "gone" => old'[x] = "gone"
    BY DEF Inv, RestartsTypeOK
  <2>2. \A x \in Revived : x \in Keys
    BY RestartsAssumption
  <2>3. \A j \in jobs : j.key \in Keys
    BY DEF Inv, RestartsTypeOK, Job
  <2>4. \A n \in DOMAIN reps : reps[n].key \in Keys
    BY ReplacementType DEF Inv, Replacement
  <2>5. \A j \in jobs : Follows(j)'
    BY <1>1, <2>1, <2>3 DEF Inv, Ordered, Follows
  <2>6. QED
    BY <1>1, <2>1, <2>2, <2>4, <2>5 DEF Inv, Ordered
<1>6. Owned'
  BY <1>1 DEF Inv, Owned, Attaches, Remembered
<1>7. QED
  BY <1>2, <1>3, <1>4, <1>5, <1>6 DEF Inv

\* A replacement waits, runs, fails or ends.
LEMMA RepKeepsInv ==
    ASSUME Inv, NEW n, NEW from, NEW to \in {"waiting", "running", "failed", "gone"},
           Rep(n, from, to), to = "running" => old[reps[n].key] = "gone",
           to \in {"waiting", "running"} => from \subseteq {"spawned", "waiting"}
    PROVE  Inv'
<1>1. /\ UNCHANGED <<jobs, pending, tracked, failed, batches, nextBatch>>
      /\ UNCHANGED <<offered, old, asked, aged, full, mirrored, troubles>>
  BY DEF Rep, queueVars, envVars
<1>2. n \in DOMAIN reps /\ reps[n].st \in from /\ reps[n] \in Replacement
  BY ReplacementType DEF Rep, Inv
<1> DEFINE r == [reps[n] EXCEPT !.st = to]
<1>3. /\ r \in Replacement /\ r.st = to /\ r.key = reps[n].key
      /\ r.told = reps[n].told /\ r.settled = reps[n].settled
  BY <1>2 DEF Replacement
<1>4. reps' = [reps EXCEPT ![n] = r]
  BY DEF Rep
<1> HIDE DEF r
<1>5. /\ reps' \in Seq(Replacement) /\ Len(reps') <= MaxReps
      /\ DOMAIN reps' = DOMAIN reps /\ reps'[n] = r
      /\ \A m \in DOMAIN reps \ {n} : reps'[m] = reps[m]
  BY <1>2, <1>3, <1>4, ReplacementChanged DEF Inv
<1>6. /\ DOMAIN reps \subseteq DOMAIN reps'
      /\ \A m \in DOMAIN reps : /\ reps'[m].key = reps[m].key
                                /\ reps'[m].told = reps[m].told
                                /\ reps'[m].st = reps[m].st \/ reps'[m].st # "spawned"
  BY <1>3, <1>5
<1>7. RestartsTypeOK'
  BY <1>1, <1>5 DEF Inv, RestartsTypeOK
<1>8. Numbered'
  BY <1>1 DEF Inv, Numbered, JobsAreCounted, OwnedOnce, BatchesCount, JobsOf
<1>9. Known'
  <2>1. \A j \in jobs : Shaped(j) /\ Knows(j, j.key)
    BY DEF Inv, Known
  <2>2. \A j \in jobs' : Shaped(j) /\ Knows(j, j.key)'
    BY <1>1, <1>6, <2>1, KnowsStays DEF Knows
  <2>3. ASSUME NEW k \in Keys, failed[k] # None
        PROVE  /\ failed[k].key = k /\ k \notin pending /\ failed[k].token # 0
               /\ Knows(failed[k], k)'
    <3>1. failed[k].key = k /\ k \notin pending /\ failed[k].token # 0 /\ Knows(failed[k], k)
      BY <2>3 DEF Inv, Known
    <3>2. QED
      BY <1>1, <1>6, <3>1, KnowsStays DEF Knows
  <2>4. ASSUME NEW k \in Keys, tracked[k] # None
        PROVE  /\ k \in pending /\ Knows(tracked[k], k)'
               /\ \A j \in jobs : j.key = k => j.token = tracked[k].token
    <3>1. /\ k \in pending /\ Knows(tracked[k], k)
          /\ \A j \in jobs : j.key = k => j.token = tracked[k].token
      BY <2>4 DEF Inv, Known
    <3>2. QED
      BY <1>1, <1>6, <3>1, KnowsStays DEF Knows
  <2>5. QED
    BY <1>1, <2>2, <2>3, <2>4 DEF Known, Shaped
<1>10. Ordered'
  <2>1. \A j \in jobs' : Follows(j)'
    BY <1>1 DEF Inv, Ordered, Follows
  <2>2. ASSUME NEW m \in DOMAIN reps', reps'[m].st = "running" \/ reps'[m].key \notin Codex
        PROVE  old[reps'[m].key] = "gone"
    BY <1>2, <1>3, <1>5, <2>2 DEF Inv, Ordered
  <2>3. \A k \in asked \cap Codex : \E m \in DOMAIN reps' : reps'[m].key = k /\ reps'[m].told
    BY <1>6 DEF Inv, Ordered
  <2>4. QED
    BY <1>1, <2>1, <2>2, <2>3 DEF Inv, Ordered
<1>11. Owned'
  <2>1. ASSUME NEW m \in DOMAIN reps', Attaches(m)' PROVE Attaches(m)
    <3>1. CASE m # n
      BY <1>5, <2>1, <3>1 DEF Attaches
    <3>2. CASE m = n
      BY <1>2, <1>3, <1>5, <2>1, <3>2 DEF Attaches
    <3>3. QED
      BY <3>1, <3>2
  <2>2. ASSUME NEW m \in DOMAIN reps', Remembered(m) PROVE Remembered(m)'
    BY <1>1, <1>6, <1>5, <2>2 DEF Remembered
  <2>3. QED
    BY <1>5, <2>1, <2>2 DEF Inv, Owned
<1>12. QED
  BY <1>7, <1>8, <1>9, <1>10, <1>11 DEF Inv

------------------------------------------------------------------------------
(* What is seen of a replacement *)

LEMMA PresenceTells ==
    ASSUME Inv, NEW n \in DOMAIN reps
    PROVE  /\ Presence(n) \in {"present", "failed"} => reps[n].st # "spawned"
           /\ Presence(n) = "failed" => ~Attaches(n)
           /\ Presence(n) = "missing" /\ reps[n].st # "spawned" => ~Attaches(n)
<1>1. reps[n].st \in {"spawned", "waiting", "running", "failed", "gone"}
  BY ReplacementType DEF Inv, Replacement
<1>2. QED
  BY <1>1 DEF Presence, RowOf, Attaches

LEMMA ObservePendingKeepsInv ==
    ASSUME Inv, ObservePending
    PROVE  Inv'
<1>1. /\ UNCHANGED <<jobs, pending, failed, batches, nextBatch>>
      /\ UNCHANGED <<offered, old, asked, reps, aged, full, mirrored, troubles>>
  BY DEF ObservePending, hostVars, envVars
<1>2. ASSUME NEW k \in Keys
      PROVE  /\ tracked'[k] \in {None} \cup Sight
             /\ tracked'[k] # None =>
                   /\ tracked[k] # None /\ tracked'[k].token = tracked[k].token
                   /\ tracked'[k].seen => tracked[k].seen
                                          \/ Presence(tracked[k].token) \in {"present", "failed"}
  <2>1. tracked[k] \in {None} \cup Sight
    BY DEF Inv, RestartsTypeOK
  <2>2. CASE Sighted(k)
    <3>1. tracked[k] # None /\ tracked[k] \in Sight
      BY <2>1, <2>2 DEF Sighted
    <3>2. tracked'[k] = [tracked[k] EXCEPT !.seen = TRUE]
      BY <2>2 DEF ObservePending
    <3>3. tracked'[k] \in Sight /\ tracked'[k].token = tracked[k].token
      BY <3>1, <3>2 DEF Sight
    <3>4. QED
      BY <2>2, <3>1, <3>3 DEF Sighted
  <2>3. CASE ~Sighted(k)
    BY <2>1, <2>3 DEF ObservePending
  <2>4. QED
    BY <2>2, <2>3
<1>3. RestartsTypeOK'
  <2>1. tracked' \in [Keys -> {None} \cup Sight]
    BY <1>2 DEF ObservePending
  <2>2. QED
    BY <1>1, <2>1 DEF Inv, RestartsTypeOK
<1>4. Numbered'
  BY <1>1 DEF Inv, Numbered, JobsAreCounted, OwnedOnce, BatchesCount, JobsOf
<1>5. Known'
  <2>1. ASSUME NEW k \in Keys, tracked'[k] # None
        PROVE  /\ k \in pending /\ Knows(tracked[k], k)'
               /\ \A j \in jobs : j.key = k => j.token = tracked'[k].token
    <3>1. /\ k \in pending /\ Knows(tracked[k], k)
          /\ \A j \in jobs : j.key = k => j.token = tracked[k].token
      BY <1>2, <2>1 DEF Inv, Known
    <3>2. tracked[k].token # 0
      BY <1>2, <2>1 DEF Inv, RestartsTypeOK, Sight, Tokens
    <3>3. tracked[k].token \in DOMAIN reps
      BY <3>1, <3>2 DEF Knows
    <3>4. tracked'[k].seen => reps[tracked[k].token].st # "spawned"
      BY <1>2, <2>1, <3>1, <3>3, PresenceTells DEF Knows
    <3>5. QED
      BY <1>1, <1>2, <2>1, <3>1, <3>2, <3>4 DEF Knows
  <2>2. QED
    BY <1>1, <2>1 DEF Inv, Known, Knows, Shaped
<1>6. Ordered'
  BY <1>1 DEF Inv, Ordered, Follows
<1>7. Owned'
  BY <1>1 DEF Inv, Owned, Attaches, Remembered
<1>8. QED
  BY <1>3, <1>4, <1>5, <1>6, <1>7 DEF Inv

LEMMA ObserveFailedKeepsInv ==
    ASSUME Inv, ObserveFailed
    PROVE  Inv'
<1>1. /\ UNCHANGED <<jobs, pending, tracked, batches, nextBatch>>
      /\ UNCHANGED <<offered, old, asked, reps, aged, full, mirrored, troubles>>
  BY DEF ObserveFailed, hostVars, envVars
<1>2. ASSUME NEW k \in Keys
      PROVE  /\ failed'[k] \in {None} \cup Job
             /\ failed'[k] # None =>
                   /\ failed[k] # None /\ failed'[k].key = failed[k].key
                   /\ failed'[k].token = failed[k].token
                   /\ failed'[k].confirmed = failed[k].confirmed
                   /\ failed'[k].seen => failed[k].seen
                                         \/ Presence(failed[k].token) \in {"present", "failed"}
             /\ failed[k] # None /\ failed'[k] = None =>
                   failed[k].seen /\ Presence(failed[k].token) = "missing"
  <2>1. failed[k] \in {None} \cup Job /\ failed'[k] = Kept(failed[k])
    BY DEF Inv, RestartsTypeOK, ObserveFailed
  <2>2. CASE failed[k] = None
    BY <2>1, <2>2 DEF Kept
  <2>3. CASE failed[k] # None /\ Presence(failed[k].token) \in {"present", "failed"}
    <3>1. failed'[k] = [failed[k] EXCEPT !.seen = TRUE] /\ failed[k] \in Job
      BY <2>1, <2>3 DEF Kept
    <3>2. /\ failed'[k] \in Job /\ failed'[k].key = failed[k].key
          /\ failed'[k].token = failed[k].token /\ failed'[k].confirmed = failed[k].confirmed
      BY <3>1 DEF Job
    <3>3. QED
      BY <2>3, <3>2, NoneAssumption
  <2>4. CASE failed[k] # None /\ Presence(failed[k].token) = "missing"
    BY <2>1, <2>4 DEF Kept
  <2>5. CASE /\ failed[k] # None
             /\ Presence(failed[k].token) \notin {"present", "failed", "missing"}
    BY <2>1, <2>5 DEF Kept
  <2>6. QED
    BY <2>2, <2>3, <2>4, <2>5
<1>3. RestartsTypeOK'
  <2>1. failed' \in [Keys -> {None} \cup Job]
    BY <1>2 DEF ObserveFailed
  <2>2. QED
    BY <1>1, <2>1 DEF Inv, RestartsTypeOK
<1>4. Numbered'
  BY <1>1 DEF Inv, Numbered, JobsAreCounted, OwnedOnce, BatchesCount, JobsOf
<1>5. Known'
  <2>1. ASSUME NEW k \in Keys, failed'[k] # None
        PROVE  /\ failed'[k].key = k /\ k \notin pending /\ failed'[k].token # 0
               /\ Knows(failed[k], k)'
    <3>1. failed[k].key = k /\ k \notin pending /\ failed[k].token # 0 /\ Knows(failed[k], k)
      BY <1>2, <2>1 DEF Inv, Known
    <3>2. failed[k].token \in DOMAIN reps
      BY <3>1 DEF Knows
    <3>3. failed'[k].seen => reps[failed[k].token].st # "spawned"
      BY <1>2, <2>1, <3>1, <3>2, PresenceTells DEF Knows
    <3>4. QED
      BY <1>1, <1>2, <2>1, <3>1, <3>3 DEF Knows
  <2>2. QED
    BY <1>1, <2>1 DEF Inv, Known, Knows, Shaped
<1>6. Ordered'
  BY <1>1, <1>2 DEF Inv, Ordered, Follows
<1>7. Owned'
  <2>1. ASSUME NEW n \in DOMAIN reps, Attaches(n) PROVE Remembered(n)'
    <3>1. Remembered(n)
      BY <2>1 DEF Inv, Owned
    <3>2. CASE \E j \in jobs : j.token = n
      BY <1>1, <3>2 DEF Remembered
    <3>3. CASE failed[reps[n].key] # None /\ failed[reps[n].key].token = n
      <4>1. reps[n].key \in Keys
        BY ReplacementType DEF Inv, Replacement
      <4>2. failed[reps[n].key].seen => reps[n].st # "spawned"
        BY <3>3, <4>1 DEF Inv, Known, Knows
      <4>3. failed'[reps[n].key] # None
        BY <1>2, <2>1, <3>3, <4>1, <4>2, PresenceTells
      <4>4. QED
        BY <1>1, <1>2, <3>3, <4>1, <4>3 DEF Remembered
    <3>4. QED
      BY <3>1, <3>2, <3>3 DEF Remembered
  <2>2. QED
    BY <1>1, <2>1 DEF Owned, Attaches
<1>8. QED
  BY <1>3, <1>4, <1>5, <1>6, <1>7 DEF Inv


------------------------------------------------------------------------------
(* A job is settled *)

\* One job fewer, and its batch counts it.
LEMMA SettleNumbered ==
    ASSUME Inv, NEW j \in jobs, Settle(j)
    PROVE  Numbered' /\ batches' \in [Batches -> {None} \cup Batch]
<1> DEFINE b == j.batch
<1>1. j \in Job /\ b \in Batches /\ j.key \in Keys
  BY DEF Inv, RestartsTypeOK, Job
<1>2. /\ jobs' = jobs \ {j} /\ pending' = pending \ {j.key} /\ batches' = Counted(b)
      /\ nextBatch' = nextBatch
  BY DEF Settle
<1>3. /\ \A i, k \in jobs : i.key = k.key => i = k
      /\ pending = {i.key : i \in jobs} /\ IsFiniteSet(jobs)
  BY DEF Inv, Numbered, JobsAreCounted, OwnedOnce
<1>4. OwnedOnce'
  BY <1>2, <1>3 DEF OwnedOnce
<1>5. IsFiniteSet(jobs')
  BY <1>2, <1>3, FS_RemoveElement
<1>6. /\ batches[b] # None /\ batches[b] \in Batch
      /\ batches[b].finished + Cardinality(JobsOf(b)) = batches[b].total
  BY <1>1 DEF Inv, Numbered, JobsAreCounted, BatchesCount, RestartsTypeOK
<1>7. batches[b].finished \in Nat /\ batches[b].total \in Nat
  BY <1>6 DEF Batch
<1>8. /\ IsFiniteSet(JobsOf(b)) /\ j \in JobsOf(b) /\ Cardinality(JobsOf(b)) \in Nat
  <2>1. IsFiniteSet(JobsOf(b)) /\ j \in JobsOf(b)
    BY <1>3, FS_Subset DEF JobsOf
  <2>2. QED
    BY <2>1, FS_CardinalityType
<1>9. /\ JobsOf(b)' = JobsOf(b) \ {j} /\ IsFiniteSet(JobsOf(b)')
      /\ Cardinality(JobsOf(b)') = Cardinality(JobsOf(b)) - 1
  <2>1. JobsOf(b)' = JobsOf(b) \ {j}
    BY <1>2 DEF JobsOf
  <2>2. QED
    BY <1>8, <2>1, FS_RemoveElement
<1>10. \A a \in Batches \ {b} : JobsOf(a)' = JobsOf(a)
  BY <1>2 DEF JobsOf
<1>11. JobsOf(b)' = {} <=> batches[b].finished + 1 = batches[b].total
  <2>1. JobsOf(b)' = {} <=> Cardinality(JobsOf(b)') = 0
    BY <1>9, FS_EmptySet
  <2>2. QED
    BY <1>6, <1>7, <1>8, <1>9, <2>1
<1>12. \A i \in jobs : i.batch \in Batches
  BY DEF Inv, RestartsTypeOK, Job
<1>13. batches \in [Batches -> {None} \cup Batch]
  BY DEF Inv, RestartsTypeOK
<1>14. BatchesCount /\ \A a \in Batches : batches[a] # None => a <= nextBatch
  BY DEF Inv, Numbered, JobsAreCounted
<1> HIDE DEF b
<1>15. CASE batches[b].finished + 1 = batches[b].total
  <2>1. batches' = [batches EXCEPT ![b] = None]
    BY <1>2, <1>15 DEF Counted
  <2>2. batches'[b] = None /\ \A a \in Batches \ {b} : batches'[a] = batches[a]
    BY <1>1, <1>13, <2>1
  <2>3. \A i \in jobs' : i.batch # b
    BY <1>11, <1>15 DEF JobsOf
  <2>4. \A i \in jobs' : batches'[i.batch] # None
    BY <1>2, <1>12, <1>14, <2>2, <2>3 DEF BatchesCount
  <2>5. ASSUME NEW a \in Batches, batches'[a] # None
        PROVE  /\ JobsOf(a)' # {}
               /\ batches'[a].finished + Cardinality(JobsOf(a)') = batches'[a].total
    BY <1>10, <1>14, <2>2, <2>5 DEF BatchesCount
  <2>6. BatchesCount'
    BY <2>4, <2>5 DEF BatchesCount
  <2>7. QED
    BY <1>2, <1>4, <1>5, <1>13, <1>14, <2>1, <2>2, <2>6 DEF Numbered, JobsAreCounted
<1>16. CASE batches[b].finished + 1 # batches[b].total
  <2> DEFINE c == [batches[b] EXCEPT !.finished = @ + 1]
  <2>1. batches' = [batches EXCEPT ![b] = c]
    BY <1>2, <1>16 DEF Counted
  <2>2. /\ c \in Batch /\ c.total = batches[b].total
        /\ c.finished = batches[b].finished + 1
    BY <1>6 DEF Batch
  <2> HIDE DEF c
  <2>3. batches'[b] = c /\ \A a \in Batches \ {b} : batches'[a] = batches[a]
    BY <1>1, <1>13, <2>1
  <2>4. c # None
    BY <2>2, NoneAssumption
  <2>5. \A i \in jobs' : batches'[i.batch] # None
    BY <1>2, <1>12, <1>14, <2>3, <2>4 DEF BatchesCount
  <2>6. /\ JobsOf(b)' # {}
        /\ c.finished + Cardinality(JobsOf(b)') = c.total
    BY <1>6, <1>7, <1>8, <1>9, <1>11, <1>16, <2>2
  <2>7. ASSUME NEW a \in Batches, batches'[a] # None
        PROVE  /\ JobsOf(a)' # {}
               /\ batches'[a].finished + Cardinality(JobsOf(a)') = batches'[a].total
    <3>1. CASE a = b
      BY <2>3, <2>6, <3>1
    <3>2. CASE a # b
      BY <1>10, <1>14, <2>3, <2>7, <3>2 DEF BatchesCount
    <3>3. QED
      BY <3>1, <3>2
  <2>8. BatchesCount'
    BY <2>5, <2>7 DEF BatchesCount
  <2>9. \A a \in Batches : batches'[a] # None => a <= nextBatch'
    BY <1>2, <1>6, <1>14, <2>3
  <2>10. batches' \in [Batches -> {None} \cup Batch]
    BY <1>13, <2>1, <2>2
  <2>11. QED
    BY <1>4, <1>5, <2>8, <2>9, <2>10 DEF Numbered, JobsAreCounted
<1>17. QED
  BY <1>15, <1>16

\* What becomes of the replacement of a job that is settled.
LEMMA SettleReps ==
    ASSUME Inv, NEW j \in jobs, Settle(j)
    PROVE  /\ reps' \in Seq(Replacement) /\ Len(reps') <= MaxReps
           /\ DOMAIN reps' = DOMAIN reps /\ 0 \notin DOMAIN reps
           /\ \A n \in DOMAIN reps : /\ reps'[n].key = reps[n].key
                                     /\ reps'[n].told = reps[n].told
                                     /\ reps'[n].st = reps[n].st
                                     /\ ~reps'[n].settled => ~reps[n].settled
           /\ j.at = "ended" /\ j.token # 0 => reps'[j.token].settled
<1>1. RestartsTypeOK /\ Knows(j, j.key)
  BY DEF Inv, Known
<1>2. 0 \notin DOMAIN reps
  BY <1>1, ReplacementType DEF Tokens
<1>3. CASE j.at = "ended" /\ j.token # 0
  <2> DEFINE r == [reps[j.token] EXCEPT !.settled = TRUE]
  <2>1. j.token \in DOMAIN reps
    BY <1>1, <1>3 DEF Knows
  <2>2. reps[j.token] \in Replacement
    BY <1>1, <2>1, ReplacementType
  <2>3. /\ r \in Replacement /\ r.settled /\ r.key = reps[j.token].key
        /\ r.told = reps[j.token].told /\ r.st = reps[j.token].st
    BY <2>2 DEF Replacement
  <2>4. reps' = [reps EXCEPT ![j.token] = r]
    BY <1>3 DEF Settle
  <2> HIDE DEF r
  <2>5. QED
    BY <1>1, <1>2, <2>1, <2>3, <2>4, ReplacementChanged
<1>4. CASE ~(j.at = "ended" /\ j.token # 0)
  BY <1>1, <1>2, <1>4 DEF Settle, RestartsTypeOK
<1>5. QED
  BY <1>3, <1>4

\* What is remembered of it.
LEMMA SettleFailed ==
    ASSUME Inv, NEW j \in jobs, Settle(j)
    PROVE  /\ failed' \in [Keys -> {None} \cup Job]
           /\ failed[j.key] = None
           /\ \A k \in Keys \ {j.key} : failed'[k] = failed[k]
           /\ j.at = "unconfirmed" /\ j.token # 0 => failed'[j.key] # None
           /\ failed'[j.key] # None =>
                 /\ failed'[j.key].key = j.key /\ failed'[j.key].token = j.token
                 /\ failed'[j.key].confirmed = j.confirmed /\ j.token # 0
                 /\ failed'[j.key].seen => reps[j.token].st # "spawned"
<1>1. /\ failed \in [Keys -> {None} \cup Job] /\ j \in Job
      /\ tracked \in [Keys -> {None} \cup Sight]
  BY DEF Inv, RestartsTypeOK
<1>2. j.key \in Keys /\ j.key \in pending /\ Knows(j, j.key)
  BY <1>1 DEF Job, Inv, Known, Numbered, JobsAreCounted, OwnedOnce
<1>3. failed[j.key] = None
  BY <1>2 DEF Inv, Known
<1>4. CASE j.at = "unconfirmed" /\ j.token # 0
  <2> DEFINE f == [j EXCEPT !.seen = @ \/ Sighted(j.key)]
  <2>1. /\ f \in Job /\ f.key = j.key /\ f.token = j.token /\ f.confirmed = j.confirmed
        /\ f.seen => j.seen \/ Sighted(j.key)
    <3>1. (j.seen \/ Sighted(j.key)) \in BOOLEAN
      OBVIOUS
    <3> DEFINE s == j.seen \/ Sighted(j.key)
    <3>2. f = [j EXCEPT !.seen = s]
      OBVIOUS
    <3>3. s \in BOOLEAN
      BY <3>1
    <3> HIDE DEF s
    <3>4. [j EXCEPT !.seen = s] \in Job /\ [j EXCEPT !.seen = s].seen = s
      BY <1>1, <3>3 DEF Job
    <3>5. f \in Job /\ f.seen = s
      BY <3>2, <3>4
    <3>6. f.key = j.key /\ f.token = j.token /\ f.confirmed = j.confirmed
      BY <1>1 DEF Job
    <3>7. QED
      BY <3>5, <3>6 DEF s
  <2>2. failed' = [failed EXCEPT ![j.key] = f]
    BY <1>4 DEF Settle
  <2>3. Sighted(j.key) => reps[j.token].st # "spawned"
    <3>1. SUFFICES ASSUME Sighted(j.key) PROVE reps[j.token].st # "spawned"
      OBVIOUS
    <3>2. /\ tracked[j.key] # None
          /\ Knows(tracked[j.key], j.key)
          /\ tracked[j.key].token = j.token
      BY <1>2, <3>1 DEF Sighted, Inv, Known
    <3>3. j.token \in DOMAIN reps
      BY <1>2, <1>4 DEF Knows
    <3>4. QED
      BY <3>1, <3>2, <3>3, PresenceTells DEF Sighted, Knows
  <2>4. f.seen => reps[j.token].st # "spawned"
    BY <1>2, <2>1, <2>3 DEF Knows
  <2>5. f # None
    BY <2>1, NoneAssumption
  <2> HIDE DEF f
  <2>6. failed'[j.key] = f /\ \A k \in Keys \ {j.key} : failed'[k] = failed[k]
    BY <1>1, <1>2, <2>2
  <2>7. failed' \in [Keys -> {None} \cup Job]
    BY <1>1, <2>1, <2>2
  <2>8. QED
    BY <1>3, <1>4, <2>1, <2>4, <2>5, <2>6, <2>7
<1>5. CASE ~(j.at = "unconfirmed" /\ j.token # 0)
  BY <1>1, <1>3, <1>5 DEF Settle
<1>6. QED
  BY <1>4, <1>5

LEMMA SettleKeepsInv ==
    ASSUME Inv, NEW j \in jobs, Settle(j)
    PROVE  Inv'
<1>1. /\ jobs' = jobs \ {j} /\ pending' = pending \ {j.key}
      /\ tracked' = [tracked EXCEPT ![j.key] = None]
      /\ UNCHANGED <<nextBatch, offered, old, asked, aged, full, mirrored, troubles>>
  BY DEF Settle, envVars
<1>2. /\ j \in Job /\ j.key \in Keys /\ tracked \in [Keys -> {None} \cup Sight]
      /\ \A i \in jobs : i.key = j.key => i = j
  BY DEF Inv, RestartsTypeOK, Job, Numbered, JobsAreCounted, OwnedOnce
<1>3. /\ reps' \in Seq(Replacement) /\ Len(reps') <= MaxReps
      /\ DOMAIN reps' = DOMAIN reps /\ 0 \notin DOMAIN reps
      /\ \A n \in DOMAIN reps : /\ reps'[n].key = reps[n].key
                                /\ reps'[n].told = reps[n].told
                                /\ reps'[n].st = reps[n].st
                                /\ ~reps'[n].settled => ~reps[n].settled
      /\ j.at = "ended" /\ j.token # 0 => reps'[j.token].settled
  BY SettleReps
<1>4. /\ failed' \in [Keys -> {None} \cup Job]
      /\ failed[j.key] = None
      /\ \A k \in Keys \ {j.key} : failed'[k] = failed[k]
      /\ j.at = "unconfirmed" /\ j.token # 0 => failed'[j.key] # None
      /\ failed'[j.key] # None =>
            /\ failed'[j.key].key = j.key /\ failed'[j.key].token = j.token
            /\ failed'[j.key].confirmed = j.confirmed /\ j.token # 0
            /\ failed'[j.key].seen => reps[j.token].st # "spawned"
  BY SettleFailed
<1>5. Numbered' /\ batches' \in [Batches -> {None} \cup Batch]
  BY SettleNumbered
<1>6. RestartsTypeOK'
  <2>1. /\ jobs' \subseteq Job
        /\ pending' \subseteq Keys
        /\ tracked' \in [Keys -> {None} \cup Sight]
    BY <1>1, <1>2 DEF Inv, RestartsTypeOK
  <2>2. QED
    BY <1>1, <1>3, <1>4, <1>5, <2>1 DEF Inv, RestartsTypeOK
<1>7. Known'
  <2>1. ASSUME NEW i \in jobs' PROVE Shaped(i) /\ Knows(i, i.key)'
    <3>1. Shaped(i) /\ Knows(i, i.key)
      BY <1>1 DEF Inv, Known
    <3>2. QED
      BY <1>3, <3>1, KnowsStays DEF Knows
  <2>2. ASSUME NEW k \in Keys, failed'[k] # None
        PROVE  /\ failed'[k].key = k /\ k \notin pending' /\ failed'[k].token # 0
               /\ Knows(failed[k], k)'
    <3>1. CASE k = j.key
      <4>1. Knows(j, j.key)
        BY DEF Inv, Known
      <4>2. QED
        BY <1>1, <1>3, <1>4, <2>2, <3>1, <4>1 DEF Knows
    <3>2. CASE k # j.key
      <4>1. /\ failed[k].key = k /\ k \notin pending /\ failed[k].token # 0
            /\ Knows(failed[k], k) /\ failed'[k] = failed[k]
        BY <1>4, <2>2, <3>2 DEF Inv, Known
      <4>2. QED
        BY <1>1, <1>3, <4>1, KnowsStays DEF Knows
    <3>3. QED
      BY <3>1, <3>2
  <2>3. ASSUME NEW k \in Keys, tracked'[k] # None
        PROVE  /\ k \in pending' /\ Knows(tracked[k], k)'
               /\ \A i \in jobs' : i.key = k => i.token = tracked'[k].token
    <3>1. k # j.key /\ tracked'[k] = tracked[k]
      BY <1>1, <1>2, <2>3
    <3>2. /\ k \in pending /\ Knows(tracked[k], k)
          /\ \A i \in jobs : i.key = k => i.token = tracked[k].token
      BY <2>3, <3>1 DEF Inv, Known
    <3>3. QED
      BY <1>1, <1>3, <3>1, <3>2, KnowsStays DEF Knows
  <2>4. QED
    BY <2>1, <2>2, <2>3 DEF Known, Shaped
<1>8. Ordered'
  <2>1. \A i \in jobs' : Follows(i)'
    BY <1>1 DEF Inv, Ordered, Follows
  <2>2. ASSUME NEW k \in Keys, failed'[k] # None, failed'[k].confirmed
        PROVE  old[k] = "gone"
    <3>1. Follows(j)
      BY DEF Inv, Ordered
    <3>2. QED
      BY <1>4, <2>2, <3>1 DEF Inv, Ordered, Follows
  <2>3. \A n \in DOMAIN reps' :
           reps'[n].st = "running" \/ reps'[n].key \notin Codex => old[reps'[n].key] = "gone"
    BY <1>3 DEF Inv, Ordered
  <2>4. \A k \in asked \cap Codex : \E n \in DOMAIN reps' : reps'[n].key = k /\ reps'[n].told
    BY <1>3 DEF Inv, Ordered
  <2>5. QED
    BY <1>1, <2>1, <2>2, <2>3, <2>4 DEF Inv, Ordered
<1>9. Owned'
  <2>1. ASSUME NEW n \in DOMAIN reps', Attaches(n)' PROVE Remembered(n)'
    <3>1. Attaches(n) /\ n # 0
      BY <1>3, <2>1 DEF Attaches
    <3>2. Remembered(n)
      BY <1>3, <2>1, <3>1 DEF Inv, Owned
    <3>3. ASSUME NEW i \in jobs \ {j}, i.token = n PROVE Remembered(n)'
      BY <1>1, <3>3 DEF Remembered
    <3>4. CASE j.token = n
      <4>1. Knows(j, j.key)
        BY DEF Inv, Known
      <4>2. reps[n].key = j.key
        BY <3>1, <3>4, <4>1 DEF Knows
      <4>3. j.at = "unconfirmed"
        BY <1>3, <2>1, <3>1, <3>4 DEF Attaches, Settle, Done
      <4>4. QED
        BY <1>3, <1>4, <2>1, <3>1, <3>4, <4>2, <4>3 DEF Remembered
    <3>5. CASE failed[reps[n].key] # None /\ failed[reps[n].key].token = n
      <4>1. reps[n].key \in Keys
        BY <1>3, <2>1, ReplacementType DEF Inv, Replacement
      <4>2. QED
        BY <1>3, <1>4, <2>1, <3>5, <4>1 DEF Remembered
    <3>6. QED
      BY <3>2, <3>3, <3>4, <3>5 DEF Remembered
  <2>2. QED
    BY <2>1 DEF Owned
<1>10. QED
  BY <1>5, <1>6, <1>7, <1>8, <1>9 DEF Inv


------------------------------------------------------------------------------
(* Restarts are confirmed *)

\* Enqueue's own names.
Taken(S) == {k \in S \ pending : Reuses(k) \/ Anew(k)}
NewJob(k) ==
    IF Reuses(k)
    THEN [failed[k] EXCEPT !.batch = nextBatch + 1, !.reuse = TRUE, !.at = "queued"]
    ELSE [key |-> k, batch |-> nextBatch + 1, at |-> "queued", token |-> 0,
          seen |-> FALSE, reuse |-> FALSE, confirmed |-> FALSE]

LEMMA Enqueued ==
    ASSUME NEW S, Enqueue(S)
    PROVE  /\ nextBatch < MaxBatches /\ S \subseteq offered /\ nextBatch' = nextBatch + 1
           /\ jobs' = jobs \cup {NewJob(k) : k \in Taken(S)}
           /\ pending' = pending \cup Taken(S)
           /\ failed' = [k \in Keys |-> IF k \in Taken(S) THEN None ELSE failed[k]]
           /\ batches' = IF Taken(S) = {} THEN batches
                         ELSE [batches EXCEPT ![nextBatch + 1] =
                                  [total |-> Cardinality(Taken(S)), finished |-> 0]]
           /\ offered' = offered \ (S \cap Revived)
           /\ UNCHANGED <<tracked, old, asked, reps, aged, full, mirrored, troubles>>
BY DEF Enqueue, Taken, NewJob, hostVars, envVars

\* The job of a restart that was confirmed.
LEMMA NewJobs ==
    ASSUME Inv, NEW k \in Keys \ pending, nextBatch < MaxBatches
    PROVE  /\ NewJob(k) \in Job /\ NewJob(k).key = k /\ NewJob(k).batch = nextBatch + 1
           /\ Shaped(NewJob(k)) /\ Knows(NewJob(k), k) /\ Follows(NewJob(k))
           /\ Reuses(k) => failed[k] # None /\ NewJob(k).token = failed[k].token
<1>1. nextBatch + 1 \in Batches
  BY RestartsAssumption DEF Inv, RestartsTypeOK, Batches
<1>2. CASE Reuses(k)
  <2>1. failed[k] # None /\ failed[k] \in Job
    BY <1>2 DEF Reuses, Inv, RestartsTypeOK
  <2>2. /\ failed[k].key = k /\ failed[k].token # 0 /\ Knows(failed[k], k)
        /\ failed[k].confirmed => old[k] = "gone"
    BY <2>1 DEF Inv, Known, Ordered
  <2>3. /\ NewJob(k) \in Job /\ NewJob(k).key = failed[k].key
        /\ NewJob(k).batch = nextBatch + 1 /\ NewJob(k).at = "queued" /\ NewJob(k).reuse
        /\ NewJob(k).token = failed[k].token /\ NewJob(k).seen = failed[k].seen
        /\ NewJob(k).confirmed = failed[k].confirmed
    <3> DEFINE b == nextBatch + 1
    <3>1. b \in Batches
      BY <1>1
    <3>2. NewJob(k) = [failed[k] EXCEPT !.batch = b, !.reuse = TRUE, !.at = "queued"]
      BY <1>2 DEF NewJob
    <3> HIDE DEF b
    <3>3. /\ NewJob(k) \in Job /\ NewJob(k).key = failed[k].key
          /\ NewJob(k).batch = b /\ NewJob(k).at = "queued" /\ NewJob(k).reuse
          /\ NewJob(k).token = failed[k].token /\ NewJob(k).seen = failed[k].seen
          /\ NewJob(k).confirmed = failed[k].confirmed
      BY <2>1, <3>1, <3>2 DEF Job, Waiting
    <3>4. QED
      BY <3>3 DEF b
  <2>4. Shaped(NewJob(k)) /\ Follows(NewJob(k)) /\ Knows(NewJob(k), k)
    BY <2>2, <2>3 DEF Shaped, Follows, Knows
  <2>5. QED
    BY <2>1, <2>2, <2>3, <2>4
<1>3. CASE ~Reuses(k)
  <2>1. NewJob(k) = [key |-> k, batch |-> nextBatch + 1, at |-> "queued", token |-> 0,
                     seen |-> FALSE, reuse |-> FALSE, confirmed |-> FALSE]
    BY <1>3 DEF NewJob
  <2>2. NewJob(k) \in Job
    BY <1>1, <2>1 DEF Job, Waiting
  <2>3. Shaped(NewJob(k)) /\ Follows(NewJob(k)) /\ Knows(NewJob(k), k)
    BY <2>1 DEF Shaped, Follows, Knows
  <2>4. QED
    BY <1>3, <2>1, <2>2, <2>3
<1>4. QED
  BY <1>2, <1>3

\* One job for each, and a batch that counts them.
LEMMA NewJobsCounted ==
    ASSUME Inv, NEW T \in SUBSET (Keys \ pending), nextBatch < MaxBatches
    PROVE  LET new == {NewJob(k) : k \in T}
           IN  IsFiniteSet(new) /\ Cardinality(new) = Cardinality(T) /\ IsFiniteSet(T)
<1> DEFINE new == {NewJob(k) : k \in T}
           f == [k \in T |-> NewJob(k)]
<1>1. IsFiniteSet(T)
  BY RestartsAssumption, FS_Subset
<1>2. \A k \in T : NewJob(k).key = k
  BY NewJobs
<1>3. f \in Bijection(T, new)
  BY <1>2 DEF Bijection, Injection, Surjection, IsInjective
<1>4. ExistsBijection(T, new)
  BY <1>3 DEF ExistsBijection
<1> HIDE DEF new, f
<1>5. IsFiniteSet(new) /\ Cardinality(new) = Cardinality(T)
  BY <1>1, <1>4, FS_Bijection
<1>6. QED
  BY <1>1, <1>5 DEF new

LEMMA EnqueueNumbered ==
    ASSUME Inv, NEW S, Enqueue(S)
    PROVE  Numbered' /\ batches' \in [Batches -> {None} \cup Batch]
<1> SUFFICES ASSUME NEW b, b = nextBatch + 1
             PROVE  Numbered' /\ batches' \in [Batches -> {None} \cup Batch]
  OBVIOUS
<1> DEFINE T == Taken(S)
           new == {NewJob(k) : k \in T}
<1>1. /\ nextBatch < MaxBatches /\ S \subseteq Keys /\ nextBatch' = b
      /\ jobs' = jobs \cup new /\ pending' = pending \cup T
      /\ batches' = IF T = {} THEN batches
                    ELSE [batches EXCEPT ![b] = [total |-> Cardinality(T), finished |-> 0]]
  BY Enqueued DEF Inv, RestartsTypeOK
<1>2. T \in SUBSET (Keys \ pending)
  BY <1>1 DEF Taken
<1>3. \A k \in T : NewJob(k).key = k /\ NewJob(k).batch = b
  BY <1>1, <1>2, NewJobs
<1>4. IsFiniteSet(new) /\ Cardinality(new) = Cardinality(T) /\ IsFiniteSet(T)
  BY <1>1, <1>2, NewJobsCounted
<1>5. b \in Batches /\ nextBatch \in Nat /\ b = nextBatch + 1
  BY <1>1, RestartsAssumption DEF Inv, RestartsTypeOK, Batches
<1>6. /\ \A i, j \in jobs : i.key = j.key => i = j
      /\ pending = {j.key : j \in jobs} /\ IsFiniteSet(jobs)
      /\ \A a \in Batches : batches[a] # None => a <= nextBatch
      /\ BatchesCount
  BY DEF Inv, Numbered, JobsAreCounted, OwnedOnce
<1>7. batches[b] = None
  BY <1>5, <1>6 DEF Batches
<1>8. \A j \in jobs : j.batch # b
  BY <1>6, <1>7 DEF BatchesCount
<1>9. batches \in [Batches -> {None} \cup Batch]
  BY DEF Inv, RestartsTypeOK
<1> HIDE DEF T
<1>10. OwnedOnce'
  <2>1. \A j \in jobs : j.key \notin T
    BY <1>2, <1>6
  <2>2. \A i, j \in jobs' : i.key = j.key => i = j
    BY <1>1, <1>3, <1>6, <2>1
  <2>3. pending' = {j.key : j \in jobs'}
    BY <1>1, <1>3, <1>6
  <2>4. QED
    BY <2>2, <2>3 DEF OwnedOnce
<1>11. IsFiniteSet(jobs')
  BY <1>1, <1>4, <1>6, FS_Union
<1>12. JobsOf(b)' = new
  BY <1>1, <1>3, <1>8 DEF JobsOf
<1>13. \A a \in Batches \ {b} : JobsOf(a)' = JobsOf(a)
  BY <1>1, <1>3 DEF JobsOf
<1> DEFINE c == [total |-> Cardinality(T), finished |-> 0]
<1>14. c \in Batch /\ c.finished = 0 /\ c.total = Cardinality(T) /\ c # None
  <2>1. Cardinality(T) \in Nat
    BY <1>4, FS_CardinalityType
  <2>2. c \in Batch
    BY <2>1 DEF Batch
  <2>3. QED
    BY <2>2, NoneAssumption
<1>15. CASE T = {}
  <2>1. jobs' = jobs /\ batches' = batches
    BY <1>1, <1>15
  <2>2. BatchesCount'
    BY <1>6, <2>1 DEF BatchesCount, JobsOf
  <2>3. \A a \in Batches : batches'[a] # None => a <= nextBatch'
    BY <1>1, <1>5, <1>6, <2>1 DEF Batches
  <2>4. QED
    BY <1>9, <1>10, <1>11, <2>1, <2>2, <2>3 DEF Numbered, JobsAreCounted
<1>16. CASE T # {}
  <2>1. batches' = [batches EXCEPT ![b] = c]
    BY <1>1, <1>16
  <2>2. c.finished + Cardinality(new) = c.total
    <3>1. Cardinality(T) \in Nat
      BY <1>4, FS_CardinalityType
    <3>2. QED
      BY <1>4, <1>14, <3>1
  <2> HIDE DEF c, new
  <2>3. batches'[b] = c /\ \A a \in Batches \ {b} : batches'[a] = batches[a]
    BY <1>5, <1>9, <2>1
  <2>4. \A j \in jobs : j.batch \in Batches
    BY DEF Inv, RestartsTypeOK, Job
  <2>5. \A j \in jobs' : batches'[j.batch] # None
    <3>1. ASSUME NEW j \in jobs PROVE batches'[j.batch] # None
      BY <1>6, <1>8, <2>3, <2>4, <3>1 DEF BatchesCount
    <3>2. ASSUME NEW j \in new PROVE batches'[j.batch] # None
      BY <1>3, <1>14, <2>3, <3>2 DEF new
    <3>3. QED
      BY <1>1, <3>1, <3>2
  <2>6. ASSUME NEW a \in Batches, batches'[a] # None
        PROVE  /\ JobsOf(a)' # {}
               /\ batches'[a].finished + Cardinality(JobsOf(a)') = batches'[a].total
    <3>1. CASE a = b
      BY <1>12, <1>16, <2>2, <2>3, <3>1 DEF new
    <3>2. CASE a # b
      BY <1>6, <1>13, <2>3, <2>6, <3>2 DEF BatchesCount
    <3>3. QED
      BY <3>1, <3>2
  <2>7. BatchesCount'
    BY <2>5, <2>6 DEF BatchesCount
  <2>8. \A a \in Batches : batches'[a] # None => a <= nextBatch'
    BY <1>1, <1>5, <1>6, <2>3 DEF Batches
  <2>9. batches' \in [Batches -> {None} \cup Batch]
    BY <1>9, <1>14, <2>1
  <2>10. QED
    BY <1>10, <1>11, <2>7, <2>8, <2>9 DEF Numbered, JobsAreCounted
<1>17. QED
  BY <1>15, <1>16

LEMMA EnqueueKeepsInv ==
    ASSUME Inv, NEW S, Enqueue(S)
    PROVE  Inv'
<1> DEFINE T == Taken(S)
           new == {NewJob(k) : k \in T}
<1>1. /\ nextBatch < MaxBatches /\ S \subseteq Keys /\ nextBatch' = nextBatch + 1
      /\ jobs' = jobs \cup new /\ pending' = pending \cup T
      /\ failed' = [k \in Keys |-> IF k \in T THEN None ELSE failed[k]]
      /\ offered' = offered \ (S \cap Revived)
      /\ UNCHANGED <<tracked, old, asked, reps, aged, full, mirrored, troubles>>
  BY Enqueued DEF Inv, RestartsTypeOK
<1>2. T \subseteq Keys \ pending /\ \A k \in T : Reuses(k) \/ Anew(k)
  BY <1>1 DEF Taken
<1>3. Numbered' /\ batches' \in [Batches -> {None} \cup Batch]
  BY EnqueueNumbered
<1> HIDE DEF T
<1>4. \A k \in T : /\ NewJob(k) \in Job /\ NewJob(k).key = k
                   /\ Shaped(NewJob(k)) /\ Knows(NewJob(k), k) /\ Follows(NewJob(k))
                   /\ Reuses(k) => failed[k] # None /\ NewJob(k).token = failed[k].token
  BY <1>1, <1>2, NewJobs
<1>5. RestartsTypeOK'
  <2>1. jobs' \subseteq Job
    BY <1>1, <1>4 DEF Inv, RestartsTypeOK
  <2>2. nextBatch' \in 0..MaxBatches
    BY <1>1, RestartsAssumption DEF Inv, RestartsTypeOK
  <2>3. pending' \subseteq Keys /\ offered' \subseteq Keys
    BY <1>1, <1>2 DEF Inv, RestartsTypeOK
  <2>4. failed' \in [Keys -> {None} \cup Job]
    BY <1>1 DEF Inv, RestartsTypeOK
  <2>5. QED
    BY <1>1, <1>3, <2>1, <2>2, <2>3, <2>4 DEF Inv, RestartsTypeOK
<1>6. Known'
  <2>1. ASSUME NEW j \in jobs' PROVE Shaped(j) /\ Knows(j, j.key)'
    BY <1>1, <1>4 DEF Inv, Known, Knows
  <2>2. ASSUME NEW k \in Keys, failed'[k] # None
        PROVE  /\ failed'[k].key = k /\ k \notin pending' /\ failed'[k].token # 0
               /\ Knows(failed[k], k)'
    <3>1. k \notin T /\ failed'[k] = failed[k]
      BY <1>1, <2>2
    <3>2. QED
      BY <1>1, <2>2, <3>1 DEF Inv, Known, Knows
  <2>3. ASSUME NEW k \in Keys, tracked'[k] # None
        PROVE  /\ k \in pending' /\ Knows(tracked[k], k)'
               /\ \A j \in jobs' : j.key = k => j.token = tracked'[k].token
    <3>1. /\ k \in pending /\ Knows(tracked[k], k)
          /\ \A j \in jobs : j.key = k => j.token = tracked[k].token
      BY <1>1, <2>3 DEF Inv, Known
    <3>2. \A j \in new : j.key # k
      BY <1>2, <1>4, <3>1
    <3>3. QED
      BY <1>1, <3>1, <3>2 DEF Knows
  <2>4. QED
    BY <2>1, <2>2, <2>3 DEF Known, Shaped
<1>7. Ordered'
  <2>1. \A j \in jobs' : Follows(j)'
    BY <1>1, <1>4 DEF Inv, Ordered, Follows
  <2>2. \A k \in Keys : failed'[k] # None /\ failed'[k].confirmed => old[k] = "gone"
    BY <1>1 DEF Inv, Ordered
  <2>3. QED
    BY <1>1, <2>1, <2>2 DEF Inv, Ordered
<1>8. Owned'
  <2>1. ASSUME NEW n \in DOMAIN reps, Attaches(n) PROVE Remembered(n)'
    <3> DEFINE k == reps[n].key
    <3>1. Remembered(n)
      BY <2>1 DEF Inv, Owned
    <3>2. CASE \E j \in jobs : j.token = n
      BY <1>1, <3>2 DEF Remembered
    <3>3. CASE failed[k] # None /\ failed[k].token = n
      <4>1. k \in Keys
        BY ReplacementType DEF Inv, Replacement
      <4>2. CASE k \notin T
        BY <1>1, <3>3, <4>1, <4>2 DEF Remembered
      <4>3. CASE k \in T
        <5>1. failed[k].seen => reps[n].st # "spawned"
          BY <3>3, <4>1 DEF Inv, Known, Knows
        <5>2. ~Anew(k)
          BY <2>1, <3>3, <5>1, PresenceTells DEF Anew
        <5>3. Reuses(k)
          BY <1>2, <4>3, <5>2
        <5>4. NewJob(k) \in jobs' /\ NewJob(k).token = n
          BY <1>1, <1>4, <3>3, <4>3, <5>3
        <5>5. QED
          BY <5>4 DEF Remembered
      <4>4. QED
        BY <4>2, <4>3
    <3>4. QED
      BY <3>1, <3>2, <3>3 DEF Remembered
  <2>2. QED
    BY <1>1, <2>1 DEF Owned, Attaches
<1>9. QED
  BY <1>3, <1>5, <1>6, <1>7, <1>8 DEF Inv


------------------------------------------------------------------------------
(* The theorems *)

LEMMA InitInv == Init => Inv
<1> SUFFICES ASSUME Init PROVE Inv
  OBVIOUS
<1>1. /\ reps = <<>> /\ DOMAIN reps = {} /\ Len(reps) = 0 /\ reps \in Seq(Replacement)
  BY EmptySeq DEF Init
<1>2. RestartsTypeOK
  <2>1. Len(reps) <= MaxReps
    BY <1>1, RestartsAssumption
  <2>2. nextBatch \in 0..MaxBatches /\ troubles \in 0..MaxTroubles
    BY RestartsAssumption DEF Init
  <2>3. QED
    BY <1>1, <2>1, <2>2 DEF Init, RestartsTypeOK
<1>3. Numbered
  <2>1. IsFiniteSet(jobs)
    BY FS_EmptySet DEF Init
  <2>2. OwnedOnce
    BY DEF Init, OwnedOnce
  <2>3. BatchesCount
    BY DEF Init, BatchesCount
  <2>4. QED
    BY <2>1, <2>2, <2>3 DEF Init, Numbered, JobsAreCounted
<1>4. Known /\ Owned
  BY <1>1 DEF Init, Known, Owned
<1>5. Ordered
  BY <1>1, RestartsAssumption DEF Init, Ordered
<1>6. QED
  BY <1>2, <1>3, <1>4, <1>5 DEF Inv

LEMMA NextKeepsInv == Inv /\ [Next]_vars => Inv'
<1> SUFFICES ASSUME Inv, [Next]_vars PROVE Inv'
  OBVIOUS
<1>1. ASSUME NEW S, Enqueue(S) PROVE Inv'
  BY <1>1, EnqueueKeepsInv
<1>2. ASSUME NEW j \in jobs, OnJob(j) PROVE Inv'
  <2>1. CASE Settle(j)
    BY <2>1, SettleKeepsInv
  <2>2. CASE ~Settle(j)
    BY <1>2, <2>2, JobMoves, MovesKeepInv DEF OnJob
  <2>3. QED
    BY <2>1, <2>2
<1>3. CASE ObservePending
  BY <1>3, ObservePendingKeepsInv
<1>4. CASE ObserveFailed
  BY <1>4, ObserveFailedKeepsInv
<1>5. CASE Fill \/ Free \/ LinkDrops \/ Snapshot
  <2>1. /\ UNCHANGED <<queueVars, offered, old, asked, reps, aged>>
        /\ full' \in BOOLEAN /\ mirrored' \in BOOLEAN /\ troubles' \in 0..MaxTroubles
    <3>1. /\ MaxTroubles \in Nat /\ troubles \in 0..MaxTroubles
          /\ full \in BOOLEAN /\ mirrored \in BOOLEAN
      BY RestartsAssumption DEF Inv, RestartsTypeOK
    <3>2. troubles < MaxTroubles => troubles + 1 \in 0..MaxTroubles
      BY <3>1
    <3>3. CASE Fill
      BY <3>1, <3>2, <3>3 DEF Fill, hostVars
    <3>4. CASE Free
      BY <3>1, <3>4 DEF Free, hostVars
    <3>5. CASE LinkDrops
      BY <3>1, <3>2, <3>5 DEF LinkDrops, hostVars
    <3>6. CASE Snapshot
      BY <3>1, <3>6 DEF Snapshot, hostVars
    <3>7. QED
      BY <1>5, <3>3, <3>4, <3>5, <3>6
  <2>2. aged' \subseteq Tokens
    BY <2>1 DEF Inv, RestartsTypeOK
  <2>3. QED
    BY <2>1, <2>2, QuietKeepsInv
<1>6. ASSUME NEW k \in Keys, HostKills(k) \/ OldEnds(k) PROVE Inv'
  <2>1. /\ old' = [old EXCEPT ![k] = "gone"] /\ asked' \subseteq asked
        /\ UNCHANGED <<queueVars, offered, reps, aged, envVars>>
    BY <1>6 DEF HostKills, OldEnds
  <2>2. QED
    BY <2>1, EndKeepsInv
<1>7. ASSUME NEW n \in Tokens, RowAppears(n) PROVE Inv'
  <2> DEFINE to == IF reps[n].key \in Codex THEN "waiting" ELSE "running"
  <2>1. Rep(n, {"spawned"}, to) /\ n \in DOMAIN reps
    BY <1>7 DEF RowAppears, Rep
  <2>2. to = "running" => old[reps[n].key] = "gone"
    BY <2>1 DEF Inv, Ordered
  <2>3. to \in {"waiting", "running", "failed", "gone"}
    OBVIOUS
  <2> HIDE DEF to
  <2>4. QED
    BY <2>1, <2>2, <2>3, RepKeepsInv
<1>8. ASSUME NEW n \in Tokens, RepRuns(n) PROVE Inv'
  BY <1>8, RepKeepsInv DEF RepRuns, HandedOver
<1>9. ASSUME NEW n \in Tokens, RepFails(n) PROVE Inv'
  BY <1>9, RepKeepsInv DEF RepFails
<1>10. ASSUME NEW n \in Tokens, RepEnds(n) PROVE Inv'
  BY <1>10, RepKeepsInv DEF RepEnds
<1>11. ASSUME NEW n \in Tokens, Ages(n) PROVE Inv'
  <2>1. /\ UNCHANGED <<queueVars, offered, old, asked, reps>>
        /\ UNCHANGED <<full, mirrored, troubles>> /\ aged' = aged \cup {n}
    BY <1>11 DEF Ages, envVars
  <2>2. /\ aged' \subseteq Tokens /\ full' \in BOOLEAN /\ mirrored' \in BOOLEAN
        /\ troubles' \in 0..MaxTroubles
    BY <2>1 DEF Inv, RestartsTypeOK
  <2>3. QED
    BY <2>1, <2>2, QuietKeepsInv
<1>12. CASE UNCHANGED vars
  <2>1. /\ UNCHANGED <<queueVars, offered, old, asked, reps>>
        /\ UNCHANGED <<full, mirrored, troubles, aged>>
    BY <1>12 DEF vars, hostVars, envVars
  <2>2. /\ aged' \subseteq Tokens /\ full' \in BOOLEAN /\ mirrored' \in BOOLEAN
        /\ troubles' \in 0..MaxTroubles
    BY <2>1 DEF Inv, RestartsTypeOK
  <2>3. QED
    BY <2>1, <2>2, QuietKeepsInv
<1>13. QED
  BY <1>1, <1>2, <1>3, <1>4, <1>5, <1>6, <1>7, <1>8, <1>9, <1>10, <1>11, <1>12 DEF Next

\* The invariant of the restarts, for any sessions, replacements and failures.
THEOREM RestartsInvariant == Spec => []Inv
BY InitInv, NextKeepsInv, PTL DEF Spec

\* The queue and the replacements keep their type: what is tracked always has a
\* replacement, and no more batches are handed out than restarts confirmed.
THEOREM RestartsTypeCorrect == Spec => []RestartsTypeOK
<1>1. Inv => RestartsTypeOK
  BY DEF Inv
<1>2. QED
  BY RestartsInvariant, <1>1, PTL

\* A session has one job at most wherever it is, it has one as long as it is
\* pending, and the batch of every job counts what it still waits for.
THEOREM JobsCounted == Spec => []JobsAreCounted
<1>1. Inv => JobsAreCounted
  BY DEF Inv, Numbered
<1>2. QED
  BY RestartsInvariant, <1>1, PTL

\* However often a restart fails and is tried again, one replacement at most of
\* those that were not successful may still attach to the session's thread.
THEOREM OneWindowPerThread == Spec => []OneReplacement
<1>1. ASSUME Inv PROVE OneReplacement
  <2>1. ASSUME NEW n \in DOMAIN reps, NEW m \in DOMAIN reps, reps[n].key = reps[m].key,
               Attaches(n), Attaches(m)
        PROVE  n = m
    <3> DEFINE k == reps[n].key
    <3>1. k \in Keys /\ n # 0 /\ m # 0
      BY <1>1, ReplacementType DEF Inv, Replacement, Tokens
    <3>2. Remembered(n) /\ Remembered(m)
      BY <1>1, <2>1 DEF Inv, Owned
    <3>3. ASSUME NEW j \in jobs, j.token \in {n, m} PROVE j.key = k /\ k \in pending
      BY <1>1, <2>1, <3>1, <3>3 DEF Inv, Known, Knows, Numbered, JobsAreCounted, OwnedOnce
    <3>4. \A i, j \in jobs : i.key = j.key => i = j
      BY <1>1 DEF Inv, Numbered, JobsAreCounted, OwnedOnce
    <3>5. failed[k] # None => k \notin pending
      BY <1>1, <3>1 DEF Inv, Known
    <3>6. CASE failed[k] # None
      BY <2>1, <3>2, <3>3, <3>5, <3>6 DEF Remembered
    <3>7. CASE failed[k] = None
      BY <2>1, <3>2, <3>3, <3>4, <3>7 DEF Remembered
    <3>8. QED
      BY <3>6, <3>7
  <2>2. QED
    BY <2>1 DEF OneReplacement, Attaches
<1>2. Inv => OneReplacement
  BY <1>1
<1>3. QED
  BY RestartsInvariant, <1>2, PTL

\* No replacement runs beside the session it replaces, and a Codex session is
\* asked to end only once a window for its thread has been opened.
THEOREM EndBeforeRun == Spec => []EndsInOrder
<1>1. Inv => EndsInOrder
  BY DEF Inv, Ordered, EndsInOrder
<1>2. QED
  BY RestartsInvariant, <1>1, PTL
=============================================================================
