---------------------------- MODULE SessionFlags ----------------------------
(***************************************************************************)
(* The host-owned pins and follow-up bells of captain-miao                 *)
(* (crates/cm-core/src/session_flags.rs): one JSON sidecar shared by the   *)
(* daemon and every dashboard of the machine.  Launchers own their status  *)
(* rows (sessions/<pid>.json) and never touch the sidecar; every reader of *)
(* the rows runs one locked transaction that observes them, applies an     *)
(* explicit flag request if it has one, and replaces the sidecar.          *)
(*                                                                         *)
(* A transaction is cut where another process can act: take the lock, read *)
(* the launcher rows, read the sidecar and merge the legacy flags, commit. *)
(* The order of statuses in time is the history variable `turn`, the       *)
(* number of the launcher's current or last busy stretch.                  *)
(***************************************************************************)
EXTENDS Naturals

CONSTANTS
    Procs,           \* processes that open the store: the daemon, dashboards
    Dashboards,      \* those of them that are dashboards and keep preferences
    Keys,            \* session keys; a key is a launcher pid
    SkewedReaders,   \* processes too old to parse a row of the newer format
    LegacyPinned,    \* keys in the "pinned" array of dashboard-overrides.json
    LegacyFollowUp,  \* keys in its "follow_up" array
    Requests,        \* the flags users ask for (bound: a subset of Flags)
    MaxTurn,         \* bound: busy stretches one key goes through
    MaxFailures,     \* bound: transactions that fail
    None

ASSUME SessionFlagsAssumption ==
    /\ Dashboards \subseteq Procs /\ SkewedReaders \subseteq Procs
    /\ LegacyPinned \subseteq Keys /\ LegacyFollowUp \subseteq Keys
    /\ MaxTurn \in Nat /\ MaxFailures \in Nat
    /\ None \notin Procs /\ None \notin Keys

\* SessionStatus, with the five variants `observe` does not tell apart
\* (Starting, the two Waiting*, FailedToStart) written "Other".
Working == {"Active", "BackgroundActive"}
Busy    == Working \cup {"Compacting"}
Status  == Busy \cup {"Idle", "Compacted", "Other"}

Flags == [pinned : BOOLEAN, follow_up : BOOLEAN]
Entry == [pinned : BOOLEAN, follow_up : BOOLEAN, observed : Status \cup {"none"}]
Row   == [status : Status, turn : 0..MaxTurn]

\* A record is never the model value None.
ASSUME RecordsAssumption ==
    /\ Requests \subseteq Flags
    /\ None \notin Entry /\ None \notin Row

Cleared == [pinned |-> FALSE, follow_up |-> FALSE]
Nothing == [k \in Keys |-> None]
NewEntry == [pinned |-> FALSE, follow_up |-> FALSE, observed |-> "none"]

VARIABLES
    file,     \* sessions/<pid>.json: "absent", "row", or "skewed" (newer format)
    alive,    \* is the launcher process of that pid alive?
    row,      \* what the launcher last wrote
    entries,  \* session-flags.json
    legacy,   \* do the legacy arrays still stand in dashboard-overrides.json?
    lock,     \* who holds session-flags.lock
    tx,       \* where each process is in its transaction
    op,       \* what it runs the transaction for
    target,   \* the key of an explicit request, None for an observation
    wanted,   \* the flags of that request
    rows,     \* the launcher rows it read
    work,     \* the entries it read, legacy flags merged in
    ackTurn,  \* history: last busy stretch whose end the user acknowledged
    gone,     \* history: has the launcher file ever been absent?
    failures  \* transactions that failed so far

launcher == <<file, alive, row, gone>>
txn      == <<tx, op, target, wanted, rows, work>>
vars     == <<file, alive, row, entries, legacy, lock, tx, op, target, wanted,
              rows, work, ackTurn, gone, failures>>

TypeOK ==
    /\ file \in [Keys -> {"absent", "row", "skewed"}]
    /\ alive \in [Keys -> BOOLEAN]
    /\ row \in [Keys -> Row]
    /\ entries \in [Keys -> Entry \cup {None}]
    /\ legacy \in BOOLEAN
    /\ lock \in Procs \cup {None}
    /\ tx \in [Procs -> {"idle", "waiting", "locked", "read", "merged", "saving"}]
    /\ op \in [Procs -> {"snapshot", "set", "migrate"}]
    /\ target \in [Procs -> Keys \cup {None}]
    /\ wanted \in [Procs -> Flags]
    /\ rows \in [Procs -> [Keys -> Row \cup {None}]]
    /\ work \in [Procs -> [Keys -> Entry \cup {None}]]
    /\ ackTurn \in [Keys -> 0..MaxTurn]
    /\ gone \in [Keys -> BOOLEAN]
    /\ failures \in 0..MaxFailures

Init ==
    /\ file \in [Keys -> {"absent", "row"}]
    /\ alive = [k \in Keys |-> file[k] = "row"]
    /\ row = [k \in Keys |-> [status |-> "Other", turn |-> 0]]
    /\ entries = [k \in Keys |-> None]
    /\ legacy = TRUE
    /\ lock = None
    /\ tx = [p \in Procs |-> "idle"]
    /\ op = [p \in Procs |-> "snapshot"]
    /\ target = [p \in Procs |-> None]
    /\ wanted = [p \in Procs |-> Cleared]
    /\ rows = [p \in Procs |-> Nothing]
    /\ work = [p \in Procs |-> Nothing]
    /\ ackTurn = [k \in Keys |-> 0]
    /\ gone = [k \in Keys |-> file[k] = "absent"]
    /\ failures = 0

-----------------------------------------------------------------------------
(* Launchers *)

\* LauncherState::write, an atomic replacement.  Any status may follow any
\* other: the agents decide.  Entering a busy status from rest opens a turn.
\* A file written by a newer launcher is "skewed" to an older reader.
WriteRow(k, s, format) ==
    LET opens == s \in Busy /\ row[k].status \notin Busy IN
    /\ opens => row[k].turn < MaxTurn
    /\ row' = [row EXCEPT ![k] = [status |-> s,
                                  turn |-> row[k].turn + IF opens THEN 1 ELSE 0]]
    /\ file' = [file EXCEPT ![k] = format]

LauncherWrites(k) ==
    /\ alive[k]
    /\ file[k] # "absent"
    /\ \E s \in Status \ {row[k].status} : WriteRow(k, s, file[k])
    /\ UNCHANGED <<alive, gone, entries, legacy, lock, ackTurn, failures>>
    /\ UNCHANGED txn

\* A launch, possibly under a recycled pid whose file is still there.
LauncherStarts(k) ==
    /\ ~alive[k]
    /\ alive' = [alive EXCEPT ![k] = TRUE]
    /\ \E format \in {"row", "skewed"} : WriteRow(k, "Other", format)
    /\ UNCHANGED <<gone, entries, legacy, lock, ackTurn, failures>>
    /\ UNCHANGED txn

\* A clean exit removes the file (LauncherState::remove); a killed launcher
\* leaves it behind.
LauncherEnds(k) ==
    /\ alive[k]
    /\ alive' = [alive EXCEPT ![k] = FALSE]
    /\ \/ /\ file' = [file EXCEPT ![k] = "absent"]
          /\ gone' = [gone EXCEPT ![k] = TRUE]
       \/ UNCHANGED <<file, gone>>
    /\ UNCHANGED <<row, entries, legacy, lock, ackTurn, failures>>
    /\ UNCHANGED txn

-----------------------------------------------------------------------------
(* Transactions *)

Parses(p, k) ==
    \/ file[k] = "row"
    \/ file[k] = "skewed" /\ p \notin SkewedReaders

\* A process calls snapshot() or set(); a dashboard calls migrate_legacy() from
\* DashboardState::save while the document still holds the legacy arrays.
Begin(p) ==
    /\ tx[p] = "idle"
    /\ tx' = [tx EXCEPT ![p] = "waiting"]
    /\ \/ /\ op' = [op EXCEPT ![p] = "snapshot"]
          /\ target' = [target EXCEPT ![p] = None]
          /\ UNCHANGED wanted
       \/ \E k \in Keys, f \in Requests :
             /\ op' = [op EXCEPT ![p] = "set"]
             /\ target' = [target EXCEPT ![p] = k]
             /\ wanted' = [wanted EXCEPT ![p] = f]
       \/ /\ legacy /\ p \in Dashboards
          /\ op' = [op EXCEPT ![p] = "migrate"]
          /\ target' = [target EXCEPT ![p] = None]
          /\ UNCHANGED wanted
    /\ UNCHANGED <<launcher, entries, legacy, lock, rows, work, ackTurn, failures>>

\* File::lock on a descriptor of its own.
Acquire(p) ==
    /\ tx[p] = "waiting"
    /\ lock = None
    /\ lock' = p
    /\ tx' = [tx EXCEPT ![p] = "locked"]
    /\ UNCHANGED <<launcher, entries, legacy, op, target, wanted, rows, work,
                   ackTurn, failures>>

\* read_launcher_states_in: rows this process can parse, of live launchers;
\* the file of a dead one it can parse is removed, any other is left alone.
ReadRows(p) ==
    /\ tx[p] = "locked"
    /\ tx' = [tx EXCEPT ![p] = "read"]
    /\ rows' = [rows EXCEPT ![p] =
                  [k \in Keys |-> IF Parses(p, k) /\ alive[k] THEN row[k] ELSE None]]
    /\ file' = [k \in Keys |-> IF Parses(p, k) /\ ~alive[k] THEN "absent" ELSE file[k]]
    /\ gone' = [k \in Keys |-> gone[k] \/ (Parses(p, k) /\ ~alive[k])]
    /\ UNCHANGED <<alive, row, entries, legacy, lock, op, target, wanted, work,
                   ackTurn, failures>>

\* Legacy flags stand in only for a key whose launcher file exists and that
\* has no entry yet, so an explicit clear is never undone.
Imported(k) ==
    /\ legacy
    /\ k \in LegacyPinned \cup LegacyFollowUp
    /\ file[k] # "absent"
    /\ entries[k] = None

ReadEntries(p) ==
    /\ tx[p] = "read"
    /\ tx' = [tx EXCEPT ![p] = "merged"]
    /\ work' = [work EXCEPT ![p] =
                  [k \in Keys |->
                     IF Imported(k)
                     THEN [pinned |-> k \in LegacyPinned,
                           follow_up |-> k \in LegacyFollowUp,
                           observed |-> "none"]
                     ELSE entries[k]]]
    /\ UNCHANGED <<launcher, entries, legacy, lock, op, target, wanted, rows,
                   ackTurn, failures>>

EntersRest_ActiveOnly(before, now) == before = "Active" /\ now = "Idle"

EntersRest(before, now) ==
    \/ before \in Working /\ now = "Idle"
    \/ before = "Compacting" /\ now = "Compacted"

\* Entry::observe
Observe(e, status) ==
    [e EXCEPT !.follow_up = \/ EntersRest(e.observed, status)
                            \/ status # "Active" /\ e.follow_up,
              !.observed = status]

OrDefault(e) == IF e = None THEN NewEntry ELSE e

\* The entry of k after this transaction: observation first, then the explicit
\* request, then only keys that were requested or whose file is still there.
Observed(p, k) ==
    IF rows[p][k] # None THEN Observe(OrDefault(work[p][k]), rows[p][k].status)
                         ELSE work[p][k]

Requested_BeforeObservation(p, k) ==
    IF target[p] = k
    THEN LET asked == [OrDefault(work[p][k]) EXCEPT !.pinned = wanted[p].pinned,
                                                    !.follow_up = wanted[p].follow_up]
         IN IF rows[p][k] # None THEN Observe(asked, rows[p][k].status) ELSE asked
    ELSE Observed(p, k)

Requested_FlagsOnly(p, k) == IF target[p] = k THEN wanted[p] ELSE Observed(p, k)

Requested(p, k) ==
    IF target[p] = k
    THEN [OrDefault(Observed(p, k)) EXCEPT !.pinned = wanted[p].pinned,
                                           !.follow_up = wanted[p].follow_up]
    ELSE Observed(p, k)

Final_ReadableRowsOnly(p, k) ==
    IF target[p] = k \/ rows[p][k] # None THEN Requested(p, k) ELSE None

Final(p, k) ==
    IF target[p] = k \/ file[k] # "absent" THEN Requested(p, k) ELSE None

\* The user puts a bell out on a row that shows a finished stretch.
Acknowledges(p, k) ==
    /\ target[p] = k
    /\ ~wanted[p].follow_up
    /\ rows[p][k] # None
    /\ rows[p][k].status \notin Busy

\* A transaction's locals end with it.
Forget(p) ==
    /\ op' = [op EXCEPT ![p] = "snapshot"]
    /\ target' = [target EXCEPT ![p] = None]
    /\ wanted' = [wanted EXCEPT ![p] = Cleared]
    /\ rows' = [rows EXCEPT ![p] = Nothing]
    /\ work' = [work EXCEPT ![p] = Nothing]

\* The atomic replacement of the sidecar, and the lock's release.
Commit(p) ==
    /\ tx[p] = "merged"
    /\ entries' = [k \in Keys |-> Final(p, k)]
    /\ lock' = None
    /\ Forget(p)
    /\ tx' = [tx EXCEPT ![p] = IF op[p] = "migrate" THEN "saving" ELSE "idle"]
    /\ ackTurn' = [k \in Keys |-> IF Acknowledges(p, k) THEN rows[p][k].turn
                                                        ELSE ackTurn[k]]
    /\ UNCHANGED <<launcher, legacy, failures>>

\* Any step of the transaction may fail (the lock file, an unparseable
\* sidecar, a full disk) or the process may die; either closes the lock's
\* descriptor.  A snapshot then serves what the sidecar held.
Fail(p) ==
    /\ tx[p] # "idle"
    /\ failures < MaxFailures
    /\ failures' = failures + 1
    /\ tx' = [tx EXCEPT ![p] = "idle"]
    /\ lock' = IF lock = p THEN None ELSE lock
    /\ Forget(p)
    /\ UNCHANGED <<launcher, entries, legacy, ackTurn>>

SavePreferences_BeforeCommit(p) ==
    /\ tx[p] = "merged" /\ op[p] = "migrate" /\ legacy
    /\ legacy' = FALSE
    /\ UNCHANGED <<launcher, entries, lock, txn, ackTurn, failures>>

\* DashboardState::save rewrites the preferences without the legacy arrays.
SavePreferences(p) ==
    /\ tx[p] = "saving"
    /\ legacy' = FALSE
    /\ tx' = [tx EXCEPT ![p] = "idle"]
    /\ UNCHANGED <<launcher, entries, lock, op, target, wanted, rows, work,
                   ackTurn, failures>>

Step(p) ==
    \/ Acquire(p) \/ ReadRows(p) \/ ReadEntries(p) \/ Commit(p)
    \/ SavePreferences(p)

Next ==
    \/ \E k \in Keys : LauncherWrites(k) \/ LauncherStarts(k) \/ LauncherEnds(k)
    \/ \E p \in Procs : Begin(p) \/ Step(p) \/ Fail(p)

Spec == Init /\ [][Next]_vars

-----------------------------------------------------------------------------
(* The inductive invariant behind the properties *)

InTransaction(p) == tx[p] \in {"locked", "read", "merged"}
HasRead(p)       == tx[p] \in {"read", "merged"}

OneTransaction == \A p \in Procs : InTransaction(p) => lock = p

\* What a transaction merged is the sidecar as it still stands, plus imports.
MergedIsCurrent ==
    \A p \in Procs, k \in Keys : tx[p] = "merged" =>
        \/ work[p][k] = entries[k]
        \/ entries[k] = None /\ work[p][k] # None /\ work[p][k].observed = "none"

\* The row a transaction read is at most one the launcher has since replaced,
\* and not from before the last acknowledgement.
RowsArePast ==
    \A p \in Procs, k \in Keys : HasRead(p) /\ rows[p][k] # None =>
        /\ ackTurn[k] <= rows[p][k].turn /\ rows[p][k].turn <= row[k].turn
        /\ rows[p][k].status \in Busy => ackTurn[k] < rows[p][k].turn
        /\ rows[p][k].status \notin Busy /\ row[k].status \in Busy
              => rows[p][k].turn < row[k].turn
        /\ entries[k] # None /\ entries[k].observed \in Busy
              => ackTurn[k] < rows[p][k].turn

\* A stretch the launcher is in, or that the store last saw going on, has not
\* been acknowledged as finished.
WorkIsUnacknowledged ==
    \A k \in Keys :
        /\ ackTurn[k] <= row[k].turn
        /\ row[k].status \in Busy => ackTurn[k] < row[k].turn
        /\ entries[k] # None /\ entries[k].observed \in Busy
              => ackTurn[k] < row[k].turn

LegacyKeys == LegacyPinned \cup LegacyFollowUp

LegacyIsHeld ==
    \A k \in LegacyKeys : gone[k] \/
        /\ file[k] # "absent"
        /\ ~legacy => entries[k] # None
        /\ \A p \in Procs :
              /\ tx[p] = "saving" => entries[k] # None
              /\ tx[p] = "merged" => work[p][k] # None

IInv == /\ OneTransaction /\ MergedIsCurrent /\ RowsArePast
        /\ WorkIsUnacknowledged /\ LegacyIsHeld

-----------------------------------------------------------------------------
(* Properties *)

Ringing(k) == entries[k] # None /\ entries[k].follow_up

Commits(p) == tx[p] = "merged" /\ tx'[p] \in {"idle", "saving"}

\* Transactions are serial: what one merged is still what the sidecar holds
\* when it commits, so no flag, acknowledgement or observation is overwritten
\* by one that did not see it (SessionFlagsStore::lock, "two processes must
\* never commit observations collected in the opposite order").
TransactionsAreSerial ==
    \A p \in Procs : tx[p] = "merged" =>
        \A k \in Keys : entries[k] \in {work[p][k], None}

\* A bell that was put out stays out until the session has worked again: a
\* transaction that arms it by itself has read the end of a later busy stretch
\* than the one acknowledged ("prevents another process from replaying a
\* completion after it was acknowledged", session_flags.rs:3-6).
NoReplayedCompletion ==
    [][\A k \in Keys : ~Ringing(k) /\ Ringing(k)' /\ entries[k] # None =>
          \E p \in Procs :
             \/ target[p] = k /\ wanted[p].follow_up
             \/ rows[p][k] # None /\ rows[p][k].turn > ackTurn'[k]]_vars

\* A pin leaves only when someone asked for it or the session's file is gone;
\* no observation, import, failed write or reader that cannot parse the row
\* drops it.
PinSurvives ==
    [][\A k \in Keys :
          /\ entries[k] # None /\ entries[k].pinned
          /\ ~(entries'[k] # None /\ entries'[k].pinned)
          => file[k] = "absent" \/ \E p \in Procs : target[p] = k]_vars

\* The preferences give the legacy arrays up only once every flag in them is
\* durable in the sidecar, for each session that never went away
\* (dashboard_state.rs:44-51).
LegacyIsNeverLost ==
    ~legacy => \A k \in LegacyKeys :
                   gone[k] \/ entries[k] # None

\* What the daemon's socket tick and file watcher give: it starts a snapshot
\* whenever it is idle, flock hands it the lock again and again, and no process
\* sits on the lock.  The disk recovers: failures are bounded.
Fairness(daemon) ==
    /\ WF_vars(Begin(daemon) /\ op'[daemon] = "snapshot")
    /\ SF_vars(Acquire(daemon))
    /\ \A p \in Procs : WF_vars(Step(p) /\ ~Acquire(p))

\* A completion the store has half seen (it saw the work, and no transaction
\* still holds a row from before the end) rings, however many writes fail and
\* transactions interleave, unless the user acknowledged it or the session
\* moved on ("a failed write must not consume the transition").
CompletionRings ==
    \A k \in Keys :
        LET AtRest == alive[k] /\ row[k].status = "Idle"
            HalfSeen == /\ entries[k] # None /\ entries[k].observed \in Working
                        /\ \A p \in Procs : rows[p][k] \in {None, row[k]}
        IN  AtRest /\ HalfSeen
            ~> Ringing(k) \/ ackTurn[k] = row[k].turn \/ ~AtRest
=============================================================================
