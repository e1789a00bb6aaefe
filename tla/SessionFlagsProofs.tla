------------------------- MODULE SessionFlagsProofs -------------------------
(* Theorems about SessionFlags, for any processes, keys and bounds.         *)
EXTENDS SessionFlags, TLAPS

\* Merging and observing entries yields entries.
LEMMA ObserveType ==
    ASSUME NEW e \in Entry, NEW s \in Status
    PROVE  Observe(e, s) \in Entry
BY DEF Observe, Entry, Status, Busy, Working

LEMMA FinalType ==
    ASSUME TypeOK, NEW p \in Procs, NEW k \in Keys
    PROVE  Final(p, k) \in Entry \cup {None}
<1>1. work[p][k] \in Entry \cup {None} /\ rows[p][k] \in Row \cup {None}
    BY DEF TypeOK
<1>2. NewEntry \in Entry
    BY DEF NewEntry, Entry
<1>3. Observed(p, k) \in Entry \cup {None}
    <2>1. CASE rows[p][k] = None
        BY <1>1, <2>1 DEF Observed
    <2>2. CASE rows[p][k] # None
        <3>1. rows[p][k].status \in Status
            BY <1>1, <2>2 DEF Row
        <3>2. OrDefault(work[p][k]) \in Entry
            BY <1>1, <1>2 DEF OrDefault
        <3>3. QED BY <2>2, <3>1, <3>2, ObserveType DEF Observed
    <2>3. QED BY <2>1, <2>2
<1>4. wanted[p] \in Flags
    BY DEF TypeOK
<1>5. OrDefault(Observed(p, k)) \in Entry
    BY <1>2, <1>3 DEF OrDefault
<1>6. Requested(p, k) \in Entry \cup {None}
    BY <1>3, <1>4, <1>5 DEF Requested, Entry, Flags
<1>7. QED BY <1>6 DEF Final

LEMMA WriteRowType ==
    ASSUME TypeOK, NEW k \in Keys, NEW s \in Status, NEW f \in {"absent", "row", "skewed"},
           WriteRow(k, s, f)
    PROVE  file' \in [Keys -> {"absent", "row", "skewed"}] /\ row' \in [Keys -> Row]
<1>1. row[k].turn \in 0..MaxTurn /\ row[k].status \in Status
    BY DEF TypeOK, Row
<1>2. CASE s \in Busy /\ row[k].status \notin Busy
    BY <1>1, <1>2, SessionFlagsAssumption DEF TypeOK, WriteRow, Row
<1>3. CASE ~(s \in Busy /\ row[k].status \notin Busy)
    BY <1>1, <1>3, SessionFlagsAssumption DEF TypeOK, WriteRow, Row
<1>4. QED BY <1>2, <1>3

\* Every step keeps every variable in its type.
THEOREM TypeCorrect == Spec => []TypeOK
<1>1. Init => TypeOK
    BY SessionFlagsAssumption DEF Init, TypeOK, Row, Status, Flags, Cleared, Nothing
<1>2. TypeOK /\ [Next]_vars => TypeOK'
    <2> SUFFICES ASSUME TypeOK, [Next]_vars PROVE TypeOK'
        OBVIOUS
    <2>1. ASSUME NEW k \in Keys, LauncherWrites(k) PROVE TypeOK'
        <3>1. PICK s \in Status : WriteRow(k, s, file[k])
            BY <2>1 DEF LauncherWrites
        <3>2. file[k] \in {"absent", "row", "skewed"}
            BY DEF TypeOK
        <3>3. QED BY <2>1, <3>1, <3>2, WriteRowType DEF LauncherWrites, TypeOK, txn
    <2>2. ASSUME NEW k \in Keys, LauncherStarts(k) PROVE TypeOK'
        <3>1. PICK f \in {"row", "skewed"} : WriteRow(k, "Other", f)
            BY <2>2 DEF LauncherStarts
        <3>2. "Other" \in Status
            BY DEF Status
        <3>3. QED BY <2>2, <3>1, <3>2, WriteRowType DEF LauncherStarts, TypeOK, txn
    <2>3. ASSUME NEW k \in Keys, LauncherEnds(k) PROVE TypeOK'
        BY <2>3 DEF LauncherEnds, TypeOK, txn
    <2>4. ASSUME NEW p \in Procs, Begin(p) PROVE TypeOK'
        BY <2>4, RecordsAssumption DEF Begin, TypeOK, launcher
    <2>5. ASSUME NEW p \in Procs, Acquire(p) PROVE TypeOK'
        BY <2>5 DEF Acquire, TypeOK, launcher
    <2>6. ASSUME NEW p \in Procs, ReadRows(p) PROVE TypeOK'
        BY <2>6 DEF ReadRows, TypeOK, launcher
    <2>7. ASSUME NEW p \in Procs, ReadEntries(p) PROVE TypeOK'
        BY <2>7 DEF ReadEntries, TypeOK, launcher, Entry
    <2>8. ASSUME NEW p \in Procs, Commit(p) PROVE TypeOK'
        <3>1. entries' \in [Keys -> Entry \cup {None}]
            BY <2>8, FinalType DEF Commit
        <3>2. ackTurn' \in [Keys -> 0..MaxTurn]
            <4>1. ASSUME NEW k \in Keys, Acknowledges(p, k)
                  PROVE  rows[p][k].turn \in 0..MaxTurn
                BY <4>1 DEF TypeOK, Acknowledges, Row
            <4>2. QED BY <2>8, <4>1 DEF Commit, TypeOK
        <3>3. QED BY <2>8, <3>1, <3>2
                  DEF Commit, Forget, TypeOK, launcher, Flags, Cleared, Nothing
    <2>9. ASSUME NEW p \in Procs, Fail(p) PROVE TypeOK'
        BY <2>9, SessionFlagsAssumption
        DEF Fail, Forget, TypeOK, launcher, Flags, Cleared, Nothing
    <2>10. ASSUME NEW p \in Procs, SavePreferences(p) PROVE TypeOK'
        BY <2>10 DEF SavePreferences, TypeOK, launcher
    <2>11. CASE UNCHANGED vars
        BY <2>11 DEF vars, TypeOK
    <2>12. QED
        BY <2>1, <2>2, <2>3, <2>4, <2>5, <2>6, <2>7, <2>8, <2>9, <2>10, <2>11
        DEF Next, Step
<1>3. QED BY <1>1, <1>2, PTL DEF Spec

-----------------------------------------------------------------------------
(* The inductive invariant *)

\* What a launcher's write does to its row: the turn never falls, and rises
\* when the row becomes busy from rest.
LEMMA WriteRowTurn ==
    ASSUME TypeOK, NEW k \in Keys, NEW s \in Status, NEW f, WriteRow(k, s, f)
    PROVE  \A j \in Keys :
              /\ row[j].turn \in Nat /\ row'[j].turn \in Nat
              /\ row[j].turn <= row'[j].turn
              /\ row'[j].status \in Busy =>
                    row[j].status \in Busy \/ row[j].turn < row'[j].turn
<1> TAKE j \in Keys
<1>1. row[j].turn \in Nat
    BY SessionFlagsAssumption DEF TypeOK, Row
<1>2. CASE j # k
    BY <1>1, <1>2 DEF WriteRow, TypeOK
<1>3. CASE j = k /\ s \in Busy /\ row[k].status \notin Busy
    BY <1>1, <1>3 DEF WriteRow, TypeOK
<1>4. CASE j = k /\ ~(s \in Busy /\ row[k].status \notin Busy)
    BY <1>1, <1>4 DEF WriteRow, TypeOK
<1>5. QED BY <1>2, <1>3, <1>4

\* A step that only rewrites rows this way keeps the invariant.
LEMMA RowStep ==
    ASSUME TypeOK, TypeOK', IInv, UNCHANGED <<entries, legacy, lock, ackTurn>>,
           UNCHANGED txn,
           \A j \in Keys :
              /\ row[j].turn <= row'[j].turn
              /\ row'[j].status \in Busy =>
                    row[j].status \in Busy \/ row[j].turn < row'[j].turn,
           \A j \in Keys : gone'[j] \/ (~gone[j] /\ (file'[j] = "absent" => file[j] = "absent"))
    PROVE  IInv'
<1>1. OneTransaction' /\ MergedIsCurrent'
    BY DEF IInv, OneTransaction, MergedIsCurrent, InTransaction, txn
<1>2. \A j \in Keys : /\ row[j].turn \in Nat /\ row'[j].turn \in Nat
                       /\ ackTurn[j] \in Nat /\ ackTurn'[j] \in Nat
    BY SessionFlagsAssumption DEF TypeOK, Row
<1>3. \A p \in Procs, j \in Keys : rows[p][j] # None => rows[p][j].turn \in Nat
    BY SessionFlagsAssumption DEF TypeOK, Row
<1>4. RowsArePast'
    BY <1>2, <1>3 DEF IInv, RowsArePast, HasRead, txn
<1>5. WorkIsUnacknowledged'
    BY <1>2 DEF IInv, WorkIsUnacknowledged
<1>6. LegacyIsHeld'
    BY SessionFlagsAssumption DEF IInv, LegacyIsHeld, LegacyKeys, txn
<1>7. QED BY <1>1, <1>4, <1>5, <1>6 DEF IInv

LEMMA LauncherKeepsInv ==
    ASSUME TypeOK, TypeOK', IInv, NEW k \in Keys,
           LauncherWrites(k) \/ LauncherStarts(k) \/ LauncherEnds(k)
    PROVE  IInv'
<1>1. CASE LauncherWrites(k)
    <2>1. PICK s \in Status : WriteRow(k, s, file[k])
        BY <1>1 DEF LauncherWrites
    <2>2. \A j \in Keys : gone'[j] \/ (~gone[j] /\ (file'[j] = "absent" => file[j] = "absent"))
        BY <1>1, <2>1 DEF LauncherWrites, WriteRow, TypeOK
    <2>3. QED BY <1>1, <2>1, <2>2, WriteRowTurn, RowStep DEF LauncherWrites
<1>2. CASE LauncherStarts(k)
    <2>1. PICK f \in {"row", "skewed"} : WriteRow(k, "Other", f)
        BY <1>2 DEF LauncherStarts
    <2>2. \A j \in Keys : gone'[j] \/ (~gone[j] /\ (file'[j] = "absent" => file[j] = "absent"))
        BY <1>2, <2>1 DEF LauncherStarts, WriteRow, TypeOK
    <2>3. "Other" \in Status
        BY DEF Status
    <2>4. QED BY <1>2, <2>1, <2>2, <2>3, WriteRowTurn, RowStep DEF LauncherStarts
<1>3. CASE LauncherEnds(k)
    <2>1. \A j \in Keys : gone'[j] \/ (~gone[j] /\ (file'[j] = "absent" => file[j] = "absent"))
        BY <1>3 DEF LauncherEnds, TypeOK
    <2>2. \A j \in Keys : row'[j] = row[j] /\ row[j].turn \in Nat
        BY <1>3, SessionFlagsAssumption DEF LauncherEnds, TypeOK, Row
    <2>3. QED BY <1>3, <2>1, <2>2, RowStep DEF LauncherEnds
<1>4. QED BY <1>1, <1>2, <1>3

\* Steps that begin, fail or end a transaction without touching the sidecar
\* leave every process at most where it was.
LEMMA BeginKeepsInv ==
    ASSUME TypeOK, IInv, NEW p \in Procs, Begin(p)
    PROVE  IInv'
<1>1. OneTransaction'
    BY DEF Begin, TypeOK, IInv, OneTransaction, InTransaction
<1>2. MergedIsCurrent' /\ RowsArePast'
    BY DEF Begin, TypeOK, IInv, MergedIsCurrent, RowsArePast, HasRead, launcher
<1>3. WorkIsUnacknowledged' /\ LegacyIsHeld'
    BY DEF Begin, TypeOK, IInv, WorkIsUnacknowledged, LegacyIsHeld, launcher
<1>4. QED BY <1>1, <1>2, <1>3 DEF IInv

LEMMA AcquireKeepsInv ==
    ASSUME TypeOK, IInv, NEW p \in Procs, Acquire(p)
    PROVE  IInv'
<1>1. OneTransaction'
    BY SessionFlagsAssumption
    DEF Acquire, TypeOK, IInv, OneTransaction, InTransaction
<1>2. MergedIsCurrent' /\ RowsArePast'
    BY DEF Acquire, TypeOK, IInv, MergedIsCurrent, RowsArePast, HasRead, launcher
<1>3. WorkIsUnacknowledged' /\ LegacyIsHeld'
    BY DEF Acquire, TypeOK, IInv, WorkIsUnacknowledged, LegacyIsHeld, launcher
<1>4. QED BY <1>1, <1>2, <1>3 DEF IInv

LEMMA ReadRowsKeepsInv ==
    ASSUME TypeOK, IInv, NEW p \in Procs, ReadRows(p)
    PROVE  IInv'
<1>1. OneTransaction' /\ MergedIsCurrent'
    BY DEF ReadRows, TypeOK, IInv, OneTransaction, InTransaction, MergedIsCurrent
<1>2. RowsArePast'
    <2> SUFFICES ASSUME NEW q \in Procs, NEW k \in Keys,
                        HasRead(q)', rows'[q][k] # None
                 PROVE  /\ ackTurn[k] <= rows'[q][k].turn
                        /\ rows'[q][k].turn <= row[k].turn
                        /\ rows'[q][k].status \in Busy
                              => ackTurn[k] < rows'[q][k].turn
                        /\ rows'[q][k].status \notin Busy /\ row[k].status \in Busy
                              => rows'[q][k].turn < row[k].turn
                        /\ entries[k] # None /\ entries[k].observed \in Busy
                              => ackTurn[k] < rows'[q][k].turn
        BY DEF ReadRows, RowsArePast
    <2>1. row[k].turn \in Nat
        BY SessionFlagsAssumption DEF TypeOK, Row
    <2>2. CASE q = p
        <3>1. rows'[q][k] = row[k]
            BY <2>2 DEF ReadRows, TypeOK
        <3>2. QED BY <2>1, <3>1 DEF IInv, WorkIsUnacknowledged
    <2>3. CASE q # p
        BY <2>3 DEF ReadRows, TypeOK, IInv, RowsArePast, HasRead
    <2>4. QED BY <2>2, <2>3
<1>3. WorkIsUnacknowledged'
    BY DEF ReadRows, IInv, WorkIsUnacknowledged
<1>4. LegacyIsHeld'
    BY SessionFlagsAssumption DEF ReadRows, TypeOK, IInv, LegacyIsHeld, LegacyKeys
<1>5. QED BY <1>1, <1>2, <1>3, <1>4 DEF IInv

LEMMA ReadEntriesKeepsInv ==
    ASSUME TypeOK, IInv, NEW p \in Procs, ReadEntries(p)
    PROVE  IInv'
<1>1. OneTransaction' /\ RowsArePast' /\ WorkIsUnacknowledged'
    BY DEF ReadEntries, TypeOK, IInv, OneTransaction, InTransaction, RowsArePast,
           HasRead, WorkIsUnacknowledged, launcher
<1>2. \A k \in Keys :
        \/ work'[p][k] = entries[k] /\ ~Imported(k)
        \/ /\ Imported(k) /\ entries[k] = None
           /\ work'[p][k] \in Entry /\ work'[p][k].observed = "none"
    BY DEF ReadEntries, TypeOK, Imported, Entry
<1>3. MergedIsCurrent'
    BY <1>2, RecordsAssumption
    DEF ReadEntries, TypeOK, IInv, MergedIsCurrent
<1>4. LegacyIsHeld'
    <2> SUFFICES ASSUME NEW k \in LegacyKeys, ~gone[k]
                 PROVE  /\ file[k] # "absent"
                        /\ ~legacy => entries[k] # None
                        /\ \A q \in Procs :
                              /\ tx'[q] = "saving" => entries[k] # None
                              /\ tx'[q] = "merged" => work'[q][k] # None
        BY DEF ReadEntries, LegacyIsHeld, launcher
    <2>1. k \in Keys
        BY SessionFlagsAssumption DEF LegacyKeys
    <2>2. work'[p][k] # None
        BY <1>2, <2>1, RecordsAssumption DEF IInv, LegacyIsHeld, LegacyKeys, Imported
    <2>3. QED BY <2>1, <2>2 DEF ReadEntries, TypeOK, IInv, LegacyIsHeld
<1>5. QED BY <1>1, <1>3, <1>4 DEF IInv

\* What a commit makes of one entry, in the terms of the invariant.
LEMMA CommittedEntry ==
    ASSUME TypeOK, IInv, NEW p \in Procs, tx[p] = "merged", NEW k \in Keys
    PROVE  /\ Final(p, k) # None /\ Final(p, k).observed \in Busy =>
                \/ /\ rows[p][k] # None
                   /\ rows[p][k].status \in Busy
                \/ /\ rows[p][k] = None
                   /\ entries[k] # None /\ entries[k].observed \in Busy
           /\ rows[p][k] # None /\ Final(p, k) # None =>
                Final(p, k).observed = rows[p][k].status
           /\ work[p][k] # None /\ file[k] # "absent" => Final(p, k) # None
<1>1. /\ work[p][k] \in Entry \cup {None} /\ rows[p][k] \in Row \cup {None}
      /\ entries[k] \in Entry \cup {None}
      /\ wanted[p] \in Flags
    BY DEF TypeOK
<1>2. NewEntry \in Entry /\ NewEntry.observed = "none" /\ "none" \notin Busy
    BY DEF NewEntry, Entry, Busy, Working
<1>3. OrDefault(work[p][k]) \in Entry
    BY <1>1, <1>2 DEF OrDefault
<1>4. Requested(p, k) # None => Requested(p, k).observed =
          IF rows[p][k] # None THEN rows[p][k].status
                               ELSE OrDefault(work[p][k]).observed
    <2>1. CASE rows[p][k] # None
        <3>1. Observed(p, k) \in Entry /\ Observed(p, k).observed = rows[p][k].status
            BY <1>1, <1>3, <2>1 DEF Observed, Observe, Entry, Row, Status, Busy, Working
        <3>2. OrDefault(Observed(p, k)) = Observed(p, k)
            BY <3>1, RecordsAssumption DEF OrDefault
        <3>3. QED BY <1>1, <2>1, <3>1, <3>2 DEF Requested, Entry, Flags
    <2>2. CASE rows[p][k] = None
        <3>1. Observed(p, k) = work[p][k]
            BY <2>2 DEF Observed
        <3>2. CASE target[p] = k
            BY <1>3, <2>2, <3>1, <3>2 DEF Requested, Entry
        <3>3. CASE target[p] # k
            BY <2>2, <3>1, <3>3 DEF Requested, OrDefault
        <3>4. QED BY <3>2, <3>3
    <2>3. QED BY <2>1, <2>2
<1>5. Final(p, k) # None => Final(p, k) = Requested(p, k)
    BY DEF Final
<1>6. OrDefault(work[p][k]).observed \in Busy =>
          entries[k] # None /\ entries[k].observed \in Busy
    BY <1>1, <1>2 DEF OrDefault, IInv, MergedIsCurrent
<1>7. work[p][k] # None /\ file[k] # "absent" => Final(p, k) # None
    <2> SUFFICES ASSUME work[p][k] # None, file[k] # "absent"
                 PROVE  Requested(p, k) # None
        BY DEF Final
    <2>1. Observed(p, k) \in Entry
        BY <1>1, <1>3, ObserveType DEF Observed, Row
    <2>2. OrDefault(Observed(p, k)) \in Entry
        BY <2>1, <1>2 DEF OrDefault
    <2>3. Requested(p, k) \in Entry
        BY <1>1, <2>1, <2>2 DEF Requested, Entry, Flags
    <2>4. QED BY <2>3, RecordsAssumption
<1>8. QED BY <1>4, <1>5, <1>6, <1>7

LEMMA CommitKeepsInv ==
    ASSUME TypeOK, IInv, NEW p \in Procs, Commit(p)
    PROVE  IInv'
<1>1. lock = p /\ tx[p] = "merged" /\ p # None
    BY SessionFlagsAssumption DEF Commit, IInv, OneTransaction, InTransaction
<1>2. \A q \in Procs : ~InTransaction(q)'
    BY <1>1 DEF Commit, IInv, OneTransaction, InTransaction, TypeOK
<1>3. OneTransaction' /\ MergedIsCurrent' /\ RowsArePast'
    BY <1>2 DEF OneTransaction, MergedIsCurrent, RowsArePast, InTransaction, HasRead
<1>4. WorkIsUnacknowledged'
    <2> SUFFICES ASSUME NEW k \in Keys
                 PROVE  /\ ackTurn'[k] <= row[k].turn
                        /\ row[k].status \in Busy => ackTurn'[k] < row[k].turn
                        /\ entries'[k] # None /\ entries'[k].observed \in Busy
                              => ackTurn'[k] < row[k].turn
        BY DEF Commit, WorkIsUnacknowledged, launcher
    <2>1. /\ row[k].turn \in Nat /\ ackTurn[k] \in Nat
          /\ rows[p][k] # None => rows[p][k].turn \in Nat
        BY SessionFlagsAssumption DEF TypeOK, Row
    <2>2. ackTurn'[k] = IF Acknowledges(p, k) THEN rows[p][k].turn ELSE ackTurn[k]
        BY DEF Commit
    <2>3. entries'[k] = Final(p, k)
        BY DEF Commit
    <2>4. CASE Acknowledges(p, k)
        <3>1. rows[p][k] # None /\ rows[p][k].status \notin Busy
            BY <2>4 DEF Acknowledges
        <3>2. ~(entries'[k] # None /\ entries'[k].observed \in Busy)
            BY <1>1, <2>3, <3>1, CommittedEntry
        <3>3. QED BY <1>1, <2>1, <2>2, <2>4, <3>1, <3>2 DEF IInv, RowsArePast, HasRead
    <2>5. CASE ~Acknowledges(p, k)
        <3>1. entries'[k] # None /\ entries'[k].observed \in Busy
                 => ackTurn[k] < row[k].turn
            BY <1>1, <2>1, <2>3, CommittedEntry
            DEF IInv, RowsArePast, HasRead, WorkIsUnacknowledged
        <3>2. QED BY <2>1, <2>2, <2>5, <3>1 DEF IInv, WorkIsUnacknowledged
    <2>6. QED BY <2>4, <2>5
<1>5. LegacyIsHeld'
    <2> SUFFICES ASSUME NEW k \in LegacyKeys, ~gone[k]
                 PROVE  file[k] # "absent" /\ entries'[k] # None
        BY <1>2 DEF Commit, LegacyIsHeld, launcher, InTransaction
    <2>1. k \in Keys
        BY SessionFlagsAssumption DEF LegacyKeys
    <2>2. file[k] # "absent" /\ work[p][k] # None
        BY <1>1, <2>1 DEF IInv, LegacyIsHeld
    <2>3. QED BY <1>1, <2>1, <2>2, CommittedEntry DEF Commit
<1>6. QED BY <1>3, <1>4, <1>5 DEF IInv

LEMMA EndKeepsInv ==
    ASSUME TypeOK, IInv, NEW p \in Procs, Fail(p) \/ SavePreferences(p)
    PROVE  IInv'
<1>1. OneTransaction'
    BY SessionFlagsAssumption
    DEF Fail, SavePreferences, TypeOK, IInv, OneTransaction, InTransaction
<1>2. \A q \in Procs : tx'[q] \in {"read", "merged"} =>
          tx'[q] = tx[q] /\ rows'[q] = rows[q] /\ work'[q] = work[q]
    BY DEF Fail, Forget, SavePreferences, TypeOK
<1>3. MergedIsCurrent' /\ RowsArePast'
    BY <1>2 DEF Fail, SavePreferences, IInv, MergedIsCurrent, RowsArePast, HasRead, launcher
<1>4. WorkIsUnacknowledged'
    BY DEF Fail, SavePreferences, IInv, WorkIsUnacknowledged, launcher
<1>5. LegacyIsHeld'
    <2>1. \A q \in Procs : tx'[q] = "saving" => tx[q] = "saving"
        BY DEF Fail, SavePreferences, TypeOK
    <2>2. QED BY <1>2, <2>1 DEF Fail, SavePreferences, IInv, LegacyIsHeld, launcher
<1>6. QED BY <1>1, <1>3, <1>4, <1>5 DEF IInv

\* The strengthening holds throughout: at most one transaction is under way,
\* it works on the sidecar as it stands, its rows are not older than the last
\* acknowledgement, and no acknowledged stretch is still seen as work.
THEOREM InvariantHolds == Spec => []IInv
<1>1. Init => IInv
    <2> SUFFICES ASSUME Init PROVE IInv
        OBVIOUS
    <2>1. \A p \in Procs : tx[p] = "idle"
        BY DEF Init
    <2>2. OneTransaction /\ MergedIsCurrent /\ RowsArePast
        BY <2>1 DEF OneTransaction, MergedIsCurrent, RowsArePast, InTransaction, HasRead
    <2>3. \A k \in Keys : /\ row[k].turn = 0 /\ ackTurn[k] = 0 /\ entries[k] = None
                           /\ row[k].status \notin Busy
        BY DEF Init, Busy, Working
    <2>4. WorkIsUnacknowledged
        BY <2>3 DEF WorkIsUnacknowledged
    <2>5. LegacyIsHeld
        BY <2>1, SessionFlagsAssumption DEF Init, LegacyIsHeld, LegacyKeys
    <2>6. QED BY <2>2, <2>4, <2>5 DEF IInv
<1>2. TypeOK /\ TypeOK' /\ IInv /\ [Next]_vars => IInv'
    <2> SUFFICES ASSUME TypeOK, TypeOK', IInv, [Next]_vars PROVE IInv'
        OBVIOUS
    <2>1. ASSUME NEW k \in Keys, LauncherWrites(k) \/ LauncherStarts(k) \/ LauncherEnds(k)
          PROVE  IInv'
        BY <2>1, LauncherKeepsInv
    <2>2. ASSUME NEW p \in Procs, Begin(p) \/ Step(p) \/ Fail(p) PROVE IInv'
        BY <2>2, BeginKeepsInv, AcquireKeepsInv, ReadRowsKeepsInv,
           ReadEntriesKeepsInv, CommitKeepsInv, EndKeepsInv DEF Step
    <2>3. CASE UNCHANGED vars
        BY <2>3 DEF vars, IInv, OneTransaction, MergedIsCurrent, RowsArePast,
                    WorkIsUnacknowledged, LegacyIsHeld, InTransaction, HasRead
    <2>4. QED BY <2>1, <2>2, <2>3 DEF Next
<1>3. QED BY <1>1, <1>2, TypeCorrect, PTL DEF Spec

-----------------------------------------------------------------------------
(* The properties *)

\* No transaction commits over a sidecar it did not read.
THEOREM Serial == Spec => []TransactionsAreSerial
<1>1. IInv => TransactionsAreSerial
    BY DEF IInv, MergedIsCurrent, TransactionsAreSerial
<1>2. QED BY <1>1, InvariantHolds, PTL

\* The legacy arrays are dropped only after every flag in them that still has
\* a session is in the sidecar.
THEOREM LegacySafe == Spec => []LegacyIsNeverLost
<1>1. IInv => LegacyIsNeverLost
    BY DEF IInv, LegacyIsHeld, LegacyIsNeverLost
<1>2. QED BY <1>1, InvariantHolds, PTL

\* Only a commit changes the sidecar.
LEMMA OnlyCommitsWrite ==
    ASSUME [Next]_vars, NEW k \in Keys, entries'[k] # entries[k]
    PROVE  \E p \in Procs : Commit(p)
BY DEF Next, Step, vars, launcher, LauncherWrites, LauncherStarts, LauncherEnds,
       Begin, Acquire, ReadRows, ReadEntries, Fail, SavePreferences

\* A bell put out stays out until the session has worked again.
THEOREM NoReplay == Spec => NoReplayedCompletion
<1>1. TypeOK /\ IInv /\ [Next]_vars =>
        [\A k \in Keys : ~Ringing(k) /\ Ringing(k)' /\ entries[k] # None =>
            \E p \in Procs :
               \/ target[p] = k /\ wanted[p].follow_up
               \/ rows[p][k] # None /\ rows[p][k].turn > ackTurn'[k]]_vars
    <2> SUFFICES ASSUME TypeOK, IInv, [Next]_vars, NEW k \in Keys,
                        ~Ringing(k), Ringing(k)', entries[k] # None
                 PROVE  \E p \in Procs :
                           \/ target[p] = k /\ wanted[p].follow_up
                           \/ rows[p][k] # None /\ rows[p][k].turn > ackTurn'[k]
        OBVIOUS
    <2>1. PICK p \in Procs : Commit(p)
        BY OnlyCommitsWrite DEF Ringing
    <2>2. tx[p] = "merged" /\ entries'[k] = Final(p, k)
        BY <2>1 DEF Commit
    <2>3. work[p][k] = entries[k] /\ entries[k] \in Entry /\ rows[p][k] \in Row \cup {None}
        BY <2>2 DEF IInv, MergedIsCurrent, TypeOK
    <2>4. CASE target[p] = k
        <3>1. Final(p, k) = [OrDefault(Observed(p, k)) EXCEPT
                                !.pinned = wanted[p].pinned,
                                !.follow_up = wanted[p].follow_up]
            BY <2>4 DEF Final, Requested
        <3>2. OrDefault(Observed(p, k)) \in Entry
            BY <2>3, ObserveType DEF Observed, OrDefault, NewEntry, Entry, Row
        <3>3. Final(p, k).follow_up = wanted[p].follow_up
            BY <3>1, <3>2 DEF Entry
        <3>4. QED BY <2>2, <2>4, <3>3 DEF Ringing
    <2>5. CASE target[p] # k
        <3>1. Final(p, k) = Observed(p, k)
            BY <2>2, <2>5 DEF Final, Requested, Ringing
        <3>2. rows[p][k] # None
            BY <2>2, <2>3, <3>1 DEF Observed, Ringing
        <3>3. Observed(p, k) = Observe(entries[k], rows[p][k].status)
            BY <2>3, <3>2 DEF Observed, OrDefault
        <3>4. EntersRest(entries[k].observed, rows[p][k].status)
            BY <2>2, <2>3, <3>1, <3>3 DEF Observe, Ringing, Entry
        <3>5. entries[k].observed \in Busy
            BY <3>4 DEF EntersRest, Busy, Working
        <3>6. ackTurn[k] < rows[p][k].turn /\ rows[p][k].turn \in Nat /\ ackTurn[k] \in Nat
            BY <2>2, <2>3, <3>2, <3>5, SessionFlagsAssumption
            DEF IInv, RowsArePast, HasRead, TypeOK, Row
        <3>7. ackTurn'[k] = ackTurn[k]
            BY <2>1, <2>5 DEF Commit, Acknowledges
        <3>8. QED BY <3>2, <3>6, <3>7
    <2>6. QED BY <2>4, <2>5
<1>2. QED BY <1>1, TypeCorrect, InvariantHolds, PTL DEF Spec, NoReplayedCompletion

\* A pin leaves only on request or with its session.
THEOREM PinsSurvive == Spec => PinSurvives
<1>1. TypeOK /\ IInv /\ [Next]_vars =>
        [\A k \in Keys :
            /\ entries[k] # None /\ entries[k].pinned
            /\ ~(entries'[k] # None /\ entries'[k].pinned)
            => file[k] = "absent" \/ \E p \in Procs : target[p] = k]_vars
    <2> SUFFICES ASSUME TypeOK, IInv, [Next]_vars, NEW k \in Keys,
                        entries[k] # None, entries[k].pinned,
                        ~(entries'[k] # None /\ entries'[k].pinned),
                        file[k] # "absent", \A p \in Procs : target[p] # k
                 PROVE  FALSE
        OBVIOUS
    <2>1. PICK p \in Procs : Commit(p)
        BY OnlyCommitsWrite
    <2>2. entries'[k] = Observed(p, k) /\ tx[p] = "merged"
        BY <2>1 DEF Commit, Final, Requested
    <2>3. work[p][k] = entries[k] /\ entries[k] \in Entry
        BY <2>2 DEF IInv, MergedIsCurrent, TypeOK
    <2>4. CASE rows[p][k] = None
        BY <2>2, <2>3, <2>4 DEF Observed
    <2>5. CASE rows[p][k] # None
        <3>1. rows[p][k].status \in Status
            BY <2>5 DEF TypeOK, Row
        <3>2. Observed(p, k) \in Entry /\ Observed(p, k).pinned = entries[k].pinned
            BY <2>3, <2>5, <3>1, ObserveType DEF Observed, OrDefault, Observe, Entry
        <3>3. QED BY <2>2, <3>2, RecordsAssumption
    <2>6. QED BY <2>4, <2>5
<1>2. QED BY <1>1, TypeCorrect, InvariantHolds, PTL DEF Spec, PinSurvives
=============================================================================
