---------------------------- MODULE SessionProofs ----------------------------
(***************************************************************************)
(* A session's row on its way: from what its agent tells the launcher, by  *)
(* the host's list and the mirror of it, to the table of the dashboard.    *)
(*                                                                         *)
(* The mirror, for every set of keys and every bound: no change is missed, *)
(* and what the dashboard is told of a host only moves forward.            *)
(*                                                                         *)
(* The table above it, for any sessions, guesses, kills and windows: it    *)
(* composes the mirror without changing it, a kill is reported done only   *)
(* of a session that is over, and a table at rest shows the host's rows.   *)
(* The table learns of sessions from the mirror alone.  So whatever a kill *)
(* was asked for has been in the mirror, and a mirror that is the host's   *)
(* account and lacks it is a later one (Past).                             *)
(*                                                                         *)
(* The status of the row, for turns of any number and length: whatever it  *)
(* does not say is made up for by something that is still to be read.      *)
(***************************************************************************)
EXTENDS SessionTable, AgentStatus, TLAPS

------------------------------------------------------------------------------
(* Facts about the helpers *)

\* A frame that mentions a key says which row it has, so that applying frames
\* to a mirror yields a mirror.
LEMMA AccountIsRow ==
    ASSUME NEW f \in Frame, NEW k \in Keys, Mentions(f, k)
    PROVE  Account(f, k) \in Row
  BY DEF Frame, Mentions, Account

LEMMA AppliedIsMirror ==
    ASSUME NEW f \in Frame, NEW m \in [Keys -> Row]
    PROVE  Applied(f, m) \in [Keys -> Row]
  BY AccountIsRow DEF Applied

\* What the three frames mention and say.
LEMMA FrameFacts ==
    ASSUME NEW rows \in [Keys -> Row], NEW k \in Keys, NEW j \in Keys, NEW r \in Row
    PROVE  /\ SnapshotOf(rows) \in Frame /\ DeltaOf(k, r) \in Frame
           /\ RemovedOf(k, r) \in Frame
           /\ SnapshotOf(rows).kind = "Snapshot"
           /\ DeltaOf(k, r).kind # "Snapshot" /\ RemovedOf(k, r).kind # "Snapshot"
           /\ Mentions(SnapshotOf(rows), j) /\ Account(SnapshotOf(rows), j) = rows[j]
           /\ Mentions(DeltaOf(k, r), j) <=> j = k
           /\ Account(DeltaOf(k, r), j) = r
           /\ Mentions(RemovedOf(k, r), j) <=> j = k
           /\ Account(RemovedOf(k, r), j) = r
           /\ DeltaOf(k, r).row = r /\ RemovedOf(k, r).row = r
  BY DEF Frame, Mentions, Account, SnapshotOf, DeltaOf, RemovedOf

LEMMA SnapshotMentionsAll ==
    ASSUME NEW f \in Frame, f.kind = "Snapshot", NEW k \in Keys
    PROVE  Mentions(f, k)
  BY DEF Mentions

LEMMA AbsentIsRow ==
    ASSUME NEW g \in 0..MaxGen
    PROVE  /\ Absent(g) \in Row
           /\ Absent(g).gen = g /\ Absent(g).live = FALSE
  BY DEF Absent, Row

LEMMA NoRowsIsMirror ==
    /\ NoRows \in [Keys -> Row]
    /\ \A k \in Keys : NoRows[k].gen = 0 /\ NoRows[k].live = FALSE
  <1>1. 0 \in 0..MaxGen
    BY HostMirrorAssumption
  <1>. QED BY <1>1, AbsentIsRow DEF NoRows

\* NotAfter orders the rows of a key in time.
LEMMA NotAfterOrder ==
    ASSUME NEW r \in Row, NEW s \in Row, NEW t \in Row
    PROVE  /\ NotAfter(r, r)
           /\ NotAfter(r, s) /\ NotAfter(s, t) => NotAfter(r, t)
           /\ ~r.live => (NotAfter(r, s) => NotAfter(Absent(r.gen), s))
           /\ NotAfter(s, r) => NotAfter(s, Absent(r.gen))
  <1>1. r.gen \in Nat /\ s.gen \in Nat /\ t.gen \in Nat
    BY HostMirrorAssumption DEF Row
  <1>2. r.live \in BOOLEAN /\ s.live \in BOOLEAN /\ t.live \in BOOLEAN
    BY DEF Row
  <1>3. Absent(r.gen).gen = r.gen /\ Absent(r.gen).live = FALSE
    BY DEF Absent
  <1>. QED BY <1>1, <1>2, <1>3 DEF NotAfter

LEMMA AppendFacts ==
    ASSUME NEW s \in Seq(Frame), NEW f \in Frame
    PROVE  /\ Append(s, f) \in Seq(Frame)
           /\ Len(Append(s, f)) = Len(s) + 1 /\ Len(s) \in Nat
           /\ \A i \in 1..Len(s) : Append(s, f)[i] = s[i] /\ s[i] \in Frame
           /\ Append(s, f)[Len(s) + 1] = f
  OBVIOUS

LEMMA TailFacts ==
    ASSUME NEW s \in Seq(Frame), s # <<>>
    PROVE  /\ Tail(s) \in Seq(Frame)
           /\ Len(Tail(s)) = Len(s) - 1 /\ Len(s) \in Nat \ {0}
           /\ Head(s) = s[1] /\ s[1] \in Frame
           /\ \A i \in 1..Len(s) - 1 : Tail(s)[i] = s[i + 1]
  OBVIOUS

------------------------------------------------------------------------------
(* Type correctness *)

\* Every step of the host keeps a row a row, and touches what HostChanges does.
LEMMA HostStepFacts ==
    ASSUME MirrorTypeOK, HostStep
    PROVE  \E k \in Keys, r \in Row : HostChanges(k, r) /\ NotAfter(host[k], r)
  <1>. USE DEF MirrorTypeOK
  <1>1. ASSUME NEW k \in Keys, Launch(k)
        PROVE  \E r \in Row : HostChanges(k, r) /\ NotAfter(host[k], r)
    <2>1. PICK a \in BOOLEAN :
             HostChanges(k, [gen |-> host[k].gen + 1, live |-> TRUE, attached |-> a])
      BY <1>1 DEF Launch
    <2>. DEFINE r == [gen |-> host[k].gen + 1, live |-> TRUE, attached |-> a]
    <2>2. host[k].gen \in Nat /\ host[k].gen < MaxGen
      BY <1>1, HostMirrorAssumption DEF Launch, Row
    <2>3. r \in Row /\ r.gen = host[k].gen + 1
      BY <2>2, HostMirrorAssumption DEF Row
    <2>4. NotAfter(host[k], r)
      BY <2>2, <2>3 DEF NotAfter
    <2>. QED BY <2>1, <2>3, <2>4
  <1>2. ASSUME NEW k \in Keys, End(k)
        PROVE  \E r \in Row : HostChanges(k, r) /\ NotAfter(host[k], r)
    <2>1. host[k] \in Row /\ host[k].gen \in 0..MaxGen
      BY DEF Row
    <2>2. Absent(host[k].gen) \in Row /\ NotAfter(host[k], Absent(host[k].gen))
      BY <2>1, AbsentIsRow, NotAfterOrder
    <2>. QED BY <1>2, <2>2 DEF End
  <1>3. ASSUME NEW k \in Keys, Attach(k) \/ Detach(k)
        PROVE  \E r \in Row : HostChanges(k, r) /\ NotAfter(host[k], r)
    <2>. DEFINE r == [host[k] EXCEPT !.attached = ~host[k].attached]
    <2>1. r \in Row /\ NotAfter(host[k], r)
      BY DEF Row, NotAfter
    <2>2. HostChanges(k, r)
      <3>1. host[k] \in Row
        OBVIOUS
      <3>2. r = [host[k] EXCEPT !.attached = TRUE]
            \/ r = [host[k] EXCEPT !.attached = FALSE]
        BY <3>1 DEF Row
      <3>. QED BY <1>3, <3>1 DEF Attach, Detach, Row
    <2>. QED BY <2>1, <2>2
  <1>. QED BY <1>1, <1>2, <1>3 DEF HostStep

\* What PushRemoved and PushDelta have in common: one frame, about one key,
\* that agrees with the rows last read.
LEMMA PushFacts ==
    ASSUME MirrorTypeOK, NEW k \in Keys, PushRemoved(k) \/ PushDelta(k)
    PROVE  \E r \in Row, f \in Frame :
              /\ Push(k, f)
              /\ f.kind # "Snapshot" /\ f.row = r
              /\ \A j \in Keys : (Mentions(f, j) <=> j = k) /\ Account(f, j) = r
              /\ r = cur[k] \/ (~cur[k].live /\ r = Absent(cur[k].gen))
  <1>1. cur[k] \in Row /\ Absent(cur[k].gen) \in Row
    BY AbsentIsRow DEF MirrorTypeOK, Row
  <1>2. CASE PushRemoved(k)
    <2>. DEFINE f == RemovedOf(k, Absent(cur[k].gen))
    <2>1. /\ f \in Frame /\ f.kind # "Snapshot" /\ f.row = Absent(cur[k].gen)
          /\ \A j \in Keys : (Mentions(f, j) <=> j = k)
                             /\ Account(f, j) = Absent(cur[k].gen)
      BY <1>1, FrameFacts DEF MirrorTypeOK
    <2>2. Push(k, f) /\ ~cur[k].live
      BY <1>2 DEF PushRemoved, Gone
    <2>. HIDE DEF f
    <2>. QED BY <1>1, <2>1, <2>2
  <1>3. CASE PushDelta(k)
    <2>. DEFINE f == DeltaOf(k, cur[k])
    <2>1. /\ f \in Frame /\ f.kind # "Snapshot" /\ f.row = cur[k]
          /\ \A j \in Keys : (Mentions(f, j) <=> j = k) /\ Account(f, j) = cur[k]
      BY <1>1, FrameFacts DEF MirrorTypeOK
    <2>2. Push(k, f)
      BY <1>3 DEF PushDelta
    <2>. HIDE DEF f
    <2>. QED BY <1>1, <2>1, <2>2
  <1>. QED BY <1>2, <1>3

LEMMA InitTypeOK == MirrorInit => MirrorTypeOK
  <1>1. MirrorInit => host \in [Keys -> Row]
    BY DEF MirrorInit
  <1>2. <<>> \in Seq(Frame) /\ Len(<<>>) = 0
    OBVIOUS
  <1>3. MirrorInit => chan \in Seq(Frame) /\ Len(chan) <= MaxFrames
    BY <1>2, HostMirrorAssumption DEF MirrorInit
  <1>4. MirrorInit => churn \in 0..MaxChurn /\ mirror \in [Keys -> Row]
                      /\ seen \in [Keys -> Row] /\ cur \in [Keys -> Row]
                      /\ lastSent \in [Keys -> Row]
    BY NoRowsIsMirror, HostMirrorAssumption DEF MirrorInit
  <1>5. MirrorInit => /\ srv \in {"none", "accepted", "subscribe", "snapshot", "idle", "woken", "pushing"}
                      /\ wake \in BOOLEAN /\ mirrored \in BOOLEAN
                      /\ conn \in {"down", "connecting", "connected"}
    BY DEF MirrorInit
  <1>. QED BY <1>1, <1>3, <1>4, <1>5 DEF MirrorTypeOK

LEMMA StepTypeOK ==
    ASSUME MirrorTypeOK, [MirrorNext]_mirrorVars
    PROVE  MirrorTypeOK'
  <1>1. CASE HostStep
    <2>1. PICK k \in Keys, r \in Row : HostChanges(k, r)
      BY <1>1, HostStepFacts
    <2>. QED BY <2>1, HostMirrorAssumption
             DEF MirrorTypeOK, HostChanges, Listening, clientVars
  <1>2. CASE Accept \/ Handshake \/ ReadSnapshot \/ Wake \/ ReadRows \/ PushDone
    BY <1>2 DEF MirrorTypeOK, Accept, Handshake, ReadSnapshot, Wake, ReadRows,
                PushDone, hostVars, clientVars
  <1>3. CASE SendSnapshot
    <2>1. SnapshotOf(cur) \in Frame
      BY DEF Frame, SnapshotOf, MirrorTypeOK
    <2>. QED BY <1>3, <2>1, AppendFacts, HostMirrorAssumption
             DEF MirrorTypeOK, SendSnapshot, Writable, hostVars, clientVars
  <1>4. ASSUME NEW k \in Keys, PushRemoved(k) \/ PushDelta(k)
        PROVE  MirrorTypeOK'
    <2>1. PICK r \in Row, f \in Frame : Push(k, f) /\ f.row = r
      BY <1>4, PushFacts
    <2>. QED BY <2>1, AppendFacts, HostMirrorAssumption
             DEF MirrorTypeOK, Push, Writable, hostVars, clientVars
  <1>5. CASE Dial \/ DialFails
    BY <1>5, HostMirrorAssumption
       DEF MirrorTypeOK, Dial, DialFails, hostVars, serverVars
  <1>6. CASE Receive
    <2>1. Head(chan) \in Frame /\ Tail(chan) \in Seq(Frame)
          /\ Len(Tail(chan)) = Len(chan) - 1 /\ Len(chan) \in Nat
      BY <1>6, TailFacts DEF Receive, MirrorTypeOK
    <2>2. mirror' \in [Keys -> Row]
      BY <1>6, <2>1, AppliedIsMirror DEF Receive, MirrorTypeOK
    <2>3. mirrored' \in BOOLEAN
      BY <1>6 DEF Receive, MirrorTypeOK
    <2>4. seen' \in [Keys -> Row]
      BY <1>6, <2>2, <2>3 DEF Receive, MirrorTypeOK
    <2>. QED BY <1>6, <2>1, <2>2, <2>3, <2>4, HostMirrorAssumption
             DEF MirrorTypeOK, Receive, hostVars, serverVars
  <1>7. CASE LinkLost
    <2>1. <<>> \in Seq(Frame) /\ Len(<<>>) = 0
      OBVIOUS
    <2>2. chan' \in Seq(Frame) /\ Len(chan') <= MaxFrames
      BY <1>7, <2>1, HostMirrorAssumption DEF LinkLost
    <2>3. churn' \in 0..MaxChurn
      BY <1>7, HostMirrorAssumption DEF MirrorTypeOK, LinkLost
    <2>4. mirror' \in [Keys -> Row]
      BY <1>7, NoRowsIsMirror DEF LinkLost
    <2>. QED BY <1>7, <2>2, <2>3, <2>4 DEF MirrorTypeOK, LinkLost
  <1>8. CASE UNCHANGED mirrorVars
    BY <1>8 DEF MirrorTypeOK, mirrorVars
  <1>. QED BY <1>1, <1>2, <1>3, <1>4, <1>5, <1>6, <1>7, <1>8
           DEF MirrorNext, ServerStep

------------------------------------------------------------------------------
(* The link, and the order of its frames *)

LEMMA InitWired == MirrorInit => Wired
  BY DEF MirrorInit, Wired, Subscribed

LEMMA StepWired ==
    ASSUME MirrorTypeOK, Wired, SnapshotFirst, [MirrorNext]_mirrorVars
    PROVE  Wired'
  <1>. USE DEF Wired, Subscribed
  <1>1. CASE HostStep
    <2>1. PICK k \in Keys, r \in Row : HostChanges(k, r)
      BY <1>1, HostStepFacts
    <2>. QED BY <2>1 DEF HostChanges, Listening, clientVars
  <1>2. CASE Accept \/ Handshake \/ ReadSnapshot \/ SendSnapshot
    BY <1>2 DEF Accept, Handshake, ReadSnapshot, SendSnapshot, hostVars, clientVars
  <1>3. CASE Wake \/ ReadRows \/ PushDone
    BY <1>3 DEF Wake, ReadRows, PushDone, hostVars, clientVars
  <1>4. ASSUME NEW k \in Keys, PushRemoved(k) \/ PushDelta(k)
        PROVE  Wired'
    <2>1. PICK f \in Frame : Push(k, f)
      BY <1>4, PushFacts
    <2>. QED BY <2>1 DEF Push, hostVars, clientVars
  <1>5. CASE Dial \/ DialFails
    BY <1>5 DEF Dial, DialFails, hostVars, serverVars
  <1>6. CASE Receive
    <2>1. Subscribed /\ Subscribed'
      BY <1>6 DEF Receive, serverVars
    <2>2. mirrored'
      BY <1>6, <2>1, TailFacts DEF Receive, SnapshotFirst, MirrorTypeOK
    <2>. QED BY <1>6, <2>1, <2>2 DEF Receive, serverVars
  <1>7. CASE LinkLost
    BY <1>7 DEF LinkLost
  <1>8. CASE UNCHANGED mirrorVars
    BY <1>8 DEF mirrorVars
  <1>. QED BY <1>1, <1>2, <1>3, <1>4, <1>5, <1>6, <1>7, <1>8
           DEF MirrorNext, ServerStep

LEMMA InitSnapshotFirst == MirrorInit => SnapshotFirst
  BY DEF MirrorInit, SnapshotFirst, Subscribed

LEMMA StepSnapshotFirst ==
    ASSUME MirrorTypeOK, Wired, SnapshotFirst, [MirrorNext]_mirrorVars
    PROVE  SnapshotFirst'
  <1>. USE DEF SnapshotFirst, Subscribed
  <1>0. chan \in Seq(Frame)
    BY DEF MirrorTypeOK
  <1>1. CASE HostStep
    <2>1. PICK k \in Keys, r \in Row : HostChanges(k, r)
      BY <1>1, HostStepFacts
    <2>. QED BY <2>1 DEF HostChanges, clientVars
  <1>2. CASE Accept \/ Handshake \/ ReadSnapshot \/ Wake \/ ReadRows \/ PushDone
    BY <1>2 DEF Accept, Handshake, ReadSnapshot, Wake, ReadRows, PushDone,
                hostVars, clientVars
  <1>3. CASE SendSnapshot
    <2>1. chan = <<>> /\ ~mirrored
      BY <1>3 DEF SendSnapshot, Wired
    <2>2. chan' = <<SnapshotOf(cur)>> /\ SnapshotOf(cur).kind = "Snapshot"
      BY <1>3, <2>1 DEF SendSnapshot, SnapshotOf
    <2>. QED BY <1>3, <2>1, <2>2 DEF SendSnapshot, clientVars
  <1>4. ASSUME NEW k \in Keys, PushRemoved(k) \/ PushDelta(k)
        PROVE  SnapshotFirst'
    <2>1. PICK f \in Frame : Push(k, f) /\ f.kind # "Snapshot"
      BY <1>4, PushFacts
    <2>. QED BY <1>0, <2>1, AppendFacts DEF Push, clientVars
  <1>5. CASE Dial \/ DialFails
    BY <1>5 DEF Dial, DialFails, serverVars
  <1>6. CASE Receive
    <2>1. \A i \in 1..Len(chan') : chan'[i] = chan[i + 1] /\ i + 1 \in 1..Len(chan)
      BY <1>0, <1>6, TailFacts DEF Receive
    <2>2. \A i \in 1..Len(chan') : chan'[i].kind # "Snapshot"
      BY <2>1, <1>0, <1>6, TailFacts DEF Receive
    <2>3. Subscribed' => mirrored'
      BY <1>0, <1>6, TailFacts DEF Receive, serverVars
    <2>. QED BY <2>2, <2>3
  <1>7. CASE LinkLost
    BY <1>7 DEF LinkLost
  <1>8. CASE UNCHANGED mirrorVars
    BY <1>8 DEF mirrorVars
  <1>. QED BY <1>1, <1>2, <1>3, <1>4, <1>5, <1>6, <1>7, <1>8
           DEF MirrorNext, ServerStep

------------------------------------------------------------------------------
(* No change is missed *)

LEMMA InitUpToDate == MirrorInit => UpToDate
  BY DEF MirrorInit, UpToDate

\* A change of the host leaves a wake pending in every connection it could
\* have escaped; the wake is only taken back by the reading that serves it.
LEMMA StepUpToDate ==
    ASSUME MirrorTypeOK, Wired, UpToDate, [MirrorNext]_mirrorVars
    PROVE  UpToDate'
  <1>. USE DEF UpToDate
  <1>1. CASE HostStep
    <2>1. PICK k \in Keys, r \in Row : HostChanges(k, r)
      BY <1>1, HostStepFacts
    <2>. QED BY <2>1 DEF HostChanges, Listening
  <1>2. CASE Accept \/ Handshake \/ ReadSnapshot \/ Wake \/ ReadRows
    BY <1>2 DEF Accept, Handshake, ReadSnapshot, Wake, ReadRows, hostVars
  <1>3. CASE SendSnapshot
    BY <1>3 DEF SendSnapshot, hostVars, Same
  <1>4. ASSUME NEW k \in Keys, PushRemoved(k) \/ PushDelta(k)
        PROVE  UpToDate'
    <2>1. PICK f \in Frame : Push(k, f)
      BY <1>4, PushFacts
    <2>. QED BY <2>1 DEF Push, hostVars
  <1>5. CASE PushDone
    <2>1. \A k \in Keys : Same(lastSent[k], cur[k])
      BY <1>5 DEF PushDone, Gone, Changed, Same, MirrorTypeOK, Row
    <2>. QED BY <1>5, <2>1 DEF PushDone, hostVars
  <1>6. CASE Dial \/ DialFails \/ Receive
    BY <1>6 DEF Dial, DialFails, Receive, hostVars, serverVars
  <1>7. CASE LinkLost
    BY <1>7 DEF LinkLost
  <1>8. CASE UNCHANGED mirrorVars
    BY <1>8 DEF mirrorVars
  <1>. QED BY <1>1, <1>2, <1>3, <1>4, <1>5, <1>6, <1>7, <1>8
           DEF MirrorNext, ServerStep

LEMMA InitInStep == MirrorInit => InStep
  BY DEF MirrorInit, InStep, Subscribed

\* Frames are applied in the order they were written, so the newest mention of
\* a key on the wire, or else the mirror, is what the connection was last sent.
LEMMA StepInStep ==
    ASSUME MirrorTypeOK, Wired, SnapshotFirst, InStep, [MirrorNext]_mirrorVars
    PROVE  InStep'
  <1>0. chan \in Seq(Frame)
    BY DEF MirrorTypeOK
  <1>1. CASE UNCHANGED <<chan, lastSent, mirror>> /\ (Subscribed' => Subscribed)
    BY <1>1 DEF InStep, LastMention
  <1>2. CASE SendSnapshot
    <2>1. chan = <<>>
      BY <1>2 DEF SendSnapshot, Wired, Subscribed
    <2>2. chan' = <<SnapshotOf(cur)>> /\ lastSent' = cur
      BY <1>2, <2>1 DEF SendSnapshot
    <2>3. \A k \in Keys : Mentions(SnapshotOf(cur), k)
                           /\ Account(SnapshotOf(cur), k) = cur[k]
      BY DEF Mentions, Account, SnapshotOf
    <2>. QED BY <2>2, <2>3 DEF InStep
  <1>3. ASSUME NEW k \in Keys, PushRemoved(k) \/ PushDelta(k)
        PROVE  InStep'
    <2>1. PICK r \in Row, f \in Frame :
             /\ Push(k, f) /\ f.row = r
             /\ \A j \in Keys : (Mentions(f, j) <=> j = k) /\ Account(f, j) = r
      BY <1>3, PushFacts
    <2>2. Subscribed /\ lastSent' = [lastSent EXCEPT ![k] = r] /\ mirror' = mirror
          /\ chan' = Append(chan, f)
      BY <2>1 DEF Push, Subscribed, clientVars
    <2>3. SUFFICES ASSUME NEW j \in Keys
                   PROVE  /\ \A i \in 1..Len(chan') : LastMention(i, j)'
                                => Account(chan'[i], j) = lastSent'[j]
                          /\ (\A i \in 1..Len(chan') : ~Mentions(chan'[i], j))
                                => mirror'[j] = lastSent'[j]
      BY DEF InStep
    <2>4. /\ Len(chan') = Len(chan) + 1 /\ Len(chan) \in Nat
          /\ chan'[Len(chan) + 1] = f
          /\ \A i \in 1..Len(chan) : chan'[i] = chan[i]
      BY <1>0, <2>2, AppendFacts
    <2>5. CASE j = k
      <3>1. Mentions(f, j) /\ Account(f, j) = r /\ lastSent'[j] = r
        BY <2>1, <2>2, <2>5 DEF MirrorTypeOK
      <3>2. ASSUME NEW i \in 1..Len(chan'), LastMention(i, j)'
            PROVE  i = Len(chan) + 1
        BY <3>1, <3>2, <2>4 DEF LastMention
      <3>. QED BY <3>1, <3>2, <2>4
    <2>6. CASE j # k
      <3>1. ~Mentions(f, j) /\ lastSent'[j] = lastSent[j]
        BY <2>1, <2>2, <2>6 DEF MirrorTypeOK
      <3>2. ASSUME NEW i \in 1..Len(chan'), LastMention(i, j)'
            PROVE  i \in 1..Len(chan) /\ LastMention(i, j)
        BY <3>1, <3>2, <2>4 DEF LastMention
      <3>3. (\A i \in 1..Len(chan') : ~Mentions(chan'[i], j))
               => \A i \in 1..Len(chan) : ~Mentions(chan[i], j)
        BY <2>4
      <3>. QED BY <2>2, <2>4, <3>1, <3>2, <3>3 DEF InStep
    <2>. QED BY <2>5, <2>6
  <1>4. CASE Receive
    <2>1. /\ Subscribed /\ lastSent' = lastSent /\ mirror' = Applied(chan[1], mirror)
          /\ chan' = Tail(chan) /\ chan # <<>>
      BY <1>0, <1>4, TailFacts DEF Receive, serverVars, Wired, Subscribed
    <2>2. /\ Len(chan') = Len(chan) - 1 /\ Len(chan) \in Nat \ {0}
          /\ \A i \in 1..Len(chan) - 1 : chan'[i] = chan[i + 1]
      BY <1>0, <2>1, TailFacts
    <2>3. SUFFICES ASSUME NEW j \in Keys
                   PROVE  /\ \A i \in 1..Len(chan') : LastMention(i, j)'
                                => Account(chan'[i], j) = lastSent'[j]
                          /\ (\A i \in 1..Len(chan') : ~Mentions(chan'[i], j))
                                => mirror'[j] = lastSent'[j]
      BY DEF InStep
    <2>4. ASSUME NEW i \in 1..Len(chan'), LastMention(i, j)'
          PROVE  Account(chan'[i], j) = lastSent'[j]
      <3>1. i + 1 \in 1..Len(chan) /\ chan'[i] = chan[i + 1]
        BY <2>2
      <3>2. ASSUME NEW n \in 1..Len(chan), n > i + 1
            PROVE  ~Mentions(chan[n], j)
        <4>1. n - 1 \in 1..Len(chan') /\ n - 1 > i /\ chan'[n - 1] = chan[n]
          BY <2>2, <3>2
        <4>. QED BY <2>4, <4>1 DEF LastMention
      <3>3. LastMention(i + 1, j)
        BY <2>4, <3>1, <3>2 DEF LastMention
      <3>. QED BY <2>1, <3>1, <3>3 DEF InStep
    <2>5. ASSUME \A i \in 1..Len(chan') : ~Mentions(chan'[i], j)
          PROVE  mirror'[j] = lastSent'[j]
      <3>1. ASSUME NEW n \in 1..Len(chan), n > 1
            PROVE  ~Mentions(chan[n], j)
        <4>1. n - 1 \in 1..Len(chan') /\ chan'[n - 1] = chan[n]
          BY <2>2, <3>1
        <4>. QED BY <2>5, <4>1
      <3>2. CASE Mentions(chan[1], j)
        <4>1. LastMention(1, j)
          BY <3>1, <3>2, <2>2 DEF LastMention
        <4>2. Account(chan[1], j) = lastSent[j]
          BY <4>1, <2>1, <2>2 DEF InStep
        <4>. QED BY <2>1, <3>2, <4>2 DEF Applied
      <3>3. CASE ~Mentions(chan[1], j)
        <4>1. mirror[j] = lastSent[j]
          BY <3>1, <3>3, <2>1, <2>2 DEF InStep
        <4>. QED BY <2>1, <3>3, <4>1 DEF Applied
      <3>. QED BY <3>2, <3>3
    <2>. QED BY <2>4, <2>5
  <1>5. CASE LinkLost
    BY <1>5 DEF LinkLost, InStep, Subscribed
  <1>6. CASE HostStep
    <2>1. PICK k \in Keys, r \in Row : HostChanges(k, r)
      BY <1>6, HostStepFacts
    <2>. QED BY <1>1, <2>1 DEF HostChanges, clientVars, Subscribed
  <1>7. CASE \/ Accept \/ Handshake \/ ReadSnapshot \/ Wake \/ ReadRows \/ PushDone
             \/ Dial \/ DialFails \/ UNCHANGED mirrorVars
    BY <1>1, <1>7 DEF Accept, Handshake, ReadSnapshot, Wake, ReadRows, PushDone,
       Dial, DialFails, clientVars, serverVars, Subscribed, mirrorVars
  <1>. QED BY <1>2, <1>3, <1>4, <1>5, <1>6, <1>7 DEF MirrorNext, ServerStep

------------------------------------------------------------------------------
(* Copies of a row only lag *)

LEMMA InitForward == MirrorInit => Forward
  <1>1. ASSUME MirrorInit, NEW k \in Keys
        PROVE  NotAfter(seen[k], host[k])
    <2>1. seen[k].gen = 0 /\ seen[k].live = FALSE
      BY <1>1, NoRowsIsMirror DEF MirrorInit
    <2>2. host[k] \in Row /\ (host[k].live => host[k].gen = 1)
          /\ (~host[k].live => host[k] = Absent(0))
      BY <1>1 DEF MirrorInit
    <2>3. host[k].live \in BOOLEAN /\ Absent(0).gen = 0 /\ Absent(0).live = FALSE
      BY <2>2 DEF Row, Absent
    <2>. QED BY <2>1, <2>2, <2>3 DEF NotAfter
  <1>2. MirrorInit => ~Reading
    BY DEF MirrorInit, Reading
  <1>3. MirrorInit => \A i \in 1..Len(chan) : FALSE
    BY DEF MirrorInit
  <1>. QED BY <1>1, <1>2, <1>3 DEF Forward

\* After a received frame the mirror is an account, and each of its rows is the
\* frame's or the one it had.
LEMMA ReceivedRows ==
    ASSUME MirrorTypeOK, Wired, SnapshotFirst, Receive
    PROVE  /\ mirrored' /\ chan # <<>> /\ chan[1] \in Frame
           /\ \A k \in Keys : seen'[k] = IF Mentions(chan[1], k)
                                          THEN Account(chan[1], k) ELSE seen[k]
           /\ seen' \in [Keys -> Row]
           /\ mirrored => chan[1].kind # "Snapshot"
  <1>1. /\ Subscribed /\ chan # <<>> /\ Head(chan) = chan[1] /\ chan[1] \in Frame
        /\ Len(chan) \in Nat \ {0}
    BY TailFacts DEF Receive, Wired, Subscribed, MirrorTypeOK
  <1>2. /\ mirrored' /\ (mirrored => chan[1].kind # "Snapshot")
        /\ (~mirrored => chan[1].kind = "Snapshot")
    <2>1. 1 \in 1..Len(chan) /\ mirrored \in BOOLEAN
      BY <1>1 DEF MirrorTypeOK
    <2>2. mirrored => chan[1].kind # "Snapshot"
      BY <2>1 DEF SnapshotFirst
    <2>3. ~mirrored => chan[1].kind = "Snapshot"
      BY <1>1 DEF SnapshotFirst
    <2>. QED BY <1>1, <2>1, <2>2, <2>3 DEF Receive
  <1>3. seen' = Applied(chan[1], mirror)
    BY <1>1, <1>2 DEF Receive
  <1>4. ASSUME NEW k \in Keys, ~Mentions(chan[1], k)
        PROVE  mirror[k] = seen[k]
    BY <1>1, <1>2, <1>4, SnapshotMentionsAll DEF Wired
  <1>. QED BY <1>1, <1>2, <1>3, <1>4, AppliedIsMirror DEF Applied, MirrorTypeOK

LEMMA StepForward ==
    ASSUME MirrorTypeOK, Wired, SnapshotFirst, Forward, [MirrorNext]_mirrorVars
    PROVE  Forward'
  <1>0. /\ chan \in Seq(Frame) /\ host \in [Keys -> Row] /\ cur \in [Keys -> Row]
        /\ seen \in [Keys -> Row]
    BY DEF MirrorTypeOK
  <1>a. ASSUME NEW k \in Keys, NEW i \in 1..Len(chan), Mentions(chan[i], k)
        PROVE  Account(chan[i], k) \in Row
    BY <1>0, <1>a, AccountIsRow
  <1>1. CASE HostStep
    <2>1. PICK k \in Keys, r \in Row : HostChanges(k, r) /\ NotAfter(host[k], r)
      BY <1>1, HostStepFacts
    <2>2. UNCHANGED <<srv, cur, chan, seen>> /\ host' = [host EXCEPT ![k] = r]
      BY <2>1 DEF HostChanges, clientVars
    <2>3. ASSUME NEW j \in Keys, NEW s \in Row, NotAfter(s, host[j])
          PROVE  NotAfter(s, host'[j])
      BY <1>0, <2>1, <2>2, <2>3, NotAfterOrder
    <2>. QED BY <1>0, <1>a, <2>2, <2>3 DEF Forward, Reading
  <1>2. CASE ReadSnapshot \/ ReadRows
    <2>1. UNCHANGED <<host, chan, seen>> /\ cur' = host
      BY <1>2 DEF ReadSnapshot, ReadRows, hostVars, clientVars
    <2>2. \A k \in Keys : NotAfter(host[k], host[k])
      BY <1>0, NotAfterOrder
    <2>. QED BY <2>1, <2>2 DEF Forward
  <1>3. CASE SendSnapshot
    <2>1. chan = <<>> /\ Reading /\ ~Reading'
      BY <1>3 DEF SendSnapshot, Wired, Subscribed, Reading
    <2>2. chan' = <<SnapshotOf(cur)>> /\ UNCHANGED <<host, seen>>
      BY <1>3, <2>1 DEF SendSnapshot, hostVars, clientVars
    <2>3. \A k \in Keys : Account(SnapshotOf(cur), k) = cur[k]
      BY DEF Account, SnapshotOf
    <2>. QED BY <2>1, <2>2, <2>3 DEF Forward
  <1>4. ASSUME NEW k \in Keys, PushRemoved(k) \/ PushDelta(k)
        PROVE  Forward'
    <2>1. PICK r \in Row, f \in Frame :
             /\ Push(k, f)
             /\ \A j \in Keys : (Mentions(f, j) <=> j = k) /\ Account(f, j) = r
             /\ r = cur[k] \/ (~cur[k].live /\ r = Absent(cur[k].gen))
      BY <1>4, PushFacts
    <2>2. /\ Reading /\ Reading' /\ UNCHANGED <<host, seen, cur>>
          /\ chan' = Append(chan, f)
      BY <2>1 DEF Push, Reading, hostVars, clientVars
    <2>3. /\ Len(chan') = Len(chan) + 1 /\ Len(chan) \in Nat
          /\ chan'[Len(chan) + 1] = f
          /\ \A i \in 1..Len(chan) : chan'[i] = chan[i]
      BY <1>0, <2>2, AppendFacts
    <2>4. ASSUME NEW s \in Row, NotAfter(s, cur[k])
          PROVE  NotAfter(s, r)
      BY <1>0, <2>1, <2>4, NotAfterOrder
    <2>5. ASSUME NEW s \in Row, NotAfter(cur[k], s)
          PROVE  NotAfter(r, s)
      BY <1>0, <2>1, <2>5, NotAfterOrder
    <2>6. NotAfter(seen[k], r) /\ NotAfter(r, host[k]) /\ NotAfter(r, cur[k])
      BY <1>0, <2>2, <2>4, <2>5, NotAfterOrder DEF Forward
    <2>7. ASSUME NEW i \in 1..Len(chan), Mentions(chan[i], k)
          PROVE  NotAfter(Account(chan[i], k), r)
      BY <1>a, <2>2, <2>4, <2>7 DEF Forward
    <2>8. SUFFICES ASSUME NEW j \in Keys, NEW i \in 1..Len(chan'), Mentions(chan'[i], j)
                   PROVE  /\ NotAfter(seen[j], Account(chan'[i], j))
                          /\ NotAfter(Account(chan'[i], j), host[j])
                          /\ NotAfter(Account(chan'[i], j), cur[j])
                          /\ \A n \in 1..Len(chan') :
                                n > i /\ Mentions(chan'[n], j) =>
                                  NotAfter(Account(chan'[i], j), Account(chan'[n], j))
      BY <2>2 DEF Forward
    <2>9. CASE i = Len(chan) + 1
      BY <2>1, <2>3, <2>6, <2>8, <2>9
    <2>10. CASE i \in 1..Len(chan)
      <3>1. chan'[i] = chan[i]
        BY <2>3, <2>10
      <3>2. ASSUME NEW n \in 1..Len(chan'), n > i, Mentions(chan'[n], j)
            PROVE  NotAfter(Account(chan'[i], j), Account(chan'[n], j))
        <4>1. CASE n = Len(chan) + 1
          BY <2>1, <2>3, <2>7, <2>8, <2>10, <3>1, <3>2, <4>1
        <4>2. CASE n \in 1..Len(chan)
          BY <2>3, <2>8, <2>10, <3>1, <3>2, <4>2 DEF Forward
        <4>. QED BY <2>3, <4>1, <4>2
      <3>. QED BY <2>2, <2>8, <2>10, <3>1, <3>2 DEF Forward
    <2>. QED BY <2>3, <2>9, <2>10
  <1>5. CASE Receive
    <2>1. /\ UNCHANGED <<host, srv, cur>> /\ chan' = Tail(chan)
          /\ chan # <<>>
      BY <1>5 DEF Receive, hostVars, serverVars
    <2>2. /\ Len(chan') = Len(chan) - 1 /\ Len(chan) \in Nat \ {0}
          /\ \A i \in 1..Len(chan') : chan'[i] = chan[i + 1] /\ i + 1 \in 1..Len(chan)
      BY <1>0, <2>1, TailFacts
    <2>3. \A j \in Keys : seen'[j] = IF Mentions(chan[1], j)
                                     THEN Account(chan[1], j) ELSE seen[j]
      BY <1>5, ReceivedRows
    <2>4. ASSUME NEW j \in Keys
          PROVE  /\ NotAfter(seen'[j], host[j])
                 /\ Reading => NotAfter(seen'[j], cur[j])
                 /\ \A i \in 1..Len(chan) : i > 1 /\ Mentions(chan[i], j)
                       => NotAfter(seen'[j], Account(chan[i], j))
      BY <2>2, <2>3 DEF Forward
    <2>5. SUFFICES ASSUME NEW j \in Keys, NEW i \in 1..Len(chan'), Mentions(chan'[i], j)
                   PROVE  /\ NotAfter(seen'[j], Account(chan'[i], j))
                          /\ NotAfter(Account(chan'[i], j), host[j])
                          /\ Reading => NotAfter(Account(chan'[i], j), cur[j])
                          /\ \A n \in 1..Len(chan') :
                                n > i /\ Mentions(chan'[n], j) =>
                                  NotAfter(Account(chan'[i], j), Account(chan'[n], j))
      BY <2>1, <2>4 DEF Forward, Reading
    <2>6. chan'[i] = chan[i + 1] /\ i + 1 \in 1..Len(chan) /\ i + 1 > 1
      BY <2>2
    <2>7. ASSUME NEW n \in 1..Len(chan'), n > i, Mentions(chan'[n], j)
          PROVE  NotAfter(Account(chan'[i], j), Account(chan'[n], j))
      <3>1. chan'[n] = chan[n + 1] /\ n + 1 \in 1..Len(chan) /\ n + 1 > i + 1
        BY <2>2, <2>7
      <3>. QED BY <2>5, <2>6, <2>7, <3>1 DEF Forward
    <2>. QED BY <2>4, <2>5, <2>6, <2>7 DEF Forward
  <1>6. CASE LinkLost
    BY <1>6 DEF LinkLost, Forward, Reading
  <1>7. CASE \/ Accept \/ Handshake \/ Wake \/ PushDone \/ Dial \/ DialFails
             \/ UNCHANGED mirrorVars
    <2>1. UNCHANGED <<host, chan, seen, cur>> /\ (Reading' => Reading)
      BY <1>7 DEF Accept, Handshake, Wake, PushDone, Dial, DialFails, Reading,
                  hostVars, clientVars, serverVars, mirrorVars
    <2>. QED BY <2>1 DEF Forward
  <1>. QED BY <1>1, <1>2, <1>3, <1>4, <1>5, <1>6, <1>7 DEF MirrorNext, ServerStep

------------------------------------------------------------------------------
(* The theorems *)

\* The daemon's handler and the dashboard's connection task keep their types,
\* and the frames on the wire within its bound.
THEOREM MirrorTypeCorrect == MirrorSpec => []MirrorTypeOK
  <1>1. MirrorTypeOK /\ [MirrorNext]_mirrorVars => MirrorTypeOK'
    BY StepTypeOK
  <1>. QED BY InitTypeOK, <1>1, PTL DEF MirrorSpec

\* The inductive invariant of the subscription protocol.
THEOREM MirrorInvariant == MirrorSpec => []MirrorInv
  <1>1. MirrorInit => MirrorInv
    BY InitTypeOK, InitWired, InitSnapshotFirst, InitUpToDate, InitInStep,
       InitForward DEF MirrorInv
  <1>2. MirrorInv /\ [MirrorNext]_mirrorVars => MirrorInv'
    BY StepTypeOK, StepWired, StepSnapshotFirst, StepUpToDate, StepInStep,
       StepForward DEF MirrorInv
  <1>. QED BY <1>1, <1>2, PTL DEF MirrorSpec

\* No change of the host is missed by a subscribed dashboard: with nothing on
\* its way, the mirror is the host's list (push_changes, serve_protocol).
THEOREM NoChangeMissed == MirrorSpec => []QuietMirrorAgrees
  <1>1. MirrorInv => QuietMirrorAgrees
    BY DEF MirrorInv, QuietMirrorAgrees, Quiet, InStep, UpToDate, SnapshotFirst,
           Subscribed
  <1>. QED BY <1>1, MirrorInvariant, PTL

\* HostMirror implements HostAccount: what a dashboard knows of a host only
\* moves forward, also across reconnections.
THEOREM MirrorImplementsAccount == MirrorSpec => ImplementsAccount
  <1>. USE DEF AccountOf!Row, Row, AccountOf!NotAfter, NotAfter, AccountOf!Learns
  <1>1. MirrorInit => AccountOf!Init
    <2>1. NoRows = AccountOf!NoRows
      BY DEF NoRows, AccountOf!NoRows, Absent, AccountOf!Absent
    <2>. QED BY <2>1, InitTypeOK
             DEF MirrorInit, AccountOf!Init, MirrorTypeOK
  <1>2. ASSUME MirrorInv, [MirrorNext]_mirrorVars
        PROVE  [AccountOf!Next]_<<host, seen, mirrored>>
    <2>0. MirrorTypeOK /\ Wired /\ SnapshotFirst /\ Forward
      BY <1>2 DEF MirrorInv
    <2>1. CASE HostStep
      <3>1. PICK k \in Keys, r \in Row : HostChanges(k, r) /\ NotAfter(host[k], r)
        BY <2>0, <2>1, HostStepFacts
      <3>2. AccountOf!HostMoves(k)
        BY <3>1 DEF HostChanges, clientVars, AccountOf!HostMoves
      <3>. QED BY <3>2 DEF AccountOf!Next
    <2>2. CASE Receive
      <3>1. /\ mirrored' /\ chan # <<>> /\ chan[1] \in Frame
            /\ \A k \in Keys : seen'[k] = IF Mentions(chan[1], k)
                                           THEN Account(chan[1], k) ELSE seen[k]
            /\ seen' \in [Keys -> Row]
            /\ mirrored => chan[1].kind # "Snapshot"
        BY <2>0, <2>2, ReceivedRows
      <3>2. 1 \in 1..Len(chan) /\ host' = host
        BY <2>0, <2>2, <3>1 DEF MirrorTypeOK, Receive, hostVars
      <3>3. \A k \in Keys : AccountOf!Learns(k, seen'[k])
        <4>1. ASSUME NEW k \in Keys
              PROVE  NotAfter(seen[k], seen'[k]) /\ NotAfter(seen'[k], host[k])
          <5>1. seen[k] \in Row
            BY <2>0 DEF MirrorTypeOK
          <5>2. NotAfter(seen[k], seen[k])
            BY <5>1, NotAfterOrder
          <5>. QED BY <2>0, <3>1, <3>2, <5>2 DEF Forward
        <4>. QED BY <4>1
      <3>4. CASE ~mirrored
        <4>1. AccountOf!Snapshot
          BY <3>1, <3>2, <3>3, <3>4 DEF AccountOf!Snapshot
        <4>. QED BY <4>1 DEF AccountOf!Next
      <3>5. CASE mirrored
        <4>1. PICK k \in Keys : \A j \in Keys : Mentions(chan[1], j) <=> j = k
          BY <3>1, <3>5 DEF Frame, Mentions
        <4>2. seen' = [seen EXCEPT ![k] = seen'[k]] /\ seen'[k] \in Row
          BY <2>0, <3>1, <4>1 DEF MirrorTypeOK
        <4>3. AccountOf!Update(k)
          BY <3>1, <3>2, <3>3, <3>5, <4>2 DEF AccountOf!Update
        <4>. QED BY <4>3 DEF AccountOf!Next
      <3>. QED BY <3>4, <3>5
    <2>3. CASE LinkLost
      BY <2>3 DEF LinkLost, AccountOf!Next, AccountOf!Lose
    <2>4. ASSUME NEW k \in Keys, PushRemoved(k) \/ PushDelta(k)
          PROVE  UNCHANGED <<host, seen, mirrored>>
      BY <2>4 DEF PushRemoved, PushDelta, Push, hostVars, clientVars
    <2>5. CASE \/ Accept \/ Handshake \/ ReadSnapshot \/ SendSnapshot \/ Wake
               \/ ReadRows \/ PushDone \/ Dial \/ DialFails \/ UNCHANGED mirrorVars
      BY <2>5 DEF Accept, Handshake, ReadSnapshot, SendSnapshot, Wake, ReadRows,
         PushDone, Dial, DialFails, hostVars, clientVars, mirrorVars
    <2>. QED BY <1>2, <2>1, <2>2, <2>3, <2>4, <2>5 DEF MirrorNext, ServerStep
  <1>. QED BY <1>1, <1>2, MirrorInvariant, PTL
           DEF MirrorSpec, ImplementsAccount, AccountOf!Spec

------------------------------------------------------------------------------
(* The table above the mirror *)

\* What the dashboard speaks of it has seen, and its windows are on sessions
\* that it has seen and that live.
Past ==
    \A k \in Keys :
        /\ shown[k].gen <= seen[k].gen
        /\ target[k] <= seen[k].gen
        /\ report[k] # None => report[k].gen <= seen[k].gen
        /\ due[k] # None => due[k] <= seen[k].gen
        /\ window[k] # "none" => host[k].live /\ host[k].gen <= seen[k].gen

\* The table is what a reload would read, where no guess is laid over it.
AsRead(k) == IF mirror[k].live THEN mirror[k] ELSE Absent(mirror[k].gen)
Reloaded ==
    ~dirty => \A k \in Keys :
        presumedDead[k] = "no" /\ presumedAttached[k] = None => shown[k] = AsRead(k)

TableInv == TableTypeOK /\ MirrorInv /\ Past /\ Reloaded /\ KillIsConfirmed

------------------------------------------------------------------------------
(* The mirror beneath the table *)

LEMMA TableStepMirrors ==
    ASSUME [TableNext]_vars
    PROVE  [MirrorNext]_mirrorVars
<1> USE DEF MirrorNext
<1>1. CASE Reload
  BY <1>1 DEF Reload
<1>2. CASE TableReceive
  BY <1>2 DEF TableReceive
<1>3. CASE TableLinkLost
  BY <1>3 DEF TableLinkLost
<1>4. CASE TableDial
  BY <1>4 DEF TableDial, ServerStep
<1>5. CASE TableUnseen
  BY <1>5 DEF TableUnseen, Unseen, ServerStep
<1>6. ASSUME NEW k \in Keys, TableLaunch(k) \/ TableEnd(k) \/ Elsewhere(k) \/ ClientGone(k)
      PROVE  HostStep
  BY <1>6 DEF TableLaunch, TableEnd, Elsewhere, ClientGone, HostStep
<1>7. ASSUME NEW k \in Keys, Lapse(k) \/ StartKill(k) \/ CloseWindow(k) \/ DetachKey(k)
                             \/ ApplyReport(k) \/ DueClose(k)
      PROVE  UNCHANGED mirrorVars
  BY <1>7 DEF Lapse, StartKill, CloseWindow, DetachKey, ApplyReport, DueClose
<1>8. ASSUME NEW k \in Keys, KillProgress(k) \/ TimeOut(k) \/ Unconfirmed(k)
      PROVE  UNCHANGED mirrorVars
  BY <1>8 DEF KillProgress, TimeOut, Unconfirmed, Enqueue, Drain, Send, Answer, Reply,
              Confirm, Settle, KillMoves
<1>9. ASSUME NEW k \in Keys, Enter(k)
      PROVE  HostStep \/ UNCHANGED mirrorVars
  BY <1>9 DEF Enter, HostStep
<1>10. CASE UNCHANGED vars
  BY <1>10 DEF vars
<1>11. QED
  BY <1>1, <1>2, <1>3, <1>4, <1>5, <1>6, <1>7, <1>8, <1>9, <1>10 DEF TableNext

\* What the mirror's own steps leave to the table.
LEMMA SeenGrows ==
    ASSUME MirrorInv, [MirrorNext]_mirrorVars
    PROVE  \A k \in Keys : /\ seen[k].gen \in Nat /\ seen'[k].gen \in Nat
                           /\ host[k].gen \in Nat /\ mirror[k].gen \in Nat
                           /\ seen[k].gen <= seen'[k].gen
                           /\ seen[k].gen <= host[k].gen
                           /\ mirror[k].gen <= seen[k].gen
<1>1. /\ MirrorTypeOK /\ MirrorTypeOK' /\ Wired /\ SnapshotFirst /\ Forward
  BY StepTypeOK DEF MirrorInv
<1>2. \A k \in Keys : seen[k].gen \in Nat /\ seen'[k].gen \in Nat /\ host[k].gen \in Nat
                      /\ mirror[k].gen \in Nat
  BY <1>1, HostMirrorAssumption DEF MirrorTypeOK, Row
<1>3. \A k \in Keys : seen[k].gen <= host[k].gen
  BY <1>1, <1>2 DEF Forward, NotAfter
<1>4. \A k \in Keys : mirror[k].gen <= seen[k].gen
  <2>1. mirrored \/ mirror = NoRows
    BY <1>1 DEF Wired
  <2>2. QED
    BY <1>1, <1>2, <2>1, NoRowsIsMirror DEF Wired
<1>5. CASE Receive
  <2>1. /\ chan # <<>> /\ chan \in Seq(Frame)
        /\ \A k \in Keys : seen'[k] = IF Mentions(chan[1], k)
                                      THEN Account(chan[1], k) ELSE seen[k]
    BY <1>1, <1>5, ReceivedRows DEF MirrorTypeOK
  <2>2. 1 \in 1..Len(chan)
    BY <2>1, TailFacts
  <2>3. \A k \in Keys : Mentions(chan[1], k) => NotAfter(seen[k], Account(chan[1], k))
    BY <1>1, <2>2 DEF Forward
  <2>4. ASSUME NEW k \in Keys PROVE seen[k].gen <= seen'[k].gen
    <3>1. CASE Mentions(chan[1], k)
      BY <1>2, <2>1, <2>3, <3>1 DEF NotAfter
    <3>2. CASE ~Mentions(chan[1], k)
      BY <1>2, <2>1, <3>2
    <3>3. QED
      BY <3>1, <3>2
  <2>5. QED
    BY <1>2, <1>3, <1>4, <2>4
<1>6. CASE seen' = seen
  BY <1>2, <1>3, <1>4, <1>6
<1>7. ASSUME ~Receive PROVE seen' = seen
  <2>1. CASE HostStep
    BY <2>1 DEF HostStep, Launch, End, Attach, Detach, HostChanges, clientVars
  <2>2. CASE ServerStep
    BY <2>2 DEF ServerStep, Accept, Handshake, ReadSnapshot, SendSnapshot, Wake, ReadRows,
                PushDone, PushRemoved, PushDelta, Push, clientVars
  <2>3. CASE Dial \/ DialFails \/ LinkLost \/ UNCHANGED mirrorVars
    BY <2>3 DEF Dial, DialFails, LinkLost, mirrorVars
  <2>4. QED
    BY <1>7, <2>1, <2>2, <2>3 DEF MirrorNext
<1>8. QED
  BY <1>5, <1>6, <1>7

\* The steps that do not touch the host.
LEMMA HostStays ==
    ASSUME TableReceive \/ TableLinkLost \/ TableDial \/ TableUnseen
    PROVE  host' = host /\ UNCHANGED windowVars /\ UNCHANGED <<shown, target>>
<1>1. CASE TableReceive
  BY <1>1 DEF TableReceive, Receive, hostVars, killVars, windowVars
<1>2. CASE TableLinkLost
  BY <1>2 DEF TableLinkLost, LinkLost, windowVars
<1>3. CASE TableDial
  BY <1>3 DEF TableDial, Dial, DialFails, Handshake, hostVars, killVars, windowVars
<1>4. CASE TableUnseen
  BY <1>4 DEF TableUnseen, Unseen, Accept, ReadSnapshot, SendSnapshot, Wake, ReadRows, PushDone,
              PushRemoved, PushDelta, Push, hostVars, tableVars, windowVars
<1>5. QED
  BY <1>1, <1>2, <1>3, <1>4

\* The steps on one session of the host.
LEMMA SessionStep ==
    ASSUME MirrorTypeOK, NEW k \in Keys, NEW r, HostChanges(k, r)
    PROVE  /\ \A j \in Keys \ {k} : host'[j] = host[j]
           /\ host'[k] = r
           /\ UNCHANGED clientVars
BY DEF MirrorTypeOK, HostChanges

LEMMA LaunchStep ==
    ASSUME MirrorTypeOK, NEW k \in Keys, Launch(k)
    PROVE  /\ \A j \in Keys \ {k} : host'[j] = host[j]
           /\ UNCHANGED clientVars
           /\ ~host[k].live /\ host'[k].gen = host[k].gen + 1
<1>1. PICK a \in BOOLEAN :
          HostChanges(k, [gen |-> host[k].gen + 1, live |-> TRUE, attached |-> a])
  BY DEF Launch
<1>2. host'[k] = [gen |-> host[k].gen + 1, live |-> TRUE, attached |-> a]
  BY <1>1, SessionStep
<1>3. QED
  BY <1>1, <1>2, SessionStep DEF Launch

LEMMA EndStep ==
    ASSUME MirrorTypeOK, NEW k \in Keys, End(k)
    PROVE  /\ \A j \in Keys \ {k} : host'[j] = host[j]
           /\ UNCHANGED clientVars
           /\ ~host'[k].live /\ host'[k].gen = host[k].gen
BY SessionStep DEF End, Absent

LEMMA AttachStep ==
    ASSUME MirrorTypeOK, NEW k \in Keys, Attach(k) \/ Detach(k)
    PROVE  /\ \A j \in Keys \ {k} : host'[j] = host[j]
           /\ UNCHANGED clientVars
           /\ host[k].live /\ host'[k].live /\ host'[k].gen = host[k].gen
<1>1. host[k] \in Row
  BY DEF MirrorTypeOK
<1>2. PICK a \in BOOLEAN : HostChanges(k, [host[k] EXCEPT !.attached = a])
  BY DEF Attach, Detach
<1>3. host'[k] = [host[k] EXCEPT !.attached = a]
  BY <1>2, SessionStep
<1>4. host'[k].live = host[k].live /\ host'[k].gen = host[k].gen
  BY <1>1, <1>3 DEF Row
<1>5. host[k].live
  BY DEF Attach, Detach
<1>6. QED
  BY <1>2, <1>4, <1>5, SessionStep

------------------------------------------------------------------------------
(* Type correctness *)

LEMMA LiveRowIsRow ==
    ASSUME TableTypeOK, NEW k \in Keys
    PROVE  /\ LiveRow(k) \in Row /\ LiveRow(k).gen = mirror[k].gen
           /\ presumedDead[k] # "fresh" /\ presumedAttached[k] = None => LiveRow(k) = AsRead(k)
<1>1. /\ mirror[k] \in Row /\ mirror[k].gen \in 0..MaxGen
      /\ presumedAttached[k] \in BOOLEAN \cup {None}
  BY DEF TableTypeOK, MirrorTypeOK, Row
<1>2. Absent(mirror[k].gen) \in Row /\ Absent(mirror[k].gen).gen = mirror[k].gen
  BY <1>1, AbsentIsRow
<1>3. CASE ~mirror[k].live \/ Hidden(k)
  BY <1>2, <1>3 DEF LiveRow, AsRead, Hidden
<1>4. CASE mirror[k].live /\ ~Hidden(k) /\ presumedAttached[k] = None
  BY <1>1, <1>4 DEF LiveRow, AsRead, Hidden
<1>5. CASE mirror[k].live /\ ~Hidden(k) /\ presumedAttached[k] # None
  <2> DEFINE a == presumedAttached[k]
  <2>1. a \in BOOLEAN
    BY <1>1, <1>5
  <2>2. LiveRow(k) = [mirror[k] EXCEPT !.attached = a]
    BY <1>5 DEF LiveRow
  <2> HIDE DEF a
  <2>3. LiveRow(k) \in Row /\ LiveRow(k).gen = mirror[k].gen
    BY <1>1, <2>1, <2>2 DEF Row
  <2>4. QED
    BY <1>5, <2>3
<1>6. QED
  BY <1>3, <1>4, <1>5

\* TableTypeOK, but for the mirror's part.
TableParts ==
    /\ presumedDead \in [Keys -> {"no", "fresh", "lapsed"}]
    /\ presumedAttached \in [Keys -> BOOLEAN \cup {None}]
    /\ dirty \in BOOLEAN
    /\ shown \in [Keys -> Row]
    /\ kill \in [Keys -> KillStep]
    /\ target \in [Keys -> 0..MaxGen]
    /\ window \in [Keys -> {"none", "attached", "closing"}]
    /\ report \in [Keys -> Report \cup {None}]
    /\ due \in [Keys -> 0..MaxGen \cup {None}]

LEMMA GuessTypes ==
    ASSUME TableParts, NEW k \in Keys,
           \/ PresumeDead(k) \/ UnpresumeDead(k)
           \/ \E bit \in BOOLEAN : PresumeAttached(k, bit)
           \/ UNCHANGED <<guessVars, dirty>>
    PROVE  /\ presumedDead' \in [Keys -> {"no", "fresh", "lapsed"}]
           /\ presumedAttached' \in [Keys -> BOOLEAN \cup {None}]
           /\ dirty' \in BOOLEAN
<1> USE DEF TableParts
<1>1. CASE PresumeDead(k)
  BY <1>1 DEF PresumeDead
<1>2. CASE UnpresumeDead(k)
  BY <1>2 DEF UnpresumeDead
<1>3. ASSUME NEW bit \in BOOLEAN, PresumeAttached(k, bit)
      PROVE  /\ presumedDead' \in [Keys -> {"no", "fresh", "lapsed"}]
             /\ presumedAttached' \in [Keys -> BOOLEAN \cup {None}]
             /\ dirty' \in BOOLEAN
  <2>1. presumedDead' \in [Keys -> {"no", "fresh", "lapsed"}]
    BY <1>3 DEF PresumeAttached
  <2>2. presumedAttached' \in [Keys -> BOOLEAN \cup {None}]
    BY <1>3 DEF PresumeAttached
  <2>3. dirty' \in BOOLEAN
    BY <1>3 DEF PresumeAttached
  <2>4. QED
    BY <2>1, <2>2, <2>3
<1>4. CASE UNCHANGED <<guessVars, dirty>>
  BY <1>4 DEF guessVars
<1>5. QED
  BY <1>1, <1>2, <1>3, <1>4

LEMMA KillTypes ==
    ASSUME TableParts, NEW k \in Keys, NEW from, NEW to \in KillStep, KillMoves(k, from, to)
    PROVE  TableParts'
BY DEF TableParts, KillMoves, guessVars, windowVars

LEMMA KillStepTypes ==
    ASSUME TableParts, NEW k \in Keys,
           \/ Enqueue(k) \/ Drain(k) \/ Send(k) \/ Answer(k) \/ Reply(k)
           \/ Confirm(k) \/ TimeOut(k) \/ Unconfirmed(k)
    PROVE  TableParts'
<1>1. \E from, to : to \in KillStep /\ KillMoves(k, from, to)
  BY DEF Enqueue, Drain, Send, Answer, Reply, Confirm, TimeOut, Unconfirmed,
         KillStep, InFlight, Outcomes
<1>2. QED
  BY <1>1, KillTypes

LEMMA AskTypes ==
    ASSUME TableParts, NEW k \in Keys, NEW gen \in 0..MaxGen, Ask(k, gen)
    PROVE  /\ presumedDead' \in [Keys -> {"no", "fresh", "lapsed"}]
           /\ presumedAttached' \in [Keys -> BOOLEAN \cup {None}]
           /\ dirty' \in BOOLEAN
           /\ kill' \in [Keys -> KillStep] /\ target' \in [Keys -> 0..MaxGen]
<1>1. "asked" \in KillStep
  BY DEF KillStep
<1>2. QED
  BY <1>1, GuessTypes DEF Ask, TableParts

LEMMA ReportTypes ==
    ASSUME TableParts, NEW k \in Keys, NEW what \in {"busy", "stale", "closed"},
           NEW gen \in 0..MaxGen, Reports(k, what, gen)
    PROVE  report' \in [Keys -> Report \cup {None}]
BY DEF TableParts, Reports, Report

LEMMA StepTableTypeOK ==
    ASSUME TableTypeOK, [TableNext]_vars
    PROVE  TableTypeOK'
<1>0. MirrorTypeOK /\ MirrorTypeOK' /\ TableParts
  BY TableStepMirrors, StepTypeOK DEF TableTypeOK, TableParts
<1> SUFFICES TableParts'
  BY <1>0 DEF TableTypeOK, TableParts
<1>a. \A k \in Keys : /\ shown[k].gen \in 0..MaxGen /\ host[k].gen \in 0..MaxGen
                      /\ (report[k] # None => report[k].gen \in 0..MaxGen)
                      /\ (due[k] # None => due[k] \in 0..MaxGen)
  <2>1. \A k \in Keys : shown[k] \in Row /\ host[k] \in Row
    BY <1>0 DEF TableParts, MirrorTypeOK
  <2>2. \A k \in Keys : report[k] \in Report \cup {None} /\ due[k] \in 0..MaxGen \cup {None}
    BY <1>0 DEF TableParts
  <2>3. QED
    BY <2>1, <2>2 DEF Row, Report
<1>1. CASE Reload
  <2>1. \A k \in Keys : LiveRow(k) \in Row
    BY LiveRowIsRow
  <2>2. QED
    BY <1>0, <1>1, <2>1 DEF Reload, TableParts, killVars, windowVars
<1>2. CASE TableReceive
  <2> DEFINE dead(k) == IF Mentions(Head(chan), k) /\ Head(chan).kind # "Delta"
                        THEN "no" ELSE presumedDead[k]
             bit(k) == IF Mentions(Head(chan), k) THEN None ELSE presumedAttached[k]
  <2>1. \A k \in Keys : dead(k) \in {"no", "fresh", "lapsed"} /\ bit(k) \in BOOLEAN \cup {None}
    BY <1>0 DEF TableParts
  <2>2. /\ presumedDead' = [k \in Keys |-> dead(k)]
        /\ presumedAttached' = [k \in Keys |-> bit(k)]
    BY <1>2 DEF TableReceive
  <2> HIDE DEF dead, bit
  <2>3. QED
    BY <1>0, <1>2, <2>1, <2>2 DEF TableReceive, TableParts, killVars, windowVars
<1>3. CASE TableLinkLost
  <2>1. kill' \in [Keys -> KillStep]
    BY <1>0, <1>3 DEF TableLinkLost, TableParts, KillStep, Outcomes
  <2>2. QED
    BY <1>0, <1>3, <2>1 DEF TableLinkLost, TableParts, windowVars
<1>4. CASE TableDial \/ TableUnseen \/ UNCHANGED vars
  BY <1>0, <1>4 DEF TableDial, TableUnseen, vars, tableVars, TableParts, guessVars, killVars,
                    windowVars
<1>5. ASSUME NEW k \in Keys, TableLaunch(k) \/ Elsewhere(k)
      PROVE  TableParts'
  BY <1>0, <1>5 DEF TableLaunch, Elsewhere, tableVars, TableParts
<1>6. ASSUME NEW k \in Keys, TableEnd(k) \/ ClientGone(k)
      PROVE  TableParts'
  BY <1>0, <1>6 DEF TableEnd, ClientGone, TableParts, guessVars, killVars
<1>7. ASSUME NEW k \in Keys, Lapse(k)
      PROVE  TableParts'
  BY <1>0, <1>7 DEF Lapse, TableParts, killVars, windowVars
<1>8. ASSUME NEW k \in Keys, StartKill(k)
      PROVE  TableParts'
  BY <1>0, <1>a, <1>8, AskTypes DEF StartKill, TableParts, windowVars
<1>9. ASSUME NEW k \in Keys, Settle(k)
      PROVE  TableParts'
  <2>1. "none" \in KillStep /\ FALSE \in BOOLEAN
    BY DEF KillStep
  <2>2. /\ presumedDead' \in [Keys -> {"no", "fresh", "lapsed"}]
        /\ presumedAttached' \in [Keys -> BOOLEAN \cup {None}]
        /\ dirty' \in BOOLEAN
    BY <1>0, <1>9, <2>1, GuessTypes DEF Settle
  <2>3. QED
    BY <1>0, <1>9, <2>1, <2>2 DEF Settle, TableParts, windowVars
<1>10. ASSUME NEW k \in Keys, KillProgress(k) \/ TimeOut(k) \/ Unconfirmed(k), ~Settle(k)
       PROVE  TableParts'
  BY <1>0, <1>10, KillStepTypes DEF KillProgress
<1>11. ASSUME NEW k \in Keys, Enter(k)
       PROVE  TableParts'
  <2>1. report' \in [Keys -> Report \cup {None}]
    BY <1>0, <1>a, <1>11, ReportTypes DEF Enter, TableParts
  <2>2. window' \in [Keys -> {"none", "attached", "closing"}]
    BY <1>0, <1>11 DEF Enter, TableParts
  <2>3. QED
    BY <1>0, <1>11, <2>1, <2>2 DEF Enter, TableParts, guessVars, killVars
<1>12. ASSUME NEW k \in Keys, CloseWindow(k)
       PROVE  TableParts'
  <2>1. report' \in [Keys -> Report \cup {None}]
    BY <1>0, <1>a, <1>12, ReportTypes DEF CloseWindow
  <2>2. QED
    BY <1>0, <1>12, <2>1 DEF CloseWindow, TableParts, guessVars, killVars
<1>13. ASSUME NEW k \in Keys, DetachKey(k)
       PROVE  TableParts'
  BY <1>0, <1>13, GuessTypes DEF DetachKey, TableParts, killVars
<1>14. ASSUME NEW k \in Keys, ApplyReport(k)
       PROVE  TableParts'
  <2>1. /\ presumedDead' \in [Keys -> {"no", "fresh", "lapsed"}]
        /\ presumedAttached' \in [Keys -> BOOLEAN \cup {None}]
        /\ dirty' \in BOOLEAN
    BY <1>0, <1>14, GuessTypes DEF ApplyReport
  <2>2. due' \in [Keys -> 0..MaxGen \cup {None}]
    BY <1>0, <1>a, <1>14 DEF ApplyReport, TableParts
  <2>3. QED
    BY <1>0, <1>14, <2>1, <2>2 DEF ApplyReport, TableParts, killVars
<1>15. ASSUME NEW k \in Keys, DueClose(k)
       PROVE  TableParts'
  <2>1. CASE UNCHANGED <<guessVars, dirty, killVars>>
    BY <1>0, <1>15, <2>1 DEF DueClose, TableParts, guessVars, killVars
  <2>2. CASE Ask(k, due[k])
    BY <1>0, <1>a, <1>15, <2>2, AskTypes DEF DueClose, TableParts
  <2>3. QED
    BY <1>15, <2>1, <2>2 DEF DueClose
<1>16. ASSUME NEW k \in Keys, KillProgress(k) \/ TimeOut(k) \/ Unconfirmed(k)
       PROVE  TableParts'
  BY <1>9, <1>10, <1>16
<1>17. QED
  BY <1>1, <1>2, <1>3, <1>4, <1>5, <1>6, <1>7, <1>8, <1>11, <1>12, <1>13, <1>14,
     <1>15, <1>16 DEF TableNext

------------------------------------------------------------------------------
(* What the dashboard speaks of it has seen *)

LEMMA StepPast ==
    ASSUME TableTypeOK, MirrorInv, Past, [TableNext]_vars
    PROVE  Past'
<1> DEFINE Told(k) == /\ shown[k].gen <= seen[k].gen
                      /\ target[k] <= seen[k].gen
                      /\ report[k] # None => report[k].gen <= seen[k].gen
                      /\ due[k] # None => due[k] <= seen[k].gen
           Win(k) == window[k] # "none" => host[k].live /\ host[k].gen <= seen[k].gen
<1>0. /\ TableTypeOK' /\ TableParts /\ MirrorTypeOK
      /\ \A k \in Keys : Told(k) /\ Win(k)
  BY StepTableTypeOK DEF TableTypeOK, TableParts, Past
<1>a. \A k \in Keys : /\ seen[k].gen \in Nat /\ seen'[k].gen \in Nat
                      /\ seen[k].gen <= seen'[k].gen
                      /\ seen[k].gen <= host[k].gen /\ mirror[k].gen <= seen[k].gen
                      /\ mirror[k].gen \in Nat /\ host[k].gen \in Nat
  BY SeenGrows, TableStepMirrors
<1>b. \A k \in Keys : /\ shown[k] \in Row /\ shown[k].gen \in Nat /\ target[k] \in Nat
                      /\ (due[k] # None => due[k] \in Nat)
                      /\ (report[k] # None => report[k].gen \in Nat)
  <2>1. \A k \in Keys : /\ shown[k] \in Row /\ target[k] \in 0..MaxGen
                        /\ due[k] \in 0..MaxGen \cup {None} /\ report[k] \in Report \cup {None}
    BY <1>0 DEF TableParts
  <2>2. QED
    BY <2>1, HostMirrorAssumption DEF Row, Report
<1>c. UNCHANGED mirrorVars => seen' = seen /\ host' = host
  BY DEF mirrorVars
<1>d. UNCHANGED clientVars => seen' = seen
  BY DEF clientVars
<1>e. SUFFICES \A j \in Keys : Told(j)' /\ Win(j)'
  BY DEF Past
<1>1. CASE Reload
  <2>1. \A j \in Keys : shown'[j].gen <= seen[j].gen
    BY <1>a, <1>1, LiveRowIsRow DEF Reload
  <2>2. QED
    BY <1>0, <1>1, <1>c, <2>1 DEF Reload, killVars, windowVars
<1>2. CASE TableReceive \/ TableLinkLost \/ TableDial \/ TableUnseen
  <2>1. host' = host /\ UNCHANGED <<shown, target, window, report, due>>
    BY <1>2, HostStays DEF windowVars
  <2>2. QED
    BY <1>0, <1>a, <1>b, <2>1
<1>3. ASSUME NEW k \in Keys, TableLaunch(k)
      PROVE  \A j \in Keys : Told(j)' /\ Win(j)'
  <2>1. /\ \A j \in Keys \ {k} : host'[j] = host[j]
        /\ seen' = seen /\ window[k] = "none" /\ UNCHANGED tableVars
    BY <1>0, <1>3, <1>d, LaunchStep DEF TableLaunch
  <2>2. QED
    BY <1>0, <2>1 DEF tableVars
<1>4. ASSUME NEW k \in Keys, TableEnd(k)
      PROVE  \A j \in Keys : Told(j)' /\ Win(j)'
  <2>1. /\ \A j \in Keys \ {k} : host'[j] = host[j]
        /\ seen' = seen /\ UNCHANGED <<shown, target, report, due>>
    BY <1>0, <1>4, <1>d, EndStep DEF TableEnd, killVars
  <2>2. window' = [window EXCEPT ![k] = "none"]
    BY <1>4 DEF TableEnd
  <2>3. \A j \in Keys : window'[j] # "none" => j # k /\ window[j] # "none"
    BY <1>0, <2>2 DEF TableParts
  <2>4. QED
    BY <1>0, <2>1, <2>3
<1>5. ASSUME NEW k \in Keys, Elsewhere(k)
      PROVE  \A j \in Keys : Told(j)' /\ Win(j)'
  <2>1. /\ \A j \in Keys \ {k} : host'[j] = host[j]
        /\ seen' = seen /\ window[k] = "none" /\ UNCHANGED tableVars
    BY <1>0, <1>5, <1>d, AttachStep DEF Elsewhere
  <2>2. QED
    BY <1>0, <2>1 DEF tableVars
<1>6. ASSUME NEW k \in Keys, ClientGone(k)
      PROVE  \A j \in Keys : Told(j)' /\ Win(j)'
  <2>1. /\ \A j \in Keys \ {k} : host'[j] = host[j]
        /\ seen' = seen /\ UNCHANGED <<shown, target, report, due>>
    BY <1>0, <1>6, <1>d, AttachStep DEF ClientGone, killVars
  <2>2. window' = [window EXCEPT ![k] = "none"]
    BY <1>6 DEF ClientGone
  <2>3. \A j \in Keys : window'[j] # "none" => j # k /\ window[j] # "none"
    BY <1>0, <2>2 DEF TableParts
  <2>4. QED
    BY <1>0, <2>1, <2>3
<1>7. ASSUME NEW k \in Keys, Lapse(k)
      PROVE  \A j \in Keys : Told(j)' /\ Win(j)'
  BY <1>0, <1>7, <1>c DEF Lapse, killVars, windowVars
<1>8. ASSUME NEW k \in Keys, StartKill(k)
      PROVE  \A j \in Keys : Told(j)' /\ Win(j)'
  <2>1. /\ seen' = seen /\ host' = host /\ UNCHANGED <<shown, window, report, due>>
        /\ target' = [target EXCEPT ![k] = shown[k].gen]
    BY <1>8, <1>c DEF StartKill, Ask, windowVars
  <2>2. \A j \in Keys : target'[j] = target[j] \/ target'[j] = shown[j].gen
    BY <1>0, <2>1 DEF TableParts
  <2>3. QED
    BY <1>0, <2>1, <2>2
<1>9. ASSUME NEW k \in Keys, KillProgress(k) \/ TimeOut(k) \/ Unconfirmed(k)
      PROVE  \A j \in Keys : Told(j)' /\ Win(j)'
  <2>1. UNCHANGED <<shown, target, window, report, due>>
    BY <1>9 DEF KillProgress, TimeOut, Unconfirmed, Enqueue, Drain, Send, Answer, Reply,
                Confirm, Settle, KillMoves, windowVars
  <2>2. UNCHANGED mirrorVars
    BY <1>9 DEF KillProgress, TimeOut, Unconfirmed, Enqueue, Drain, Send, Answer, Reply,
                Confirm, Settle, KillMoves
  <2>3. QED
    BY <1>0, <1>c, <2>1, <2>2
<1>10. ASSUME NEW k \in Keys, Enter(k)
       PROVE  \A j \in Keys : Told(j)' /\ Win(j)'
  <2>1. UNCHANGED <<shown, target, due>>
    BY <1>10 DEF Enter, killVars
  <2>2. CASE /\ host[k].gen = shown[k].gen /\ Attach(k)
             /\ window' = [window EXCEPT ![k] = "attached"] /\ report' = report
    <3>1. /\ \A j \in Keys \ {k} : host'[j] = host[j]
          /\ seen' = seen /\ host'[k].live /\ host'[k].gen = host[k].gen
      BY <1>0, <1>d, <2>2, AttachStep
    <3>2. \A j \in Keys \ {k} : window'[j] = window[j]
      BY <1>0, <2>2 DEF TableParts
    <3>3. Win(k)'
      BY <1>0, <2>2, <3>1
    <3>4. QED
      BY <1>0, <2>1, <2>2, <3>1, <3>2, <3>3
  <2>3. ASSUME NEW what \in {"busy", "stale"}, Reports(k, what, shown[k].gen), window' = window,
               UNCHANGED mirrorVars
        PROVE  \A j \in Keys : Told(j)' /\ Win(j)'
    <3>1. \A j \in Keys : report'[j] = report[j] \/ report'[j].gen = shown[j].gen
      BY <1>0, <2>3 DEF Reports, TableParts
    <3>2. QED
      BY <1>0, <1>c, <2>1, <2>3, <3>1
  <2>4. QED
    BY <1>10, <2>2, <2>3 DEF Enter
<1>11. ASSUME NEW k \in Keys, CloseWindow(k)
       PROVE  \A j \in Keys : Told(j)' /\ Win(j)'
  <2>1. /\ seen' = seen /\ host' = host /\ UNCHANGED <<shown, target, due>>
        /\ window[k] = "attached" /\ window' = [window EXCEPT ![k] = "closing"]
    BY <1>11, <1>c DEF CloseWindow, killVars
  <2>2. \A j \in Keys : window'[j] # "none" => window[j] # "none"
    BY <1>0, <2>1 DEF TableParts
  <2>3. \A j \in Keys : report'[j] = report[j] \/ (j = k /\ report'[j].gen = host[k].gen)
    BY <1>0, <1>11 DEF CloseWindow, Reports, TableParts
  <2>4. host[k].gen <= seen[k].gen
    BY <1>0, <2>1
  <2>5. QED
    BY <1>0, <2>1, <2>2, <2>3, <2>4
<1>12. ASSUME NEW k \in Keys, DetachKey(k)
       PROVE  \A j \in Keys : Told(j)' /\ Win(j)'
  <2>1. /\ seen' = seen /\ host' = host /\ UNCHANGED <<shown, target, report, due>>
        /\ window[k] = "attached" /\ window' = [window EXCEPT ![k] = "closing"]
    BY <1>12, <1>c DEF DetachKey, killVars
  <2>2. \A j \in Keys : window'[j] # "none" => window[j] # "none"
    BY <1>0, <2>1 DEF TableParts
  <2>3. QED
    BY <1>0, <2>1, <2>2
<1>13. ASSUME NEW k \in Keys, ApplyReport(k)
       PROVE  \A j \in Keys : Told(j)' /\ Win(j)'
  <2>1. /\ seen' = seen /\ host' = host /\ UNCHANGED <<shown, target, window>>
        /\ report[k] # None /\ report' = [report EXCEPT ![k] = None]
        /\ due' = due \/ due' = [due EXCEPT ![k] = report[k].gen]
    BY <1>13, <1>c DEF ApplyReport, killVars
  <2>2. \A j \in Keys : report'[j] = report[j] \/ report'[j] = None
    BY <1>0, <2>1 DEF TableParts
  <2>3. \A j \in Keys : due'[j] = due[j] \/ (j = k /\ due'[j] = report[k].gen)
    BY <1>0, <2>1 DEF TableParts
  <2>4. QED
    BY <1>0, <2>1, <2>2, <2>3
<1>14. ASSUME NEW k \in Keys, DueClose(k)
       PROVE  \A j \in Keys : Told(j)' /\ Win(j)'
  <2>1. /\ seen' = seen /\ host' = host /\ UNCHANGED <<shown, window, report>>
        /\ due[k] # None /\ due' = [due EXCEPT ![k] = None]
        /\ target' = target \/ target' = [target EXCEPT ![k] = due[k]]
    BY <1>14, <1>c DEF DueClose, Ask, killVars
  <2>2. \A j \in Keys : due'[j] = due[j] \/ due'[j] = None
    BY <1>0, <2>1 DEF TableParts
  <2>3. \A j \in Keys : target'[j] = target[j] \/ (j = k /\ target'[j] = due[k])
    BY <1>0, <2>1 DEF TableParts
  <2>4. QED
    BY <1>0, <2>1, <2>2, <2>3
<1>15. CASE UNCHANGED vars
  BY <1>0, <1>15, <1>c DEF vars, tableVars
<1>16. QED
  BY <1>1, <1>2, <1>3, <1>4, <1>5, <1>6, <1>7, <1>8, <1>9, <1>10, <1>11, <1>12, <1>13, <1>14,
     <1>15 DEF TableNext

------------------------------------------------------------------------------
(* The table is what a reload would read *)

\* A guess that is made or withdrawn asks for a reload.
LEMMA GuessIsDirty ==
    ASSUME TableParts, NEW k \in Keys,
           \/ PresumeDead(k) \/ UnpresumeDead(k)
           \/ \E bit \in BOOLEAN : PresumeAttached(k, bit)
           \/ UNCHANGED <<guessVars, dirty>>
    PROVE  dirty' \/ (~dirty /\ UNCHANGED guessVars)
<1> USE DEF TableParts, guessVars
<1>1. CASE PresumeDead(k)
  BY <1>1 DEF PresumeDead
<1>2. CASE UnpresumeDead(k)
  BY <1>2 DEF UnpresumeDead
<1>3. ASSUME NEW bit \in BOOLEAN, PresumeAttached(k, bit)
      PROVE  dirty' \/ (~dirty /\ UNCHANGED guessVars)
  <2>1. CASE presumedAttached[k] = bit
    <3>1. presumedAttached' = presumedAttached
      BY <1>3, <2>1 DEF PresumeAttached
    <3>2. dirty' = dirty /\ presumedDead' = presumedDead
      BY <1>3, <2>1 DEF PresumeAttached
    <3>3. QED
      BY <3>1, <3>2
  <2>2. CASE presumedAttached[k] # bit
    BY <1>3, <2>2 DEF PresumeAttached
  <2>3. QED
    BY <2>1, <2>2
<1>4. CASE UNCHANGED <<guessVars, dirty>>
  BY <1>4
<1>5. QED
  BY <1>1, <1>2, <1>3, <1>4

LEMMA StillReloaded ==
    ASSUME Reloaded, UNCHANGED <<mirror, shown>>, dirty' \/ (~dirty /\ UNCHANGED guessVars)
    PROVE  Reloaded'
BY DEF Reloaded, AsRead, guessVars

LEMMA StepReloaded ==
    ASSUME TableTypeOK, Reloaded, [TableNext]_vars
    PROVE  Reloaded'
<1>0. TableParts /\ TableTypeOK'
  BY StepTableTypeOK DEF TableTypeOK, TableParts
<1>a. dirty' => Reloaded'
  BY DEF Reloaded
<1>b. UNCHANGED mirrorVars => mirror' = mirror
  BY DEF mirrorVars
<1>1. CASE Reload
  <2>1. /\ shown' = [k \in Keys |-> LiveRow(k)]
        /\ presumedDead' = [k \in Keys |-> IF Hidden(k) THEN "fresh" ELSE "no"]
        /\ presumedAttached' = presumedAttached /\ mirror' = mirror
    BY <1>1, <1>b DEF Reload
  <2>2. ASSUME NEW k \in Keys, presumedDead'[k] = "no", presumedAttached'[k] = None
        PROVE  shown'[k] = AsRead(k)'
    <3>1. presumedDead[k] # "fresh"
      BY <2>1, <2>2 DEF Hidden
    <3>2. LiveRow(k) = AsRead(k)
      BY <2>1, <2>2, <3>1, LiveRowIsRow
    <3>3. AsRead(k)' = AsRead(k)
      BY <2>1 DEF AsRead
    <3>4. QED
      BY <2>1, <3>2, <3>3
  <2>3. QED
    BY <2>2 DEF Reloaded
<1>2. CASE TableReceive \/ TableLinkLost \/ TableDial
  BY <1>2, <1>a DEF TableReceive, TableLinkLost, TableDial
<1>3. CASE TableUnseen
  <2>1. mirror' = mirror
    BY <1>3 DEF TableUnseen, Unseen, Accept, ReadSnapshot, SendSnapshot, Wake, ReadRows,
                PushDone, PushRemoved, PushDelta, Push, clientVars
  <2>2. UNCHANGED <<shown, dirty, guessVars>>
    BY <1>3 DEF TableUnseen, tableVars, guessVars
  <2>3. QED
    BY <2>1, <2>2 DEF Reloaded, AsRead, guessVars
<1>4. ASSUME NEW k \in Keys, TableLaunch(k) \/ TableEnd(k) \/ Elsewhere(k) \/ ClientGone(k)
      PROVE  Reloaded'
  <2>1. mirror' = mirror
    BY <1>4 DEF TableLaunch, TableEnd, Elsewhere, ClientGone, Launch, End, Attach, Detach,
                HostChanges, clientVars
  <2>2. UNCHANGED <<shown, dirty, guessVars>>
    BY <1>4 DEF TableLaunch, TableEnd, Elsewhere, ClientGone, tableVars, guessVars
  <2>3. QED
    BY <2>1, <2>2 DEF Reloaded, AsRead, guessVars
<1>5. ASSUME NEW k \in Keys, Lapse(k)
      PROVE  Reloaded'
  <2>1. /\ UNCHANGED <<mirror, shown, dirty, presumedAttached>>
        /\ presumedDead' = [presumedDead EXCEPT ![k] = "lapsed"] /\ presumedDead[k] = "fresh"
    BY <1>5, <1>b DEF Lapse, Hidden
  <2>2. \A j \in Keys : presumedDead'[j] = "no" => presumedDead[j] = "no"
    BY <1>0, <2>1 DEF TableParts
  <2>3. QED
    BY <2>1, <2>2 DEF Reloaded, AsRead
<1>6. ASSUME NEW k \in Keys, StartKill(k)
      PROVE  Reloaded'
  BY <1>6, <1>a DEF StartKill, Ask, PresumeDead
<1>7. ASSUME NEW k \in Keys, KillProgress(k) \/ TimeOut(k) \/ Unconfirmed(k), ~Settle(k)
      PROVE  Reloaded'
  <2>1. UNCHANGED <<mirror, shown, dirty, guessVars>>
    BY <1>7, <1>b DEF KillProgress, TimeOut, Unconfirmed, Enqueue, Drain, Send, Answer, Reply,
                      Confirm, KillMoves
  <2>2. QED
    BY <2>1 DEF Reloaded, AsRead, guessVars
<1>8. ASSUME NEW k \in Keys, Settle(k)
      PROVE  Reloaded'
  <2>1. UNCHANGED <<mirror, shown>>
    BY <1>8, <1>b DEF Settle
  <2>2. QED
    BY <1>0, <1>8, <2>1, GuessIsDirty, StillReloaded DEF Settle
<1>9. ASSUME NEW k \in Keys, Enter(k)
      PROVE  Reloaded'
  <2>1. mirror' = mirror
    BY <1>9, <1>b DEF Enter, Attach, HostChanges, clientVars
  <2>2. UNCHANGED <<shown, dirty, guessVars>>
    BY <1>9 DEF Enter
  <2>3. QED
    BY <2>1, <2>2 DEF Reloaded, AsRead, guessVars
<1>10. ASSUME NEW k \in Keys, CloseWindow(k)
       PROVE  Reloaded'
  <2>1. UNCHANGED <<mirror, shown, dirty, guessVars>>
    BY <1>10, <1>b DEF CloseWindow
  <2>2. QED
    BY <2>1 DEF Reloaded, AsRead, guessVars
<1>11. ASSUME NEW k \in Keys, DetachKey(k)
       PROVE  Reloaded'
  <2>1. UNCHANGED <<mirror, shown>> /\ PresumeAttached(k, FALSE)
    BY <1>11, <1>b DEF DetachKey
  <2>2. QED
    BY <1>0, <2>1, GuessIsDirty, StillReloaded
<1>12. ASSUME NEW k \in Keys, ApplyReport(k)
       PROVE  Reloaded'
  <2>1. UNCHANGED <<mirror, shown>>
    BY <1>12, <1>b DEF ApplyReport
  <2>2. QED
    BY <1>0, <1>12, <2>1, GuessIsDirty, StillReloaded DEF ApplyReport
<1>13. ASSUME NEW k \in Keys, DueClose(k)
       PROVE  Reloaded'
  <2>1. UNCHANGED <<mirror, shown>>
    BY <1>13, <1>b DEF DueClose
  <2>2. QED
    BY <1>0, <1>a, <1>13, <2>1, GuessIsDirty, StillReloaded DEF DueClose, Ask, PresumeDead
<1>14. CASE UNCHANGED vars
  <2>1. UNCHANGED <<mirror, shown, dirty, guessVars>>
    BY <1>14, <1>b DEF vars, tableVars, guessVars
  <2>2. QED
    BY <2>1 DEF Reloaded, AsRead, guessVars
<1>15. QED
  BY <1>1, <1>2, <1>3, <1>4, <1>5, <1>6, <1>7, <1>8, <1>9, <1>10, <1>11, <1>12, <1>13,
     <1>14 DEF TableNext

------------------------------------------------------------------------------
(* A kill is confirmed of a session that is over *)

\* Nothing but a confirmation makes a kill "ended", and a key's target stands
\* until its next kill is asked for.
LEMMA KillStands ==
    ASSUME TableTypeOK, [TableNext]_vars, NEW j \in Keys, kill'[j] = "ended"
    PROVE  target'[j] = target[j] /\ (kill[j] = "ended" \/ Confirm(j))
<1>0. kill \in [Keys -> KillStep] /\ target \in [Keys -> 0..MaxGen]
  BY DEF TableTypeOK
<1>1. CASE Reload \/ TableReceive \/ TableDial \/ TableUnseen \/ UNCHANGED vars
  BY <1>1 DEF Reload, TableReceive, TableDial, TableUnseen, vars, tableVars, killVars
<1>2. CASE TableLinkLost
  BY <1>0, <1>2 DEF TableLinkLost
<1>3. ASSUME NEW k \in Keys, \/ TableLaunch(k) \/ TableEnd(k) \/ Elsewhere(k) \/ Lapse(k) \/ Enter(k)
                             \/ CloseWindow(k) \/ DetachKey(k) \/ ClientGone(k) \/ ApplyReport(k)
      PROVE  UNCHANGED <<kill, target>>
  BY <1>3 DEF TableLaunch, TableEnd, Elsewhere, Lapse, Enter, CloseWindow, DetachKey,
              ClientGone, ApplyReport, tableVars, killVars
<1>4. ASSUME NEW k \in Keys, NEW gen, Ask(k, gen)
      PROVE  target'[j] = target[j] /\ kill[j] = "ended"
  BY <1>0, <1>4 DEF Ask
<1>5. ASSUME NEW k \in Keys, StartKill(k) \/ DueClose(k)
      PROVE  target'[j] = target[j] /\ kill[j] = "ended"
  BY <1>4, <1>5 DEF StartKill, DueClose, killVars
<1>6. ASSUME NEW k \in Keys, NEW from, NEW to, KillMoves(k, from, to), to # "ended"
      PROVE  target'[j] = target[j] /\ kill[j] = "ended"
  BY <1>0, <1>6 DEF KillMoves
<1>7. ASSUME NEW k \in Keys, Confirm(k)
      PROVE  target'[j] = target[j] /\ (kill[j] = "ended" \/ j = k)
  BY <1>0, <1>7 DEF Confirm, KillMoves
<1>8. ASSUME NEW k \in Keys, Settle(k)
      PROVE  target'[j] = target[j] /\ kill[j] = "ended"
  BY <1>0, <1>8 DEF Settle
<1>9. ASSUME NEW k \in Keys, \/ Enqueue(k) \/ Drain(k) \/ Send(k) \/ Answer(k) \/ Reply(k)
                             \/ TimeOut(k) \/ Unconfirmed(k)
      PROVE  target'[j] = target[j] /\ kill[j] = "ended"
  BY <1>6, <1>9 DEF Enqueue, Drain, Send, Answer, Reply, TimeOut, Unconfirmed
<1>10. QED
  BY <1>1, <1>2, <1>3, <1>5, <1>7, <1>8, <1>9 DEF TableNext, KillProgress

\* What a step makes of a session that is over, or of a later one.
LEMMA HostMovesOn ==
    ASSUME MirrorTypeOK, [TableNext]_vars, NEW j \in Keys
    PROVE  \/ host'[j].live = host[j].live /\ host'[j].gen = host[j].gen
           \/ ~host'[j].live
           \/ ~host[j].live /\ host'[j].gen = host[j].gen + 1
<1>1. CASE host' = host
  BY <1>1
<1>2. CASE \E k \in Keys : Launch(k)
  BY <1>2, LaunchStep
<1>3. CASE \E k \in Keys : End(k)
  BY <1>3, EndStep
<1>4. CASE \E k \in Keys : Attach(k) \/ Detach(k)
  BY <1>4, AttachStep
<1>5. CASE \/ TableReceive \/ TableLinkLost \/ TableDial \/ TableUnseen
  BY <1>1, <1>5, HostStays
<1>6. [MirrorNext]_mirrorVars
  BY TableStepMirrors
<1>7. CASE Receive \/ LinkLost \/ Dial \/ DialFails \/ ServerStep \/ UNCHANGED mirrorVars
  <2>1. host' = host
    BY <1>7 DEF Receive, LinkLost, Dial, DialFails, ServerStep, Accept, Handshake, ReadSnapshot,
                SendSnapshot, Wake, ReadRows, PushDone, PushRemoved, PushDelta, Push, hostVars,
                mirrorVars
  <2>2. QED
    BY <1>1, <2>1
<1>8. QED
  BY <1>2, <1>3, <1>4, <1>6, <1>7 DEF MirrorNext, HostStep

LEMMA StepConfirmed ==
    ASSUME TableTypeOK, MirrorInv, Past, KillIsConfirmed, [TableNext]_vars
    PROVE  KillIsConfirmed'
<1>0. MirrorTypeOK /\ Wired /\ Forward
  BY DEF MirrorInv
<1> SUFFICES ASSUME NEW j \in Keys, kill'[j] = "ended"
             PROVE  ~(host'[j].live /\ host'[j].gen = target'[j])
  BY DEF KillIsConfirmed
<1>1. target'[j] = target[j] /\ (kill[j] = "ended" \/ Confirm(j))
  BY KillStands
<1>2. /\ target[j] \in Nat /\ seen[j].gen \in Nat /\ host[j].gen \in Nat
      /\ target[j] <= seen[j].gen /\ seen[j].gen <= host[j].gen
  <2>1. target[j] \in Nat
    BY HostMirrorAssumption DEF TableTypeOK
  <2>2. QED
    BY <2>1, SeenGrows, TableStepMirrors DEF Past
<1>3. CASE kill[j] = "ended"
  <2>1. ~(host[j].live /\ host[j].gen = target[j])
    BY <1>3 DEF KillIsConfirmed
  <2>2. QED
    BY <1>0, <1>1, <1>2, <2>1, HostMovesOn
<1>4. CASE Confirm(j)
  <2>1. host' = host /\ mirrored /\ ~mirror[j].live
    BY <1>4 DEF Confirm, Confirmed, KillMoves, mirrorVars
  <2>2. seen = mirror /\ NotAfter(seen[j], host[j])
    BY <1>0, <2>1 DEF Wired, Forward
  <2>3. QED
    BY <1>1, <1>2, <2>1, <2>2 DEF NotAfter
<1>5. QED
  BY <1>1, <1>3, <1>4

------------------------------------------------------------------------------
(* The theorems *)

LEMMA InitTableInv == TableInit => TableInv
<1>1. ASSUME TableInit PROVE TableInv
  <2>1. MirrorInv
    BY <1>1, InitTypeOK, InitWired, InitSnapshotFirst, InitUpToDate, InitInStep, InitForward
    DEF TableInit, MirrorInv
  <2>2. /\ shown = NoRows /\ seen = NoRows /\ mirror = NoRows
        /\ kill = [k \in Keys |-> "none"] /\ target = [k \in Keys |-> 0]
        /\ window = [k \in Keys |-> "none"] /\ report = [k \in Keys |-> None]
        /\ due = [k \in Keys |-> None]
    BY <1>1 DEF TableInit, MirrorInit
  <2>3. TableTypeOK
    <3>1. "none" \in KillStep /\ 0 \in 0..MaxGen /\ shown \in [Keys -> Row]
      BY <2>2, HostMirrorAssumption, NoRowsIsMirror DEF KillStep
    <3>2. MirrorTypeOK
      BY <2>1 DEF MirrorInv
    <3>3. QED
      BY <1>1, <2>2, <3>1, <3>2 DEF TableInit, TableTypeOK
  <2>4. Past
    <3>1. \A k \in Keys : /\ shown[k].gen = 0 /\ seen[k].gen = 0
                          /\ target[k] = 0 /\ window[k] = "none"
                          /\ report[k] = None /\ due[k] = None
      BY <2>2, NoRowsIsMirror
    <3>2. \A k \in Keys : shown[k].gen <= seen[k].gen /\ target[k] <= seen[k].gen
      <4>1. 0 <= 0
        OBVIOUS
      <4>2. QED
        BY Zenon, <3>1, <4>1
    <3>3. QED
      BY Zenon, <3>1, <3>2 DEF Past
  <2>5. Reloaded
    <3>1. \A k \in Keys : NoRows[k] = Absent(0) /\ NoRows[k].gen = 0 /\ ~NoRows[k].live
      BY NoRowsIsMirror DEF NoRows
    <3>2. QED
      BY <2>2, <3>1 DEF Reloaded, AsRead
  <2>6. KillIsConfirmed
    BY <2>2 DEF KillIsConfirmed
  <2>7. QED
    BY <2>1, <2>3, <2>4, <2>5, <2>6 DEF TableInv
<1>2. QED
  BY <1>1

LEMMA StepTableInv ==
    ASSUME TableInv, [TableNext]_vars
    PROVE  TableInv'
<1> USE DEF TableInv
<1>1. MirrorInv'
  BY TableStepMirrors, StepTypeOK, StepWired, StepSnapshotFirst, StepUpToDate, StepInStep,
     StepForward DEF MirrorInv
<1>2. TableTypeOK' /\ Past' /\ Reloaded' /\ KillIsConfirmed'
  BY StepTableTypeOK, StepPast, StepReloaded, StepConfirmed
<1>3. QED
  BY <1>1, <1>2

\* The inductive invariant of the table over the mirror it composes.
THEOREM TableInvariant == TableSpec => []TableInv
<1>1. TableInv /\ [TableNext]_vars => TableInv'
  BY StepTableInv
<1>2. QED
  BY InitTableInv, <1>1, PTL DEF TableSpec

\* The rows, guesses, kills, windows and reports keep their types.
THEOREM TableTypeCorrect == TableSpec => []TableTypeOK
<1>1. TableInv => TableTypeOK
  BY DEF TableInv
<1>2. QED
  BY TableInvariant, <1>1, PTL

\* Whatever is launched, ended and killed, and however often the link is lost:
\* a kill is reported done only of a session that is over (kill_session).
THEOREM KillsAreConfirmed == TableSpec => []KillIsConfirmed
<1>1. TableInv => KillIsConfirmed
  BY DEF TableInv
<1>2. QED
  BY TableInvariant, <1>1, PTL

\* A table at rest shows the host's rows: every change to what a reload would
\* read has asked for one (live_rows, presume_*, serve_protocol).
THEOREM TableAtRestIsHost == TableSpec => []TableIsHost
<1>1. ASSUME TableInv PROVE TableIsHost
  <2>1. MirrorInv /\ Reloaded /\ MirrorTypeOK
    BY <1>1 DEF TableInv, MirrorInv
  <2>2. QuietMirrorAgrees
    BY <2>1 DEF MirrorInv, QuietMirrorAgrees, Quiet, InStep, UpToDate, SnapshotFirst, Subscribed
  <2> SUFFICES ASSUME NEW k \in Keys, Quiet, ~dirty, presumedDead[k] = "no",
                      presumedAttached[k] = None
               PROVE  Same(shown[k], host[k])
    BY DEF TableIsHost
  <2>3. shown[k] = AsRead(k) /\ Same(mirror[k], host[k])
    BY <2>1, <2>2 DEF Reloaded, QuietMirrorAgrees
  <2>4. CASE mirror[k].live
    BY <2>3, <2>4 DEF AsRead
  <2>5. CASE ~mirror[k].live
    <3>1. mirror[k].gen \in 0..MaxGen
      BY <2>1 DEF MirrorTypeOK, Row
    <3>2. ~shown[k].live /\ ~host[k].live
      BY <2>3, <2>5, <3>1, AbsentIsRow DEF AsRead, Same
    <3>3. QED
      BY <3>2 DEF Same
  <2>6. QED
    BY <2>4, <2>5
<1>2. QED
  BY TableInvariant, <1>1, PTL

\* The composition does to its mirror only what HostMirror does.
THEOREM TableImplementsMirror == TableSpec => MirrorSpec
<1>1. TableInit => MirrorInit
  BY DEF TableInit
<1>2. [TableNext]_vars => [MirrorNext]_mirrorVars
  BY TableStepMirrors
<1>3. QED
  BY <1>1, <1>2, PTL DEF TableSpec, MirrorSpec

\* So what a dashboard knows of a host only moves forward beneath the table's
\* guesses too.
THEOREM TableImplementsAccount == TableSpec => ImplementsAccount
BY TableImplementsMirror, MirrorImplementsAccount

------------------------------------------------------------------------------
(* The status of the row *)

(* The hook that waits to be accepted.                                      *)
Pending == IF hooks = <<>> THEN "none" ELSE Head(hooks)

(* What the launcher has not read yet, and what that says.  A launcher that *)
(* starts has read nothing, and its agent has done nothing.                 *)
UnreadOK ==
    /\ fsWake <=> lines # {}
    /\ (lines \cap {"interrupted", "compactFailed"} # {}) => astray
    /\ (Pending = "StopFailure") => astray
    /\ (Pending = "SessionStart") =>
          turn = "rest" /\ ~queued /\ ~shell /\ ~subagent /\ file = "idle"
    /\ (status = "starting") =>
          /\ Pending = "SessionStart"
          /\ ~fsWake /\ ~sessWake /\ throttle = "clean" /\ pc = "select"
    /\ (pc = "select") => activity = "none"
    /\ (activity = "busy" /\ file # "busy") => sessWake

(* The hook that waits is of what the agent did last.                       *)
HookOK ==
    /\ (turn = "rest") => Pending \in {"none", "SessionStart", "Stop", "StopFailure", "PostCompact"}
    /\ (turn = "work") => Pending \in {"none", "PromptSubmit", "ToolUse", "PostCompact"}
    /\ (turn = "ask") => Pending \in {"none", "PermissionRequest"}
    /\ (turn = "decide") => Pending \in {"none", "Elicitation"}
    /\ (turn \in {"compact", "auto"}) => Pending \in {"none", "PreCompact"}
    /\ (turn = "compact") => lines \subseteq {"text"}
    /\ (turn = "compact" /\ Pending = "none") => status = "compacting"

(* A row at rest while the file is at work: the file has yet to be read, or *)
(* a prompt's hook, which cannot be lost.                                   *)
WorkOK ==
    (status = "idle" /\ file = "busy" /\ ~astray) =>
        sessWake \/ (Pending = "PromptSubmit" /\ ~deaf)

(* A row that is behind an agent at rest has yet to read what says so.      *)
RestOK ==
    /\ (status = "active" /\ file = "idle" /\ turn = "rest") =>
          \/ sessWake \/ "interrupted" \in lines
          \/ Pending = "StopFailure" \/ (Pending = "Stop" /\ ~deaf)
    /\ (status = "background" /\ file = "idle") => sessWake
    /\ (status \in Asking /\ turn \notin {"ask", "decide"}) =>
          "interrupted" \in lines \/ Pending = "ToolUse"
    /\ (status = "compacting" /\ turn \notin {"compact", "auto"}) =>
          "compactFailed" \in lines \/ Pending = "PostCompact"
    /\ (status \in {"idle", "active", "compacted"} /\ file = "shell" /\ turn = "rest" /\ ~astray) =>
          sessWake \/ (Pending = "Stop" /\ ~deaf)

(* What is asked is shown once its hook is accepted, and what the tool's    *)
(* own line says is read within the grace period.                           *)
AskOK ==
    /\ (turn = "ask" /\ ~astray /\ Pending = "none") =>
          status = "approval" /\ (fsWake => grace = "fresh")
    /\ (turn = "ask" /\ ~astray /\ Pending # "none") => status # "approval"
    /\ (turn = "decide" /\ ~astray /\ Pending = "none") => status = "decision"

(* A row that asks has been published, or is at the end of the iteration.   *)
SentOK ==
    /\ (pc = "select" /\ status \in Asking) => LastSent \in Asking
    /\ (pc = "tail" /\ before \in Asking) => LastSent \in Asking
    /\ (pc = "tail" /\ status \in Asking /\ before \notin Asking) => changed

StatusInv == UnreadOK /\ HookOK /\ WorkOK /\ RestOK /\ AskOK /\ SentOK
-----------------------------------------------------------------------------
(* The queue of hooks holds one at most.                                    *)

LEMMA HookFires ==
    ASSUME hooks = <<>>, NEW h \in Hooks, Fires(h)
    PROVE  hooks' = <<h>> /\ Pending' = h
  BY DEF Fires, Pending, Hooks

LEMMA HookIsTaken ==
    ASSUME AgentStatusTypeOK, hooks # <<>>, hooks' = Tail(hooks)
    PROVE  hooks' = <<>> /\ Pending' = "none" /\ Pending = Head(hooks) /\ Pending \in Hooks
  <1>1. PICK h \in Hooks : hooks = <<h>>
    BY DEF AgentStatusTypeOK, WordTypes
  <1>. QED
    BY <1>1 DEF Pending

LEMMA NoHook ==
    ASSUME AgentStatusTypeOK
    PROVE  (hooks = <<>>) <=> (Pending = "none")
  BY DEF AgentStatusTypeOK, WordTypes, Pending, Hooks

LEMMA HookStays ==
    ASSUME hooks' = hooks
    PROVE  Pending' = Pending
  BY DEF Pending

\* What a row that asks has been published stays published while nothing is.
LEMMA SentStays ==
    ASSUME SentOK, UNCHANGED <<status, pc, before, changed, updates, kept>>
    PROVE  SentOK'
  BY DEF SentOK, LastSent

LEMMA StepFacts ==
    ASSUME AgentStatusTypeOK, Step
    PROVE  /\ hooks = <<>> /\ Pending = "none" /\ pc = "select"
           /\ deaf => file = Truth /\ ~sessWake
  BY NoHook DEF Step
-----------------------------------------------------------------------------
(* A step of the agent or of its user keeps the invariant.                  *)

LEMMA SubmitsKeeps ==
    ASSUME AgentStatusTypeOK, StatusInv, Submits
    PROVE  StatusInv'
  <1>1. Step
    BY DEF Submits, UserStep, Writes
  <1>2. /\ hooks = <<>> /\ Pending = "none" /\ pc = "select"
        /\ deaf => file = Truth /\ ~sessWake
    BY <1>1, StepFacts
  <1>3. Pending' = "PromptSubmit"
    BY <1>2, HookFires DEF Submits, UserStep, Writes, Hooks
  <1>4. UnreadOK'
    BY <1>2, <1>3 DEF StatusInv, UnreadOK, HookOK, Submits, UserStep, Writes, Unheard, loopVars
  <1>5. HookOK'
    BY <1>2, <1>3 DEF StatusInv, UnreadOK, HookOK, Submits, UserStep, Writes, Unheard, loopVars
  <1>6. WorkOK'
    BY <1>2, <1>3 DEF StatusInv, WorkOK, UnreadOK, Submits, UserStep, Writes, Unheard,
                      loopVars, Truth
  <1>7. RestOK'
    BY <1>2, <1>3 DEF StatusInv, UnreadOK, HookOK, RestOK, Asking, Submits, UserStep, Writes,
                      Unheard, loopVars, Truth
  <1>8. AskOK'
    BY <1>2, <1>3 DEF StatusInv, UnreadOK, RestOK, AskOK, Asking, Submits, UserStep, Writes,
                      Unheard, loopVars
  <1>9. SentOK'
    BY SentStays DEF StatusInv, Submits, UserStep, Writes, Unheard, loopVars, diskVars
  <1>. QED
    BY <1>4, <1>5, <1>6, <1>7, <1>8, <1>9 DEF StatusInv

LEMMA QueuesKeeps ==
    ASSUME AgentStatusTypeOK, StatusInv, Queues
    PROVE  StatusInv'
  <1>1. Step
    BY DEF Queues, UserStep
  <1>2. /\ hooks = <<>> /\ Pending = "none" /\ pc = "select"
        /\ deaf => file = Truth /\ ~sessWake
    BY <1>1, StepFacts
  <1>3. Pending' = "PromptSubmit"
    BY <1>2, HookFires DEF Queues, UserStep, Hooks
  <1>4. UnreadOK'
    BY <1>2, <1>3 DEF StatusInv, UnreadOK, HookOK, Queues, UserStep, Unheard, loopVars
  <1>5. HookOK'
    BY <1>2, <1>3 DEF StatusInv, UnreadOK, HookOK, Queues, UserStep, Unheard, loopVars
  <1>6. WorkOK'
    BY <1>2, <1>3 DEF StatusInv, WorkOK, UnreadOK, Queues, UserStep, Unheard, loopVars, Truth
  <1>7. RestOK'
    BY <1>2, <1>3 DEF StatusInv, UnreadOK, HookOK, RestOK, Asking, Queues, UserStep, Unheard,
                      loopVars, Truth
  <1>8. AskOK'
    BY <1>2, <1>3 DEF StatusInv, UnreadOK, RestOK, AskOK, Asking, Queues, UserStep, Unheard,
                      loopVars
  <1>9. SentOK'
    BY SentStays DEF StatusInv, Queues, UserStep, Unheard, loopVars, diskVars
  <1>. QED
    BY <1>4, <1>5, <1>6, <1>7, <1>8, <1>9 DEF StatusInv

LEMMA UsesToolKeeps ==
    ASSUME AgentStatusTypeOK, StatusInv, NEW s \in BOOLEAN, NEW a \in BOOLEAN, UsesTool(s, a)
    PROVE  StatusInv'
  <1>1. Step
    BY DEF UsesTool, Writes
  <1>2. /\ hooks = <<>> /\ Pending = "none" /\ pc = "select"
        /\ deaf => file = Truth /\ ~sessWake
    BY <1>1, StepFacts
  <1>3. Pending' = "ToolUse"
    BY <1>2, HookFires DEF UsesTool, Writes, Hooks
  <1>4. UnreadOK'
    BY <1>2, <1>3 DEF StatusInv, UnreadOK, HookOK, UsesTool, Writes, Unheard, loopVars
  <1>5. HookOK'
    BY <1>2, <1>3 DEF StatusInv, UnreadOK, HookOK, UsesTool, Writes, Unheard, loopVars
  <1>6. WorkOK'
    BY <1>2, <1>3 DEF StatusInv, WorkOK, UnreadOK, UsesTool, Writes, Unheard, loopVars, Truth
  <1>7. RestOK'
    BY <1>2, <1>3 DEF StatusInv, UnreadOK, HookOK, RestOK, Asking, UsesTool, Writes, Unheard,
                      loopVars, Truth
  <1>8. AskOK'
    BY <1>2, <1>3 DEF StatusInv, UnreadOK, RestOK, AskOK, Asking, UsesTool, Writes, Unheard,
                      loopVars
  <1>9. SentOK'
    BY SentStays DEF StatusInv, UsesTool, Writes, Unheard, loopVars, diskVars
  <1>. QED
    BY <1>4, <1>5, <1>6, <1>7, <1>8, <1>9 DEF StatusInv

LEMMA AsksKeeps ==
    ASSUME AgentStatusTypeOK, StatusInv, NEW what \in {"ask", "decide"}, Asks(what)
    PROVE  StatusInv'
  <1>1. Step
    BY DEF Asks, Quietly, Writes
  <1>2. /\ hooks = <<>> /\ Pending = "none" /\ pc = "select"
        /\ deaf => file = Truth /\ ~sessWake
    BY <1>1, StepFacts
  <1>3. Pending' = (IF what = "ask" THEN "PermissionRequest" ELSE "Elicitation")
    BY <1>2, HookFires DEF Asks, Quietly, Writes, Hooks
  <1>4. UnreadOK'
    BY <1>2, <1>3 DEF StatusInv, UnreadOK, HookOK, Asks, Quietly, Writes, Unheard, loopVars
  <1>5. HookOK'
    BY <1>2, <1>3 DEF StatusInv, UnreadOK, HookOK, Asks, Quietly, Writes, Unheard, loopVars
  <1>6. WorkOK'
    BY <1>2, <1>3 DEF StatusInv, WorkOK, UnreadOK, Asks, Quietly, Writes, Unheard, loopVars,
                      Truth
  <1>7. RestOK'
    BY <1>2, <1>3 DEF StatusInv, UnreadOK, HookOK, RestOK, Asking, Asks, Quietly, Writes,
                      Unheard, loopVars, Truth
  <1>8. AskOK'
    BY <1>2, <1>3 DEF StatusInv, UnreadOK, RestOK, AskOK, Asking, Asks, Quietly, Writes,
                      Unheard, loopVars
  <1>9. SentOK'
    BY SentStays DEF StatusInv, Asks, Quietly, Writes, Unheard, loopVars, diskVars
  <1>. QED
    BY <1>4, <1>5, <1>6, <1>7, <1>8, <1>9 DEF StatusInv

LEMMA IsAnsweredKeeps ==
    ASSUME AgentStatusTypeOK, StatusInv, IsAnswered
    PROVE  StatusInv'
  <1>1. Step
    BY DEF IsAnswered, UserStep, Quietly, Writes
  <1>2. /\ hooks = <<>> /\ Pending = "none" /\ pc = "select"
        /\ deaf => file = Truth /\ ~sessWake
    BY <1>1, StepFacts
  <1>3. Pending' = "ToolUse"
    BY <1>2, HookFires DEF IsAnswered, UserStep, Quietly, Writes, Hooks
  <1>4. UnreadOK'
    BY <1>2, <1>3 DEF StatusInv, UnreadOK, HookOK, IsAnswered, UserStep, Quietly, Writes,
                      Unheard, loopVars
  <1>5. HookOK'
    BY <1>2, <1>3 DEF StatusInv, UnreadOK, HookOK, IsAnswered, UserStep, Quietly, Writes,
                      Unheard, loopVars
  <1>6. WorkOK'
    BY <1>2, <1>3 DEF StatusInv, WorkOK, UnreadOK, IsAnswered, UserStep, Quietly, Writes,
                      Unheard, loopVars, Truth
  <1>7. RestOK'
    BY <1>2, <1>3 DEF StatusInv, UnreadOK, HookOK, RestOK, Asking, IsAnswered, UserStep,
                      Quietly, Writes, Unheard, loopVars, Truth
  <1>8. AskOK'
    BY <1>2, <1>3 DEF StatusInv, UnreadOK, RestOK, AskOK, Asking, IsAnswered, UserStep,
                      Quietly, Writes, Unheard, loopVars
  <1>9. SentOK'
    BY SentStays DEF StatusInv, IsAnswered, UserStep, Quietly, Writes, Unheard, loopVars,
                     diskVars
  <1>. QED
    BY <1>4, <1>5, <1>6, <1>7, <1>8, <1>9 DEF StatusInv

LEMMA TurnEndsKeeps ==
    ASSUME AgentStatusTypeOK, StatusInv, TurnEnds
    PROVE  StatusInv'
  <1>1. Step
    BY DEF TurnEnds, Quietly, Writes
  <1>2. /\ hooks = <<>> /\ Pending = "none" /\ pc = "select"
        /\ deaf => file = Truth /\ ~sessWake
    BY <1>1, StepFacts
  <1>3. Pending' = "Stop"
    BY <1>2, HookFires DEF TurnEnds, Quietly, Writes, Hooks
  <1>4. UnreadOK'
    BY <1>2, <1>3 DEF StatusInv, UnreadOK, HookOK, TurnEnds, Quietly, Writes, Unheard, loopVars
  <1>5. HookOK'
    BY <1>2, <1>3 DEF StatusInv, UnreadOK, HookOK, TurnEnds, Quietly, Writes, Unheard, loopVars
  <1>6. WorkOK'
    BY <1>2, <1>3 DEF StatusInv, WorkOK, UnreadOK, TurnEnds, Quietly, Writes, Unheard,
                      loopVars, Truth
  <1>7. RestOK'
    BY <1>2, <1>3 DEF StatusInv, UnreadOK, HookOK, RestOK, Asking, TurnEnds, Quietly, Writes,
                      Unheard, loopVars, Truth
  <1>8. AskOK'
    BY <1>2, <1>3 DEF StatusInv, UnreadOK, RestOK, AskOK, Asking, TurnEnds, Quietly, Writes,
                      Unheard, loopVars
  <1>9. SentOK'
    BY SentStays DEF StatusInv, TurnEnds, Quietly, Writes, Unheard, loopVars, diskVars
  <1>. QED
    BY <1>4, <1>5, <1>6, <1>7, <1>8, <1>9 DEF StatusInv

LEMMA TurnFailsKeeps ==
    ASSUME AgentStatusTypeOK, StatusInv, TurnFails
    PROVE  StatusInv'
  <1>1. Step
    BY DEF TurnFails, Writes
  <1>2. /\ hooks = <<>> /\ Pending = "none" /\ pc = "select"
        /\ deaf => file = Truth /\ ~sessWake
    BY <1>1, StepFacts
  <1>3. Pending' = "StopFailure"
    BY <1>2, HookFires DEF TurnFails, Writes, Hooks
  <1>4. UnreadOK'
    BY <1>2, <1>3 DEF StatusInv, UnreadOK, HookOK, TurnFails, Writes, Unheard, loopVars
  <1>5. HookOK'
    BY <1>2, <1>3 DEF StatusInv, UnreadOK, HookOK, TurnFails, Writes, Unheard, loopVars
  <1>6. WorkOK'
    BY <1>2, <1>3 DEF StatusInv, WorkOK, UnreadOK, TurnFails, Writes, Unheard, loopVars, Truth
  <1>7. RestOK'
    BY <1>2, <1>3 DEF StatusInv, UnreadOK, HookOK, RestOK, Asking, TurnFails, Writes, Unheard,
                      loopVars, Truth
  <1>8. AskOK'
    BY <1>2, <1>3 DEF StatusInv, UnreadOK, RestOK, AskOK, Asking, TurnFails, Writes, Unheard,
                      loopVars
  <1>9. SentOK'
    BY SentStays DEF StatusInv, TurnFails, Writes, Unheard, loopVars, diskVars
  <1>. QED
    BY <1>4, <1>5, <1>6, <1>7, <1>8, <1>9 DEF StatusInv

LEMMA CompactsKeeps ==
    ASSUME AgentStatusTypeOK, StatusInv, NEW how \in {"compact", "auto"}, Compacts(how)
    PROVE  StatusInv'
  <1>1. Step
    BY DEF Compacts, UserStep, Quietly
  <1>2. /\ hooks = <<>> /\ Pending = "none" /\ pc = "select"
        /\ deaf => file = Truth /\ ~sessWake
    BY <1>1, StepFacts
  <1>3. Pending' = "PreCompact"
    BY <1>2, HookFires DEF Compacts, UserStep, Quietly, Hooks
  <1>4. UnreadOK'
    BY <1>2, <1>3 DEF StatusInv, UnreadOK, HookOK, Compacts, UserStep, Quietly, Unheard,
                      loopVars
  <1>5. HookOK'
    BY <1>2, <1>3 DEF StatusInv, UnreadOK, HookOK, Compacts, UserStep, Quietly, Unheard,
                      loopVars
  <1>6. WorkOK'
    BY <1>2, <1>3 DEF StatusInv, WorkOK, UnreadOK, Compacts, UserStep, Quietly, Unheard,
                      loopVars, Truth
  <1>7. RestOK'
    BY <1>2, <1>3 DEF StatusInv, UnreadOK, HookOK, RestOK, Asking, Compacts, UserStep, Quietly,
                      Unheard, loopVars, Truth
  <1>8. AskOK'
    BY <1>2, <1>3 DEF StatusInv, UnreadOK, RestOK, AskOK, Asking, Compacts, UserStep, Quietly,
                      Unheard, loopVars
  <1>9. SentOK'
    BY SentStays DEF StatusInv, Compacts, UserStep, Quietly, Unheard, loopVars, diskVars
  <1>. QED
    BY <1>4, <1>5, <1>6, <1>7, <1>8, <1>9 DEF StatusInv

LEMMA HasCompactedKeeps ==
    ASSUME AgentStatusTypeOK, StatusInv, HasCompacted
    PROVE  StatusInv'
  <1>1. Step
    BY DEF HasCompacted, Quietly
  <1>2. /\ hooks = <<>> /\ Pending = "none" /\ pc = "select"
        /\ deaf => file = Truth /\ ~sessWake
    BY <1>1, StepFacts
  <1>3. Pending' = "PostCompact"
    BY <1>2, HookFires DEF HasCompacted, Quietly, Hooks
  <1>4. UnreadOK'
    BY <1>2, <1>3 DEF StatusInv, UnreadOK, HookOK, HasCompacted, Quietly, Unheard, loopVars
  <1>5. HookOK'
    BY <1>2, <1>3 DEF StatusInv, UnreadOK, HookOK, HasCompacted, Quietly, Unheard, loopVars
  <1>6. WorkOK'
    BY <1>2, <1>3 DEF StatusInv, WorkOK, UnreadOK, HasCompacted, Quietly, Unheard, loopVars,
                      Truth
  <1>7. RestOK'
    BY <1>2, <1>3 DEF StatusInv, UnreadOK, HookOK, RestOK, Asking, HasCompacted, Quietly,
                      Unheard, loopVars, Truth
  <1>8. AskOK'
    BY <1>2, <1>3 DEF StatusInv, UnreadOK, RestOK, AskOK, Asking, HasCompacted, Quietly,
                      Unheard, loopVars
  <1>9. SentOK'
    BY SentStays DEF StatusInv, HasCompacted, Quietly, Unheard, loopVars, diskVars
  <1>. QED
    BY <1>4, <1>5, <1>6, <1>7, <1>8, <1>9 DEF StatusInv

LEMMA CancelsKeeps ==
    ASSUME AgentStatusTypeOK, StatusInv, Cancels
    PROVE  StatusInv'
  <1>1. Step
    BY DEF Cancels, UserStep, Writes
  <1>2. /\ hooks = <<>> /\ Pending = "none" /\ pc = "select"
        /\ deaf => file = Truth /\ ~sessWake
    BY <1>1, StepFacts
  <1>3. Pending' = "none"
    BY <1>2, HookStays DEF Cancels, UserStep, Writes
  <1>4. UnreadOK'
    BY <1>2, <1>3 DEF StatusInv, UnreadOK, HookOK, Cancels, UserStep, Writes, Unheard, loopVars
  <1>5. HookOK'
    BY <1>2, <1>3 DEF StatusInv, UnreadOK, HookOK, Cancels, UserStep, Writes, Unheard, loopVars
  <1>6. WorkOK'
    BY <1>2, <1>3 DEF StatusInv, WorkOK, UnreadOK, Cancels, UserStep, Writes, Unheard,
                      loopVars, Truth
  <1>7. RestOK'
    BY <1>2, <1>3 DEF StatusInv, UnreadOK, HookOK, RestOK, Asking, Cancels, UserStep, Writes,
                      Unheard, loopVars, Truth
  <1>8. AskOK'
    BY <1>2, <1>3 DEF StatusInv, UnreadOK, RestOK, AskOK, Asking, Cancels, UserStep, Writes,
                      Unheard, loopVars
  <1>9. SentOK'
    BY SentStays DEF StatusInv, Cancels, UserStep, Writes, Unheard, loopVars, diskVars
  <1>. QED
    BY <1>4, <1>5, <1>6, <1>7, <1>8, <1>9 DEF StatusInv

LEMMA CompactFailsKeeps ==
    ASSUME AgentStatusTypeOK, StatusInv, CompactFails
    PROVE  StatusInv'
  <1>1. Step
    BY DEF CompactFails, Writes
  <1>2. /\ hooks = <<>> /\ Pending = "none" /\ pc = "select"
        /\ deaf => file = Truth /\ ~sessWake
    BY <1>1, StepFacts
  <1>3. Pending' = "none"
    BY <1>2, HookStays DEF CompactFails, Writes
  <1>4. UnreadOK'
    BY <1>2, <1>3 DEF StatusInv, UnreadOK, HookOK, CompactFails, Writes, Unheard, loopVars
  <1>5. HookOK'
    BY <1>2, <1>3 DEF StatusInv, UnreadOK, HookOK, CompactFails, Writes, Unheard, loopVars
  <1>6. WorkOK'
    BY <1>2, <1>3 DEF StatusInv, WorkOK, UnreadOK, CompactFails, Writes, Unheard, loopVars,
                      Truth
  <1>7. RestOK'
    BY <1>2, <1>3 DEF StatusInv, UnreadOK, HookOK, RestOK, Asking, CompactFails, Writes,
                      Unheard, loopVars, Truth
  <1>8. AskOK'
    BY <1>2, <1>3 DEF StatusInv, UnreadOK, RestOK, AskOK, Asking, CompactFails, Writes,
                      Unheard, loopVars
  <1>9. SentOK'
    BY SentStays DEF StatusInv, CompactFails, Writes, Unheard, loopVars, diskVars
  <1>. QED
    BY <1>4, <1>5, <1>6, <1>7, <1>8, <1>9 DEF StatusInv

LEMMA BackgroundEndsKeeps ==
    ASSUME AgentStatusTypeOK, StatusInv, NEW s \in BOOLEAN, NEW a \in BOOLEAN,
           NEW again \in BOOLEAN, BackgroundEnds(s, a, again)
    PROVE  StatusInv'
  <1>1. Step
    BY DEF BackgroundEnds, Silent
  <1>2. /\ hooks = <<>> /\ Pending = "none" /\ pc = "select"
        /\ deaf => file = Truth /\ ~sessWake
    BY <1>1, StepFacts
  <1>3. Pending' = "none"
    BY <1>2, HookStays DEF BackgroundEnds, Silent
  <1>4. UnreadOK'
    BY <1>2, <1>3 DEF StatusInv, UnreadOK, HookOK, BackgroundEnds, Silent, Unheard, loopVars
  <1>5. HookOK'
    BY <1>2, <1>3 DEF StatusInv, UnreadOK, HookOK, BackgroundEnds, Silent, Unheard, loopVars
  <1>6. WorkOK'
    BY <1>2, <1>3 DEF StatusInv, WorkOK, UnreadOK, BackgroundEnds, Silent, Unheard, loopVars,
                      Truth
  <1>7. RestOK'
    BY <1>2, <1>3 DEF StatusInv, UnreadOK, HookOK, RestOK, Asking, BackgroundEnds, Silent,
                      Unheard, loopVars, Truth
  <1>8. AskOK'
    BY <1>2, <1>3 DEF StatusInv, UnreadOK, RestOK, AskOK, Asking, BackgroundEnds, Silent,
                      Unheard, loopVars
  <1>9. SentOK'
    BY SentStays DEF StatusInv, BackgroundEnds, Silent, Unheard, loopVars, diskVars
  <1>. QED
    BY <1>4, <1>5, <1>6, <1>7, <1>8, <1>9 DEF StatusInv

-----------------------------------------------------------------------------
(* What happens without a step of the agent keeps the invariant.            *)

LEMMA FlushesKeeps ==
    ASSUME AgentStatusTypeOK, StatusInv, Flushes
    PROVE  StatusInv'
  <1>1. Pending = "none" /\ Pending' = "none"
    BY NoHook, HookStays DEF Flushes, Silent
  <1>2. UnreadOK' /\ HookOK'
    BY <1>1 DEF StatusInv, UnreadOK, HookOK, Flushes, Silent, Unheard, loopVars
  <1>3. WorkOK' /\ RestOK' /\ AskOK'
    BY <1>1 DEF StatusInv, WorkOK, RestOK, AskOK, Asking, Flushes, Silent, Unheard, loopVars
  <1>4. SentOK'
    BY SentStays DEF StatusInv, Flushes, Unheard, loopVars, diskVars
  <1>. QED
    BY <1>2, <1>3, <1>4 DEF StatusInv

LEMMA WritesFileKeeps ==
    ASSUME AgentStatusTypeOK, StatusInv, NEW now \in {"busy", "shell", "idle", "torn"},
           WritesFile(now)
    PROVE  StatusInv'
  <1>1. Pending' = Pending
    BY HookStays DEF WritesFile
  <1>2. UnreadOK' /\ HookOK'
    BY <1>1 DEF StatusInv, UnreadOK, HookOK, WritesFile, Truth, agentVars, loopVars
  <1>3. WorkOK' /\ RestOK' /\ AskOK'
    BY <1>1 DEF StatusInv, WorkOK, RestOK, AskOK, Asking, WritesFile, agentVars, loopVars
  <1>4. SentOK'
    BY SentStays DEF StatusInv, WritesFile, loopVars, diskVars
  <1>. QED
    BY <1>2, <1>3, <1>4 DEF StatusInv

LEMMA LosesHookKeeps ==
    ASSUME AgentStatusTypeOK, StatusInv, LosesHook
    PROVE  StatusInv'
  <1>1. Pending \in {"PromptSubmit", "Stop"} /\ Pending' = "none" /\ deaf
    BY HookIsTaken DEF LosesHook
  <1>2. UnreadOK' /\ HookOK'
    BY <1>1 DEF StatusInv, UnreadOK, HookOK, LosesHook, agentVars, loopVars
  <1>3. WorkOK' /\ RestOK' /\ AskOK'
    BY <1>1 DEF StatusInv, HookOK, WorkOK, RestOK, AskOK, Asking, LosesHook, agentVars, loopVars
  <1>4. SentOK'
    BY SentStays DEF StatusInv, LosesHook, loopVars, diskVars
  <1>. QED
    BY <1>2, <1>3, <1>4 DEF StatusInv
-----------------------------------------------------------------------------
(* An iteration of the loop keeps the invariant.                            *)

\* What an iteration about any event leaves to its tail.
LEMMA SentAtTail ==
    ASSUME SentOK, Select, UNCHANGED diskVars,
           status \notin Asking /\ status' \in Asking => changed'
    PROVE  SentOK'
  BY DEF SentOK, LastSent, Select, diskVars

LEMMA AcceptsHookKeeps ==
    ASSUME AgentStatusTypeOK, StatusInv, AcceptsHook
    PROVE  StatusInv'
  <1>1. /\ Pending \in Hooks /\ Pending = Head(hooks) /\ Pending' = "none"
        /\ pc = "select" /\ pc' = "tail"
    BY HookIsTaken DEF AcceptsHook, Select
  <1>2. /\ status' = Started(Dispatch(Pending))
        /\ grace' = IF Dispatch(Pending) # "approval" THEN "none"
                    ELSE IF status # "approval" THEN "fresh" ELSE grace
        /\ IF Pending = "Stop" /\ Read = "busy" /\ status # "active"
            THEN astray' = TRUE ELSE astray' = astray
    BY <1>1 DEF AcceptsHook, Overrules
  <1>3. UnreadOK'
    BY <1>1, <1>2 DEF StatusInv, UnreadOK, AcceptsHook, Select, Started, Dispatch,
                      StatusAfterStop, StatusAfterCompact, Hooks, Statuses, Asking, Busy
  <1>4. HookOK'
    BY <1>1, <1>2 DEF StatusInv, HookOK, AcceptsHook, Select, Started, Dispatch, Hooks
  <1>5. WorkOK'
    BY <1>1, <1>2 DEF StatusInv, UnreadOK, WorkOK, AcceptsHook, Started, Dispatch,
                      StatusAfterStop, StatusAfterCompact, Read, Hooks
  <1>6. RestOK'
    BY <1>1, <1>2 DEF AgentStatusTypeOK, AgentTypes, StatusInv, UnreadOK, HookOK, RestOK,
                      AcceptsHook, Started, Dispatch, StatusAfterStop, StatusAfterCompact,
                      Read, Hooks, Asking
  <1>7. AskOK'
    BY <1>1, <1>2 DEF StatusInv, UnreadOK, HookOK, AskOK, AcceptsHook, Started, Dispatch, Hooks
  <1>8. SentOK'
    BY SentAtTail DEF StatusInv, AcceptsHook
  <1>. QED
    BY <1>3, <1>4, <1>5, <1>6, <1>7, <1>8 DEF StatusInv

LEMMA TranscriptChangedKeeps ==
    ASSUME AgentStatusTypeOK, StatusInv, TranscriptChanged
    PROVE  StatusInv'
  <1>1. Pending' = Pending /\ pc = "select" /\ pc' = "tail"
    BY HookStays DEF TranscriptChanged, Select
  <1>2. status # "starting" /\ status' = Scanned(Unasked)
    BY DEF StatusInv, UnreadOK, TranscriptChanged, Started, Scanned, Unasked
  <1>3. UnreadOK'
    BY <1>1, <1>2 DEF StatusInv, UnreadOK, TranscriptChanged, Select, Scanned, Unasked,
                      agentVars
  <1>4. HookOK'
    BY <1>1, <1>2 DEF StatusInv, HookOK, TranscriptChanged, Scanned, Unasked, agentVars
  <1>5. WorkOK'
    BY <1>1, <1>2 DEF StatusInv, UnreadOK, WorkOK, TranscriptChanged, Scanned, Unasked,
                      agentVars
  <1>6. RestOK'
    BY <1>1, <1>2 DEF StatusInv, UnreadOK, HookOK, RestOK, TranscriptChanged, Scanned, Unasked,
                      Asking, agentVars
  <1>7. AskOK'
    BY <1>1, <1>2 DEF StatusInv, UnreadOK, AskOK, TranscriptChanged, Scanned, Unasked, agentVars
  <1>8. status' \in Asking => status \in Asking
    BY <1>2 DEF Scanned, Unasked, Asking
  <1>9. SentOK'
    BY <1>8, SentAtTail DEF StatusInv, TranscriptChanged
  <1>. QED
    BY <1>3, <1>4, <1>5, <1>6, <1>7, <1>9 DEF StatusInv

LEMMA SessionFileChangedKeeps ==
    ASSUME AgentStatusTypeOK, StatusInv, SessionFileChanged
    PROVE  StatusInv'
  <1>1. Pending' = Pending /\ pc = "select" /\ pc' = "tail"
    BY HookStays DEF SessionFileChanged, Select
  <1>2. /\ status # "starting" /\ status' = Reconciled(status, activity')
        /\ activity' = IF status \in {"active", "idle", "compacted", "background"}
                       THEN Read ELSE "none"
    BY DEF StatusInv, UnreadOK, SessionFileChanged, Started
  <1>3. UnreadOK'
    BY <1>1, <1>2 DEF StatusInv, UnreadOK, SessionFileChanged, Reconciled, Read, agentVars
  <1>4. HookOK'
    BY <1>1, <1>2 DEF StatusInv, HookOK, SessionFileChanged, Reconciled, agentVars
  <1>5. WorkOK'
    BY <1>1, <1>2 DEF StatusInv, WorkOK, SessionFileChanged, Reconciled, Read, agentVars
  <1>6. RestOK'
    BY <1>1, <1>2 DEF StatusInv, RestOK, SessionFileChanged, Reconciled, Read, Asking, agentVars
  <1>7. AskOK'
    BY <1>1, <1>2 DEF StatusInv, AskOK, SessionFileChanged, Reconciled, agentVars
  <1>8. status' \in Asking => status \in Asking
    BY <1>2 DEF Reconciled, Asking
  <1>9. SentOK'
    BY <1>8, SentAtTail DEF StatusInv, SessionFileChanged
  <1>. QED
    BY <1>3, <1>4, <1>5, <1>6, <1>7, <1>9 DEF StatusInv

LEMMA DeadlineKeeps ==
    ASSUME AgentStatusTypeOK, StatusInv, Deadline
    PROVE  StatusInv'
  <1>1. Pending' = Pending /\ pc = "select" /\ pc' = "tail"
    BY HookStays DEF Deadline, Select, wordVars
  <1>2. status # "starting" /\ status' = status
    BY DEF StatusInv, UnreadOK, Deadline, Started
  <1>3. UnreadOK' /\ HookOK'
    BY <1>1, <1>2 DEF StatusInv, UnreadOK, HookOK, Deadline, agentVars, wordVars
  <1>4. WorkOK' /\ RestOK' /\ AskOK'
    BY <1>1, <1>2 DEF StatusInv, WorkOK, RestOK, AskOK, Asking, Deadline, agentVars, wordVars
  <1>5. SentOK'
    BY <1>2, SentAtTail DEF StatusInv, Deadline
  <1>. QED
    BY <1>3, <1>4, <1>5 DEF StatusInv

\* The end of an iteration publishes a question before it is shown.
LEMMA FinishesKeeps ==
    ASSUME AgentStatusTypeOK, StatusInv, Finishes
    PROVE  StatusInv'
  <1>1. Pending' = Pending /\ pc = "tail" /\ pc' = "select"
    BY HookStays DEF Finishes, wordVars
  <1>2. /\ status # "starting"
        /\ status' = IF Promoted THEN "active" ELSE status
        /\ Promoted => file = "busy" \/ sessWake
    BY <1>1 DEF StatusInv, UnreadOK, Finishes, Promoted
  <1>3. UnreadOK' /\ HookOK'
    BY <1>1, <1>2 DEF StatusInv, UnreadOK, HookOK, Finishes, Promoted, agentVars, wordVars
  <1>4. WorkOK' /\ RestOK' /\ AskOK'
    BY <1>1, <1>2 DEF StatusInv, WorkOK, RestOK, AskOK, Asking, Finishes, Promoted, agentVars,
                      wordVars
  <1>5. ASSUME status' \in Asking
        PROVE  LastSent' \in Asking
    <2>1. status' = status /\ ~Promoted
      BY <1>2, <1>5 DEF Asking
    <2>2. CASE before \in Asking /\ Marked(status', changed \/ Promoted) # "past"
      <3>1. LastSent \in Asking
        BY <1>1, <2>2 DEF StatusInv, SentOK
      <3>2. UNCHANGED <<updates, kept>>
        BY <2>2 DEF Finishes
      <3>. QED
        BY <3>1, <3>2 DEF LastSent
    <2>3. CASE Marked(status', changed \/ Promoted) = "past"
      <3>1. updates \in Seq(Statuses) /\ updates' = Append(updates, status')
        BY <2>3 DEF AgentStatusTypeOK, AgentTypes, WordTypes, LoopTypes, DiskTypes, Finishes
      <3>2. updates' # <<>> /\ updates'[Len(updates')] = status'
        BY <3>1
      <3>. QED
        BY <3>2, <1>5 DEF LastSent
    <2>4. CASE before \notin Asking
      <3>1. changed
        BY <1>1, <1>5, <2>1, <2>4 DEF StatusInv, SentOK
      <3>2. Marked(status', changed \/ Promoted) = "past"
        BY <3>1, <1>5, <2>4 DEF Marked
      <3>. QED
        BY <3>2, <2>3
    <2>. QED
      BY <2>2, <2>3, <2>4
  <1>6. SentOK'
    BY <1>1, <1>5 DEF SentOK
  <1>. QED
    BY <1>3, <1>4, <1>6 DEF StatusInv

LEMMA FlushIsDueKeeps ==
    ASSUME AgentStatusTypeOK, StatusInv, FlushIsDue
    PROVE  StatusInv'
  <1>1. Pending' = Pending
    BY HookStays DEF FlushIsDue, wordVars
  <1>2. UnreadOK' /\ HookOK'
    BY <1>1 DEF StatusInv, UnreadOK, HookOK, FlushIsDue, agentVars, wordVars
  <1>3. WorkOK' /\ RestOK' /\ AskOK'
    BY <1>1 DEF StatusInv, WorkOK, RestOK, AskOK, FlushIsDue, agentVars, wordVars
  <1>4. SentOK'
    BY SentStays DEF StatusInv, FlushIsDue, diskVars
  <1>. QED
    BY <1>2, <1>3, <1>4 DEF StatusInv

LEMMA GracePassesKeeps ==
    ASSUME AgentStatusTypeOK, StatusInv, GracePasses
    PROVE  StatusInv'
  <1>1. Pending' = Pending
    BY HookStays DEF GracePasses, wordVars
  <1>2. UnreadOK' /\ HookOK'
    BY <1>1 DEF StatusInv, UnreadOK, HookOK, GracePasses, agentVars, wordVars
  <1>3. WorkOK' /\ RestOK' /\ AskOK'
    BY <1>1 DEF StatusInv, WorkOK, RestOK, AskOK, GracePasses, agentVars, wordVars
  <1>4. SentOK'
    BY SentStays DEF StatusInv, GracePasses, diskVars
  <1>. QED
    BY <1>2, <1>3, <1>4 DEF StatusInv
-----------------------------------------------------------------------------
(* The drive writes what was sent, and forgets none of it.                  *)

LEMMA LastSentStays ==
    ASSUME AgentStatusTypeOK, NEW ok \in BOOLEAN, Persists(ok) \/ Retries(ok)
    PROVE  LastSent' = LastSent
  <1>1. CASE Retries(ok)
    BY <1>1 DEF Retries, Saves, LastSent
  <1>2. CASE Persists(ok)
    <2>1. /\ updates \in Seq(Statuses) /\ updates # <<>>
          /\ updates' = Tail(updates) /\ kept' = Head(updates)
      BY <1>2 DEF AgentStatusTypeOK, AgentTypes, WordTypes, LoopTypes, DiskTypes, Persists,
                  Saves
    <2>2. CASE Len(updates) = 1
      <3>1. updates' = <<>> /\ Head(updates) = updates[Len(updates)]
        BY <2>1, <2>2
      <3>. QED
        BY <3>1, <2>1 DEF LastSent
    <2>3. CASE Len(updates) # 1
      <3>1. /\ Len(updates) \in Nat /\ Len(updates) > 1
            /\ Len(updates') = Len(updates) - 1
        BY <2>1, <2>3
      <3>2. updates'[Len(updates')] = updates[Len(updates') + 1]
        BY <2>1, <3>1
      <3>3. updates' # <<>> /\ updates'[Len(updates')] = updates[Len(updates)]
        BY <3>1, <3>2
      <3>. QED
        BY <3>3, <2>1 DEF LastSent
    <2>. QED
      BY <2>2, <2>3
  <1>. QED
    BY <1>1, <1>2

LEMMA DriveKeeps ==
    ASSUME AgentStatusTypeOK, StatusInv, NEW ok \in BOOLEAN, Persists(ok) \/ Retries(ok)
    PROVE  StatusInv'
  <1>1. UNCHANGED <<agentVars, wordVars, loopVars>>
    BY DEF Persists, Retries, Saves
  <1>2. Pending' = Pending
    BY <1>1, HookStays DEF wordVars
  <1>3. UnreadOK' /\ HookOK'
    BY <1>1, <1>2 DEF StatusInv, UnreadOK, HookOK, agentVars, wordVars, loopVars
  <1>4. WorkOK' /\ RestOK' /\ AskOK'
    BY <1>1, <1>2 DEF StatusInv, WorkOK, RestOK, AskOK, agentVars, wordVars, loopVars
  <1>5. SentOK'
    BY <1>1, LastSentStays DEF StatusInv, SentOK, loopVars
  <1>. QED
    BY <1>3, <1>4, <1>5 DEF StatusInv

-----------------------------------------------------------------------------
(* The types.                                                               *)

LEMMA TypeInit ==
    ASSUME Init
    PROVE  AgentStatusTypeOK
  <1>1. /\ queued \in BOOLEAN /\ shell \in BOOLEAN /\ subagent \in BOOLEAN /\ astray \in BOOLEAN
        /\ deaf \in BOOLEAN /\ fsWake \in BOOLEAN /\ sessWake \in BOOLEAN
        /\ changed \in BOOLEAN /\ retry \in BOOLEAN
    BY Zenon DEF Init
  <1>2. steps \in 0..MaxSteps /\ lost \in 0..MaxLost /\ fails \in 0..MaxFails
    BY AgentStatusAssumption DEF Init
  <1>3. \E h \in Hooks : hooks = <<h>>
    BY DEF Init, Hooks
  <1>. QED
    BY <1>1, <1>2, <1>3 DEF Init, AgentStatusTypeOK, AgentTypes, WordTypes, LoopTypes,
                            DiskTypes, Statuses

\* A step of the agent has at most one hook wait.
LEMMA TypesStay ==
    /\ AgentTypes /\ UNCHANGED agentVars => AgentTypes'
    /\ WordTypes /\ UNCHANGED wordVars => WordTypes'
    /\ LoopTypes /\ UNCHANGED loopVars => LoopTypes'
    /\ DiskTypes /\ UNCHANGED diskVars => DiskTypes'
  <1>1. AgentTypes /\ UNCHANGED agentVars => AgentTypes'
    BY DEF AgentTypes, agentVars
  <1>2. WordTypes /\ UNCHANGED wordVars => WordTypes'
    BY DEF WordTypes, wordVars
  <1>3. LoopTypes /\ UNCHANGED loopVars => LoopTypes'
    BY DEF LoopTypes, loopVars
  <1>4. DiskTypes /\ UNCHANGED diskVars => DiskTypes'
    BY DEF DiskTypes, diskVars
  <1>. QED
    BY <1>1, <1>2, <1>3, <1>4

\* A step of the agent has at most one hook wait.
LEMMA AgentKeepsTypes ==
    ASSUME AgentStatusTypeOK, Agent
    PROVE  AgentStatusTypeOK'
  <1>1. UNCHANGED <<deaf, lost, file, sessWake, loopVars, diskVars>>
    BY DEF Agent, Submits, Queues, IsAnswered, TurnEnds, TurnFails, Cancels, Flushes,
           HasCompacted, CompactFails, UsesTool, BackgroundEnds, Asks, Compacts, Unheard
  <1>2. hooks' = <<>> \/ \E h \in Hooks : hooks' = <<h>>
    <2>1. ASSUME NEW h \in Hooks, hooks = <<>>, Fires(h)
          PROVE  \E g \in Hooks : hooks' = <<g>>
      BY <2>1, HookFires
    <2>2. hooks = <<>>
      BY DEF Agent, Submits, Queues, IsAnswered, TurnEnds, TurnFails, Cancels, Flushes,
             HasCompacted, CompactFails, UsesTool, BackgroundEnds, Asks, Compacts, UserStep,
             Step
    <2>3. (\E h \in Hooks : Fires(h)) \/ hooks' = hooks
      BY DEF Agent, Submits, Queues, IsAnswered, TurnEnds, TurnFails, Cancels, Flushes,
             HasCompacted, CompactFails, UsesTool, BackgroundEnds, Asks, Compacts, Silent,
             Hooks
    <2>. QED
      BY <2>1, <2>2, <2>3
  <1>3. lines' \subseteq {"text", "interrupted", "compactFailed"} /\ fsWake' \in BOOLEAN
    BY DEF AgentStatusTypeOK, WordTypes, Agent, Submits, Queues, IsAnswered, TurnEnds,
           TurnFails, Cancels, Flushes, HasCompacted, CompactFails, UsesTool, BackgroundEnds,
           Asks, Compacts, Silent, Writes
  <1>4. WordTypes'
    BY <1>1, <1>2, <1>3 DEF AgentStatusTypeOK, WordTypes
  <1>5. turn' \in {"rest", "work", "ask", "decide", "compact", "auto"} /\ steps' \in 0..MaxSteps
    BY AgentStatusAssumption DEF AgentStatusTypeOK, AgentTypes, Agent, Submits, Queues,
                                 IsAnswered, TurnEnds, TurnFails, Cancels, Flushes,
                                 HasCompacted, CompactFails, UsesTool, BackgroundEnds, Asks,
                                 Compacts, Quietly, UserStep, Step
  <1>6. queued' \in BOOLEAN /\ shell' \in BOOLEAN /\ subagent' \in BOOLEAN /\ astray' \in BOOLEAN
    BY Zenon DEF AgentStatusTypeOK, AgentTypes, Agent, Submits, Queues, IsAnswered, TurnEnds,
                 TurnFails, Cancels, Flushes, HasCompacted, CompactFails, UsesTool,
                 BackgroundEnds, Asks, Compacts, Quietly
  <1>. QED
    BY <1>1, <1>4, <1>5, <1>6, TypesStay DEF AgentStatusTypeOK, AgentTypes

LEMMA LoopKeepsTypes ==
    ASSUME AgentStatusTypeOK, Loop
    PROVE  AgentStatusTypeOK'
  <1>1. CASE AcceptsHook
    <2>1. Pending \in Hooks /\ Pending = Head(hooks) /\ hooks' = <<>>
      BY <1>1, HookIsTaken DEF AcceptsHook
    <2>2. status' \in Statuses /\ grace' \in {"none", "fresh", "past"}
      BY <1>1, <2>1 DEF AgentStatusTypeOK, LoopTypes, AcceptsHook, Started, Dispatch,
                        StatusAfterStop, StatusAfterCompact, Hooks, Statuses, Asking, Busy
    <2>3. LoopTypes'
      BY <1>1, <2>2 DEF AgentStatusTypeOK, LoopTypes, AcceptsHook, Select
    <2>4. WordTypes'
      BY <1>1, <2>1 DEF AgentStatusTypeOK, WordTypes, AcceptsHook
    <2>5. AgentTypes'
      BY <1>1 DEF AgentStatusTypeOK, AgentTypes, AcceptsHook
    <2>. QED
      BY <1>1, <2>3, <2>4, <2>5, TypesStay DEF AgentStatusTypeOK, AcceptsHook
  <1>2. CASE TranscriptChanged
    <2>1. status' \in Statuses /\ changed' \in BOOLEAN
      BY <1>2 DEF AgentStatusTypeOK, LoopTypes, TranscriptChanged, Started, Scanned, Unasked,
                  Statuses, Asking, Busy
    <2>2. LoopTypes'
      BY <1>2, <2>1 DEF AgentStatusTypeOK, LoopTypes, TranscriptChanged, Select
    <2>3. WordTypes'
      BY <1>2 DEF AgentStatusTypeOK, WordTypes, TranscriptChanged
    <2>. QED
      BY <1>2, <2>2, <2>3, TypesStay DEF AgentStatusTypeOK, TranscriptChanged
  <1>3. CASE SessionFileChanged
    <2>1. activity' \in {"none", "busy", "shell", "idle"}
      BY <1>3 DEF AgentStatusTypeOK, WordTypes, SessionFileChanged, Read
    <2>2. status' \in Statuses /\ changed' \in BOOLEAN
      BY <1>3 DEF AgentStatusTypeOK, LoopTypes, SessionFileChanged, Started, Reconciled,
                  Statuses, Asking, Busy
    <2>3. LoopTypes'
      BY <1>3, <2>1, <2>2 DEF AgentStatusTypeOK, LoopTypes, SessionFileChanged, Select
    <2>4. WordTypes'
      BY <1>3 DEF AgentStatusTypeOK, WordTypes, SessionFileChanged
    <2>. QED
      BY <1>3, <2>3, <2>4, TypesStay DEF AgentStatusTypeOK, SessionFileChanged
  <1>4. CASE Deadline
    <2>1. status' \in Statuses /\ changed' \in BOOLEAN
      BY <1>4 DEF AgentStatusTypeOK, LoopTypes, Deadline, Started, Statuses, Asking, Busy
    <2>2. LoopTypes'
      BY <1>4, <2>1 DEF AgentStatusTypeOK, LoopTypes, Deadline, Select
    <2>. QED
      BY <1>4, <2>2, TypesStay DEF AgentStatusTypeOK, Deadline
  <1>5. CASE Finishes
    <2>1. status' \in Statuses
      BY <1>5 DEF AgentStatusTypeOK, LoopTypes, Finishes, Statuses, Busy
    <2>2. throttle' \in {"clean", "armed", "past"}
      BY <1>5 DEF AgentStatusTypeOK, LoopTypes, Finishes, Marked
    <2>3. LoopTypes'
      BY <1>5, <2>1, <2>2 DEF AgentStatusTypeOK, LoopTypes, Finishes
    <2>4. updates' = updates \/ updates' = Append(updates, status')
      BY <1>5 DEF Finishes
    <2>5. DiskTypes'
      BY <1>5, <2>1, <2>4 DEF AgentStatusTypeOK, DiskTypes, Finishes
    <2>. QED
      BY <1>5, <2>3, <2>5, TypesStay DEF AgentStatusTypeOK, Finishes
  <1>. QED
    BY <1>1, <1>2, <1>3, <1>4, <1>5 DEF Loop

LEMMA DriveKeepsTypes ==
    ASSUME AgentStatusTypeOK, NEW ok \in BOOLEAN, Persists(ok) \/ Retries(ok)
    PROVE  AgentStatusTypeOK'
  <1>1. UNCHANGED <<agentVars, wordVars, loopVars>>
    BY DEF Persists, Retries, Saves
  <1>2. updates' \in Seq(Statuses) /\ kept' \in Statuses
    BY DEF AgentStatusTypeOK, DiskTypes, Persists, Retries, Saves
  <1>3. row' \in {row, kept'} /\ retry' = ~ok
    BY DEF Persists, Retries, Saves
  <1>4. fails' = fails \/ (fails < MaxFails /\ fails' = fails + 1)
    BY DEF Persists, Retries, Saves
  <1>5. DiskTypes'
    BY <1>2, <1>3, <1>4, AgentStatusAssumption DEF AgentStatusTypeOK, DiskTypes
  <1>. QED
    BY <1>1, <1>5, TypesStay DEF AgentStatusTypeOK

LEMMA TypeStep ==
    ASSUME AgentStatusTypeOK, [Next]_statusVars
    PROVE  AgentStatusTypeOK'
  <1>1. CASE LosesHook
    <2>1. hooks' = <<>>
      BY <1>1, HookIsTaken DEF LosesHook
    <2>2. WordTypes'
      BY <1>1, <2>1, AgentStatusAssumption DEF AgentStatusTypeOK, WordTypes, LosesHook
    <2>. QED
      BY <1>1, <2>2, TypesStay DEF AgentStatusTypeOK, LosesHook
  <1>2. ASSUME NEW now \in {"busy", "shell", "idle", "torn"}, WritesFile(now)
        PROVE  AgentStatusTypeOK'
    <2>1. WordTypes'
      BY <1>2 DEF AgentStatusTypeOK, WordTypes, WritesFile
    <2>. QED
      BY <1>2, <2>1, TypesStay DEF AgentStatusTypeOK, WritesFile
  <1>3. CASE FlushIsDue \/ GracePasses
    <2>1. LoopTypes'
      BY <1>3 DEF AgentStatusTypeOK, LoopTypes, FlushIsDue, GracePasses
    <2>. QED
      BY <1>3, <2>1, TypesStay DEF AgentStatusTypeOK, FlushIsDue, GracePasses
  <1>4. CASE UNCHANGED statusVars
    BY <1>4, TypesStay DEF AgentStatusTypeOK, statusVars
  <1>. QED
    BY <1>1, <1>2, <1>3, <1>4, AgentKeepsTypes, LoopKeepsTypes, DriveKeepsTypes DEF Next, Drive
-----------------------------------------------------------------------------
(* The theorems.                                                            *)

LEMMA StatusInit ==
    ASSUME Init
    PROVE  StatusInv
  <1>1. Pending = "SessionStart"
    BY DEF Init, Pending
  <1>. QED
    BY <1>1 DEF Init, StatusInv, UnreadOK, HookOK, WorkOK, RestOK, AskOK, SentOK, Asking

LEMMA StatusStep ==
    ASSUME AgentStatusTypeOK, StatusInv, [Next]_statusVars
    PROVE  StatusInv'
  <1>1. CASE Agent
    BY <1>1, SubmitsKeeps, QueuesKeeps, IsAnsweredKeeps, TurnEndsKeeps, TurnFailsKeeps,
       CancelsKeeps, FlushesKeeps, HasCompactedKeeps, CompactFailsKeeps, UsesToolKeeps,
       BackgroundEndsKeeps, AsksKeeps, CompactsKeeps
       DEF Agent
  <1>2. CASE Loop
    BY <1>2, AcceptsHookKeeps, TranscriptChangedKeeps, SessionFileChangedKeeps, DeadlineKeeps,
       FinishesKeeps
       DEF Loop
  <1>3. CASE UNCHANGED statusVars
    <2>1. Pending' = Pending /\ LastSent' = LastSent
      BY <1>3 DEF Pending, LastSent, statusVars, wordVars, diskVars
    <2>. QED
      BY <1>3, <2>1 DEF StatusInv, UnreadOK, HookOK, WorkOK, RestOK, AskOK, SentOK, statusVars,
                        agentVars, wordVars, loopVars, diskVars
  <1>. QED
    BY <1>1, <1>2, <1>3, LosesHookKeeps, WritesFileKeeps, FlushIsDueKeeps, GracePassesKeeps,
       DriveKeeps
       DEF Next, Drive

\* Every account the launcher has of a turn, and every copy of its status, has
\* its type.
THEOREM AgentStatusTypeCorrect == Spec => []AgentStatusTypeOK
  <1>. QED
    BY TypeInit, TypeStep, PTL DEF Spec

\* Whatever of hook, transcript and session file is still to be read makes up
\* for what the row does not say, whichever came first.
THEOREM AccountsMakeUp == Spec => [](AgentStatusTypeOK /\ StatusInv)
  <1>. QED
    BY TypeInit, TypeStep, StatusInit, StatusStep, PTL DEF Spec

\* An agent that works is never shown at rest for good, in runs of any length
\* (status_after_stop, reconcile_activity, promote_stale_background).
THEOREM WorkIsNeverMissed == Spec => []WorkIsShown
  <1>1. AgentStatusTypeOK /\ StatusInv => WorkIsShown
    BY NoHook DEF AgentStatusTypeOK, LoopTypes, StatusInv, UnreadOK, WorkOK, WorkIsShown,
                  Settled, Statuses
  <1>. QED
    BY <1>1, AccountsMakeUp, PTL

\* An agent at rest is never shown at work for good, and the shell it left is
\* shown (status_after_stop, reconcile_activity, rescan_transcript).
THEOREM RestIsNeverMissed == Spec => []RestIsShown
  <1>1. AgentStatusTypeOK /\ StatusInv => RestIsShown
    BY NoHook DEF AgentStatusTypeOK, LoopTypes, StatusInv, UnreadOK, RestOK, RestIsShown,
                  Settled, Truth, Statuses, Asking, Busy
  <1>. QED
    BY <1>1, AccountsMakeUp, PTL

\* A question is on the row for as long as it is asked, and what asks is
\* published in the iteration that shows it (on_transcript_changed's grace,
\* WriteThrottle::mark).
THEOREM AskIsNeverHeldBack == Spec => []AskIsSent
  <1>1. AgentStatusTypeOK /\ StatusInv => AskIsSent
    BY NoHook DEF StatusInv, AskOK, SentOK, AskIsSent, Heard, Asking
  <1>. QED
    BY <1>1, AccountsMakeUp, PTL
==============================================================================
