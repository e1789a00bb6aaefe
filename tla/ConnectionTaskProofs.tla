------------------------ MODULE ConnectionTaskProofs ------------------------
(***************************************************************************)
(* For any calls, events and cap of the backoff: what the task remembers   *)
(* from attempt to attempt is true, a link that flaps is dialled at        *)
(* growing intervals, and ConnectionTask implements CallOnce.              *)
(*                                                                         *)
(* The refinement needs to know where a call is (Once): in the channel, on *)
(* its way on this connection, on its way on one that is gone, or run; in  *)
(* one of these places at most, and once.  No step takes it back: what a   *)
(* connection had written is dropped with it.                              *)
(***************************************************************************)
EXTENDS ConnectionTask, TLAPS

Item == Calls \cup {Probe, "stale"}

\* The calls in a channel.
Members(q) == {c \in Calls : \E i \in 1..Len(q) : q[i] = c}

\* No call is in it twice.
Fresh(q) == \A i, j \in 1..Len(q) : q[i] = q[j] /\ q[i] \in Calls => i = j

Unsent == {"idle", "checked", "refused"}

Once ==
    /\ Fresh(queue)
    /\ runs \in [Calls -> {0, 1}]
    /\ \A c \in Calls :
        /\ c \in Members(queue) => c \notin wire \cup late \cup replies
        /\ c \in wire => c \notin late
        /\ c \in Members(queue) \cup wire \cup late => runs[c] = 0
        /\ c \in replies => runs[c] = 1
        /\ call[c] \in Unsent =>
              c \notin Members(queue) \cup wire \cup late \cup replies /\ runs[c] = 0

\* The wait has grown with every link that was lost young.
Paced ==
    /\ Flapping
    /\ pc = "handshake" => ~healthy
    /\ pc = "serving" /\ healthy => waits = 0

Inv == ConnectionTypeOK /\ MemoryIsTrue /\ Paced /\ Once

------------------------------------------------------------------------------
(* The channel *)

\* A request that is sent.
LEMMA AppendItem ==
    ASSUME NEW q \in Seq(Item), NEW x \in Item
    PROVE  /\ Append(q, x) \in Seq(Item)
           /\ Members(Append(q, x)) = Members(q) \cup ({x} \cap Calls)
           /\ Fresh(q) /\ x \notin Members(q) => Fresh(Append(q, x))
<1>1. Append(q, x) \in Seq(Item) /\ Len(Append(q, x)) = Len(q) + 1 /\ Len(q) \in Nat
  OBVIOUS
<1>2. \A i \in 1..(Len(q) + 1) : Append(q, x)[i] = IF i = Len(q) + 1 THEN x ELSE q[i]
  OBVIOUS
<1>3. Members(Append(q, x)) = Members(q) \cup ({x} \cap Calls)
  BY <1>1, <1>2 DEF Members
<1>4. ASSUME Fresh(q), x \notin Members(q) PROVE Fresh(Append(q, x))
  BY <1>1, <1>2, <1>4 DEF Members, Fresh
<1>5. QED
  BY <1>1, <1>3, <1>4

\* A request that is taken.
LEMMA TakeItem ==
    ASSUME NEW q \in Seq(Item), q # <<>>
    PROVE  /\ Head(q) \in Item /\ Tail(q) \in Seq(Item)
           /\ Members(Tail(q)) \subseteq Members(q)
           /\ Head(q) \in Calls => Head(q) \in Members(q)
           /\ Fresh(q) => Fresh(Tail(q)) /\ Head(q) \notin Members(Tail(q))
<1>1. Tail(q) \in Seq(Item) /\ Len(Tail(q)) = Len(q) - 1 /\ Len(q) \in Nat \ {0}
  OBVIOUS
<1>2. \A i \in 1..(Len(q) - 1) : Tail(q)[i] = q[i + 1]
  OBVIOUS
<1>3. Head(q) = q[1] /\ Head(q) \in Item /\ 1 \in 1..Len(q)
  OBVIOUS
<1>4. Members(Tail(q)) \subseteq Members(q)
  BY <1>1, <1>2 DEF Members
<1>5. ASSUME Fresh(q) PROVE Fresh(Tail(q)) /\ Head(q) \notin Members(Tail(q))
  BY <1>1, <1>2, <1>3, <1>5 DEF Members, Fresh
<1>6. QED
  BY <1>1, <1>3, <1>4, <1>5 DEF Members

\* A check that ends.
LEMMA EndProbe ==
    ASSUME NEW q \in Seq(Item)
    PROVE  /\ WithoutProbe(q) \in Seq(Item)
           /\ Members(WithoutProbe(q)) = Members(q)
           /\ Fresh(q) => Fresh(WithoutProbe(q))
<1>1. Len(q) \in Nat /\ DOMAIN q = 1..Len(q)
  OBVIOUS
<1>2. /\ WithoutProbe(q) \in Seq(Item) /\ Len(WithoutProbe(q)) = Len(q)
      /\ \A i \in 1..Len(q) : WithoutProbe(q)[i] = IF q[i] = Probe THEN "stale" ELSE q[i]
  BY <1>1 DEF WithoutProbe, Item
<1>3. QED
  BY <1>1, <1>2, ConnectionTaskAssumption DEF Members, Fresh

\* An empty channel.
LEMMA NoItems == <<>> \in Seq(Item) /\ Members(<<>>) = {} /\ Fresh(<<>>)
  BY DEF Members, Fresh

------------------------------------------------------------------------------
\* The task is idle, and nobody has called.
LEMMA TaskInit == Init => Inv
<1> SUFFICES ASSUME Init PROVE Inv
  OBVIOUS
<1>1. ConnectionTypeOK
  <2>1. queue \in Seq(Calls \cup {Probe, "stale"})
    BY NoItems DEF Init, Item
  <2>2. call \in [Calls -> {"idle", "refused", "checked", "open", "answered", "failed"}]
    BY DEF Init
  <2>3. {standing, gate, probeCache, healthy, event, probing, recovery, retired} \subseteq BOOLEAN
    BY DEF Init
  <2>4. QED
    BY <2>1, <2>2, <2>3, ConnectionTaskAssumption DEF Init, ConnectionTypeOK
<1>2. MemoryIsTrue /\ Paced
  BY DEF Init, MemoryIsTrue, Paced, Flapping
<1>3. Once
  BY NoItems DEF Init, Once
<1>4. QED
  BY <1>1, <1>2, <1>3 DEF Inv

\* What a lost connection drops.
LEMMA EndsTypes ==
    ASSUME ConnectionTypeOK, Ends
    PROVE  /\ queue' \in Seq(Item)
           /\ call' \in [Calls -> {"idle", "refused", "checked", "open", "answered", "failed"}]
           /\ pending' = {} /\ replies' = {} /\ wire' = {} /\ probing' = FALSE
           /\ late' \subseteq Calls
  BY EndProbe DEF ConnectionTypeOK, Ends, Dropped, Item

\* The backoff and the count of the waits stay within the cap.
LEMMA BackOffTypes ==
    ASSUME ConnectionTypeOK, NEW from \in 0..BackoffCap, BackOff(from)
    PROVE  /\ backoff' \in 0..BackoffCap /\ waits' \in 0..BackoffCap
           /\ from >= waits => backoff' >= waits'
  BY ConnectionTaskAssumption DEF ConnectionTypeOK, BackOff

\* Types.
LEMMA TypeStep == ConnectionTypeOK /\ [Next]_vars => ConnectionTypeOK'
<1> SUFFICES ASSUME ConnectionTypeOK, [Next]_vars PROVE ConnectionTypeOK'
  OBVIOUS
<1> USE ConnectionTaskAssumption
    DEF ConnectionTypeOK, Down, taskVars, watchVars, callVars, hostVars
<1>1. CASE Dial \/ Connects \/ Connected \/ Ages \/ (\E d \in BOOLEAN : SetupDone(d))
  <2>1. CASE Dial
    BY <2>1 DEF Dial
  <2>2. CASE Connects
    BY <2>2 DEF Connects
  <2>3. CASE Connected
    BY <2>3 DEF Connected
  <2>4. CASE Ages
    BY <2>4 DEF Ages
  <2>5. CASE (\E d \in BOOLEAN : SetupDone(d))
    BY <2>5 DEF SetupDone
  <2>6. QED
    BY <1>1, <2>1, <2>2, <2>3, <2>4, <2>5
<1>2. CASE ConnectFails \/ (\E b, d \in BOOLEAN : SetupFails(b, d))
  <2>1. BackOff(backoff)
    BY <1>2 DEF ConnectFails, SetupFails
  <2>2. QED
    BY <1>2, <2>1, BackOffTypes DEF ConnectFails, SetupFails
<1>3. CASE ServeEnds
  <2>1. Ends
    BY <1>3 DEF ServeEnds, Lost, Stalls, HandshakeFails
  <2>2. /\ queue' \in Seq(Item)
        /\ call' \in [Calls -> {"idle", "refused", "checked", "open", "answered", "failed"}]
        /\ pending' = {} /\ replies' = {} /\ wire' = {} /\ probing' = FALSE
        /\ late' \subseteq Calls
    BY <2>1, EndsTypes
  <2>3. backoff' \in 0..BackoffCap /\ waits' \in 0..BackoffCap
    BY <1>3, BackOffTypes DEF ServeEnds, Lost, Stalls, HandshakeFails
  <2>4. QED
    BY <1>3, <2>2, <2>3 DEF ServeEnds, Lost, Stalls, HandshakeFails, Item
<1>4. CASE TakeRequest
  <2>1. Head(queue) \in Item /\ Tail(queue) \in Seq(Item)
    BY <1>4, TakeItem DEF TakeRequest, Item
  <2>2. CASE Closed(Head(queue))
    BY <1>4, <2>1, <2>2 DEF TakeRequest, Item
  <2>3. CASE ~Closed(Head(queue))
    BY <1>4, <2>1, <2>3 DEF TakeRequest, Written, Closed, Item
  <2>4. QED
    BY <2>2, <2>3
<1>5. ASSUME NEW r \in Calls \cup {Probe}, HostRuns(r) \/ ReplyArrives(r)
      PROVE  ConnectionTypeOK'
  <2>1. CASE HostRuns(r)
    BY <2>1 DEF HostRuns
  <2>2. CASE ReplyArrives(r)
    <3>1. call' \in [Calls -> {"idle", "refused", "checked", "open", "answered", "failed"}]
      BY <2>2 DEF ReplyArrives
    <3>2. {event', probing', recovery'} \subseteq BOOLEAN
      BY <2>2 DEF ReplyArrives
    <3>3. QED
      BY <2>2, <3>1, <3>2 DEF ReplyArrives
  <2>3. QED
    BY <1>5, <2>1, <2>2
<1>6. CASE NetworkChanges \/ WaitWoken \/ WaitEnds \/ Retire
  <2>1. CASE NetworkChanges
    <3>1. events' \in 0..MaxEvents /\ event' \in BOOLEAN
      BY <2>1 DEF NetworkChanges
    <3>2. QED
      BY <2>1, <3>1 DEF NetworkChanges
  <2>2. CASE WaitWoken
    <3>1. {event', recovery'} \subseteq BOOLEAN /\ backoff' = 0 /\ waits' = 0
      BY <2>2 DEF WaitWoken
    <3>2. QED
      BY <2>2, <3>1 DEF WaitWoken
  <2>3. CASE WaitEnds
    BY <2>3 DEF WaitEnds
  <2>4. CASE Retire
    BY <2>4 DEF Retire
  <2>5. QED
    BY <1>6, <2>1, <2>2, <2>3, <2>4
<1>7. CASE ProbeStarts
  <2>1. queue' \in Seq(Item)
    BY <1>7, AppendItem DEF ProbeStarts, Item
  <2>2. QED
    BY <1>7, <2>1 DEF ProbeStarts, Item
<1>8. CASE WaitTakes
  <2>1. queue' \in Seq(Item)
    BY <1>8, TakeItem DEF WaitTakes, Item
  <2>2. QED
    BY <1>8, <2>1 DEF WaitTakes, Dropped, Item
<1>9. ASSUME NEW c \in Calls, CheckState(c) \/ GiveUp(c) \/ HostRunsLate(c)
      PROVE  ConnectionTypeOK'
  BY <1>9 DEF CheckState, GiveUp, HostRunsLate
<1>10. ASSUME NEW c \in Calls, SendRequest(c) PROVE ConnectionTypeOK'
  <2>1. queue' \in Seq(Item)
    BY <1>10, AppendItem DEF SendRequest, Item
  <2>2. QED
    BY <1>10, <2>1 DEF SendRequest, Item
<1>11. CASE AbortLands
  BY <1>11, NoItems DEF AbortLands, Item
<1>12. CASE UNCHANGED vars
  BY <1>12 DEF vars
<1>13. QED
  BY <1>1, <1>2, <1>3, <1>4, <1>5, <1>6, <1>7, <1>8, <1>9, <1>10, <1>11, <1>12
     DEF Next, SetupEnds, ConnectEnds

\* Where the task is, and what it keeps and knows, is changed by these only.
TaskStep ==
    \/ Dial \/ SetupEnds \/ ConnectEnds \/ Connected \/ Ages \/ ServeEnds
    \/ NetworkChanges \/ ProbeStarts \/ WaitWoken \/ WaitEnds \/ Retire \/ AbortLands

\* A step of a caller, of the host, or of a request leaves the task where it is.
LEMMA OtherSteps ==
    ASSUME ConnectionTypeOK, [Next]_vars, ~TaskStep
    PROVE  /\ UNCHANGED <<taskVars, retired>>
           /\ UNCHANGED <<probing, recovery>> \/ ~recovery'
  BY DEF Next, TaskStep, vars, taskVars, watchVars, TakeRequest, HostRuns, ReplyArrives,
     WaitTakes, CheckState, SendRequest, GiveUp, HostRunsLate

\* A recovery ends with its check, and a diagnosis with the next attempt.
LEMMA MemoryStep ==
    ConnectionTypeOK /\ MemoryIsTrue /\ [Next]_vars => MemoryIsTrue'
<1> SUFFICES ASSUME ConnectionTypeOK, MemoryIsTrue, [Next]_vars PROVE MemoryIsTrue'
  OBVIOUS
<1> USE DEF MemoryIsTrue, taskVars, watchVars
<1>1. CASE ~TaskStep
  BY <1>1, OtherSteps
<1>2. CASE Dial \/ SetupEnds \/ ConnectEnds \/ Connected \/ Ages
  BY <1>2 DEF ConnectionTypeOK, Dial, SetupEnds, SetupFails, SetupDone, ConnectEnds, ConnectFails,
     Connects, Connected, Ages
<1>3. CASE ServeEnds
  BY <1>3 DEF ServeEnds, Lost, Stalls, HandshakeFails
<1>4. CASE NetworkChanges \/ ProbeStarts \/ WaitWoken \/ WaitEnds \/ Retire \/ AbortLands
  BY <1>4 DEF NetworkChanges, ProbeStarts, WaitWoken, WaitEnds, Retire, AbortLands
<1>5. QED
  BY <1>1, <1>2, <1>3, <1>4 DEF TaskStep

\* A wait is counted, and made longer, together; what takes the count back to
\* zero is an event, a check, or a link that lasted.
LEMMA PacedStep ==
    ConnectionTypeOK /\ Paced /\ [Next]_vars => Paced'
<1> SUFFICES ASSUME ConnectionTypeOK, Paced, [Next]_vars PROVE Paced'
  OBVIOUS
<1> USE DEF Paced, Flapping, taskVars
<1>1. CASE ~TaskStep
  BY <1>1, OtherSteps
<1>2. CASE Dial \/ Connects \/ Connected \/ Ages \/ (\E d \in BOOLEAN : SetupDone(d))
  BY <1>2 DEF ConnectionTypeOK, Dial, SetupDone, Connects, Connected, Ages
<1>3. CASE ConnectFails \/ (\E b, d \in BOOLEAN : SetupFails(b, d))
  <2>1. BackOff(backoff) /\ pc' = "waiting"
    BY <1>3 DEF ConnectFails, SetupFails
  <2>2. QED
    BY <2>1, BackOffTypes DEF ConnectionTypeOK
<1>4. CASE ServeEnds
  <2>1. CASE backoff' = 0 /\ waits' = 0 /\ pc' = "top"
    BY <2>1
  <2>2. CASE BackOff(backoff) /\ pc' = "waiting"
    BY <2>2, BackOffTypes DEF ConnectionTypeOK
  <2>3. CASE pc = "serving" /\ healthy /\ BackOff(0) /\ pc' = "waiting"
    BY <2>3, BackOffTypes, ConnectionTaskAssumption DEF ConnectionTypeOK
  <2>4. QED
    BY <1>4, <2>1, <2>2, <2>3 DEF ServeEnds, Lost, Stalls, HandshakeFails
<1>5. CASE NetworkChanges \/ ProbeStarts \/ WaitWoken \/ WaitEnds \/ Retire \/ AbortLands
  BY <1>5 DEF NetworkChanges, ProbeStarts, WaitWoken, WaitEnds, Retire, AbortLands
<1>6. QED
  BY <1>1, <1>2, <1>3, <1>4, <1>5 DEF TaskStep, SetupEnds, ConnectEnds

\* What a lost connection does to the calls: nothing is asked again, and what
\* was on its way is late.
LEMMA EndsCalls ==
    ASSUME ConnectionTypeOK, Once, Ends, runs' = runs
    PROVE  Once'
<1>1. queue \in Seq(Item)
  BY DEF ConnectionTypeOK, Item
<1>2. Fresh(queue)' /\ Members(queue') = Members(queue)
  BY <1>1, EndProbe DEF Ends, Once
<1>3. \A c \in Calls : call'[c] \in Unsent => call[c] \in Unsent
  BY DEF Ends, Dropped, ConnectionTypeOK, Unsent
<1>4. wire' = {} /\ replies' = {} /\ late' = late \cup (wire \cap Calls)
  BY DEF Ends
<1>5. QED
  BY <1>2, <1>3, <1>4 DEF Once

\* A call is in one place at most, and runs once.
LEMMA OnceStep ==
    ConnectionTypeOK /\ Once /\ [Next]_vars => Once'
<1> SUFFICES ASSUME ConnectionTypeOK, Once, [Next]_vars PROVE Once'
  OBVIOUS
<1>1. queue \in Seq(Item) /\ Once
  BY DEF ConnectionTypeOK, Item
<1>2. CASE UNCHANGED <<queue, call, hostVars>>
  BY <1>2 DEF Once, hostVars
<1>3. CASE ServeEnds
  BY <1>3, EndsCalls DEF ServeEnds, Lost, Stalls, HandshakeFails
<1>4. CASE TakeRequest
  <2>1. queue # <<>> /\ queue' = Tail(queue)
    BY <1>4 DEF TakeRequest, Written
  <2>2. /\ Members(queue') \subseteq Members(queue)
        /\ Head(queue) \in Calls => Head(queue) \in Members(queue)
        /\ Fresh(queue)' /\ Head(queue) \notin Members(queue')
    BY <1>1, <2>1, TakeItem DEF Once
  <2>3. UNCHANGED <<call, late, runs, replies>>
    BY <1>4 DEF TakeRequest
  <2>4. CASE UNCHANGED wire
    BY <2>2, <2>3, <2>4 DEF Once
  <2>5. CASE ~Closed(Head(queue)) /\ wire' = wire \cup {Head(queue)}
    <3>1. Head(queue) \in Calls => call[Head(queue)] \notin Unsent
      BY <2>5 DEF Closed, Unsent
    <3>2. QED
      BY <2>2, <2>3, <2>5, <3>1 DEF Once
  <2>6. QED
    BY <1>4, <2>4, <2>5 DEF TakeRequest, Written
<1>5. ASSUME NEW r \in Calls \cup {Probe}, HostRuns(r) PROVE Once'
  <2>1. /\ r \in wire /\ wire' = wire \ {r} /\ replies' = replies \cup {r}
        /\ runs' = IF r \in Calls THEN [runs EXCEPT ![r] = @ + 1] ELSE runs
        /\ UNCHANGED <<queue, call, late>>
    BY <1>5 DEF HostRuns, callVars
  <2>2. CASE r \in Calls
    <3>1. runs[r] = 0
      BY <2>1, <2>2 DEF Once
    <3>2. runs' = [runs EXCEPT ![r] = 1]
      BY <2>1, <2>2, <3>1
    <3>3. QED
      BY <2>1, <2>2, <3>1, <3>2 DEF Once
  <2>3. CASE r \notin Calls
    BY <2>1, <2>3 DEF Once
  <2>4. QED
    BY <2>2, <2>3
<1>6. ASSUME NEW r \in Calls \cup {Probe}, ReplyArrives(r) PROVE Once'
  <2>1. /\ replies' = replies \ {r} /\ UNCHANGED <<queue, wire, late, runs>>
        /\ \A c \in Calls : call'[c] \in Unsent => call[c] \in Unsent
    BY <1>6 DEF ReplyArrives, ConnectionTypeOK, Unsent
  <2>2. QED
    BY <2>1 DEF Once
<1>7. CASE ProbeStarts
  <2>1. queue' = Append(queue, Probe) /\ Probe \in Item /\ UNCHANGED <<call, hostVars>>
    BY <1>7 DEF ProbeStarts, Item
  <2>2. Members(queue') = Members(queue) /\ Fresh(queue)'
    BY <1>1, <2>1, AppendItem, ConnectionTaskAssumption DEF Once, Members
  <2>3. QED
    BY <2>1, <2>2 DEF Once, hostVars
<1>8. CASE WaitTakes
  <2>1. /\ queue # <<>> /\ queue' = Tail(queue) /\ UNCHANGED hostVars
        /\ \A c \in Calls : call'[c] \in Unsent => call[c] \in Unsent
    BY <1>8 DEF WaitTakes, Dropped, ConnectionTypeOK, Unsent
  <2>2. Members(queue') \subseteq Members(queue) /\ Fresh(queue)'
    BY <1>1, <2>1, TakeItem DEF Once
  <2>3. QED
    BY <2>1, <2>2 DEF Once, hostVars
<1>9. ASSUME NEW c \in Calls, CheckState(c) \/ GiveUp(c) PROVE Once'
  <2>1. /\ UNCHANGED <<queue, hostVars>>
        /\ \A d \in Calls : call'[d] \in Unsent => call[d] \in Unsent
    BY <1>9 DEF CheckState, GiveUp, ConnectionTypeOK, Unsent
  <2>2. QED
    BY <2>1 DEF Once, hostVars
<1>10. ASSUME NEW c \in Calls, SendRequest(c) PROVE Once'
  <2>1. call[c] \in Unsent /\ UNCHANGED hostVars
    BY <1>10 DEF SendRequest, Unsent
  <2>2. CASE UNCHANGED queue /\ call' = [call EXCEPT ![c] = "refused"]
    <3>1. \A d \in Calls : call'[d] \in Unsent => call[d] \in Unsent
      BY <2>1, <2>2 DEF ConnectionTypeOK, Unsent
    <3>2. QED
      BY <2>1, <2>2, <3>1 DEF Once, hostVars
  <2>3. CASE queue' = Append(queue, c) /\ call' = [call EXCEPT ![c] = "open"]
    <3>1. Members(queue') = Members(queue) \cup {c} /\ Fresh(queue)'
      BY <1>1, <2>1, <2>3, AppendItem DEF Once, Item
    <3>2. \A d \in Calls : call'[d] \in Unsent => d # c /\ call[d] \in Unsent
      BY <2>3 DEF ConnectionTypeOK, Unsent
    <3>3. QED
      BY <2>1, <3>1, <3>2 DEF Once, hostVars
  <2>4. QED
    BY <1>10, <2>2, <2>3 DEF SendRequest
<1>11. ASSUME NEW c \in Calls, HostRunsLate(c) PROVE Once'
  <2>1. /\ c \in late /\ late' = late \ {c} /\ runs' = [runs EXCEPT ![c] = @ + 1]
        /\ UNCHANGED <<queue, call, wire, replies>>
    BY <1>11 DEF HostRunsLate, callVars
  <2>2. runs[c] = 0
    BY <2>1 DEF Once
  <2>3. runs' = [runs EXCEPT ![c] = 1]
    BY <2>1, <2>2
  <2>4. QED
    BY <2>1, <2>2, <2>3 DEF Once
<1>12. CASE AbortLands
  <2>1. /\ queue' = <<>> /\ replies' = {} /\ wire' = {} /\ late' = late \cup (wire \cap Calls)
        /\ UNCHANGED runs /\ \A c \in Calls : call'[c] \in Unsent => call[c] \in Unsent
    BY <1>12 DEF AbortLands, ConnectionTypeOK, Unsent
  <2>2. Members(queue') = {} /\ Fresh(queue)'
    BY <2>1, NoItems
  <2>3. QED
    BY <2>1, <2>2 DEF Once
<1>13. CASE Dial \/ SetupEnds \/ ConnectEnds \/ Connected \/ Ages \/ NetworkChanges
            \/ WaitWoken \/ WaitEnds \/ Retire \/ UNCHANGED vars
  <2>1. UNCHANGED <<queue, call, hostVars>>
    BY <1>13 DEF Dial, SetupEnds, SetupFails, SetupDone, ConnectEnds, ConnectFails, Connects,
       Connected, Ages, NetworkChanges, WaitWoken, WaitEnds, Retire, vars, callVars
  <2>2. QED
    BY <1>2, <2>1
<1>14. QED
  BY <1>3, <1>4, <1>5, <1>6, <1>7, <1>8, <1>9, <1>10, <1>11, <1>12, <1>13 DEF Next

\* The inductive invariant holds in every state of every instance.
THEOREM TaskInvariant == Spec => []Inv
<1>1. Inv /\ [Next]_vars => Inv'
  BY TypeStep, MemoryStep, PacedStep, OnceStep DEF Inv
<1>2. QED
  BY TaskInit, <1>1, PTL DEF Spec

\* The task's state keeps its type, and nothing is on a connection that does not
\* serve.
THEOREM TaskTypeCorrect == Spec => []ConnectionTypeOK
<1>1. Inv => ConnectionTypeOK
  BY DEF Inv
<1>2. QED
  BY TaskInvariant, <1>1, PTL

\* What is kept over a lost link, a failed attempt or a check is true of the
\* connection that is served or dialled next.
THEOREM MemoryIsCorrect == Spec => []MemoryIsTrue
<1>1. Inv => MemoryIsTrue
  BY DEF Inv
<1>2. QED
  BY TaskInvariant, <1>1, PTL

\* Whatever becomes of the links, only one that lasted, or an event, shortens
\* the wait before the next.
THEOREM FlappingBacksOff == Spec => []Flapping
<1>1. Inv => Flapping
  BY DEF Inv, Paced
<1>2. QED
  BY TaskInvariant, <1>1, PTL

------------------------------------------------------------------------------
(* The refinement *)

\* What CallOnce calls status and gone.
Told == [c \in Calls |-> IF call[c] = "checked" THEN "idle" ELSE call[c]]
Gone == {c \in Calls : c \in wire \cup late \/ runs[c] > 0}

\* Calls that fail together, wherever they are.
LEMMA FailTogether ==
    ASSUME ConnectionTypeOK, Gone' = Gone, runs' = runs,
           DOMAIN call' = Calls, call' = [c \in Calls |-> call'[c]],
           \A c \in Calls : call'[c] # call[c] => call[c] = "open" /\ call'[c] = "failed"
    PROVE  Promise!Next
<1>1. PICK C \in SUBSET Calls : \A c \in Calls : c \in C <=> call'[c] # call[c]
  <2> DEFINE changed == {c \in Calls : call'[c] # call[c]}
  <2>1. changed \in SUBSET Calls /\ \A c \in Calls : c \in changed <=> call'[c] # call[c]
    OBVIOUS
  <2>2. QED
    BY <2>1
<1>2. \A c \in C : Told[c] = "open"
  BY <1>1 DEF Told
<1>3. Told' = [c \in Calls |-> IF c \in C THEN "failed" ELSE Told[c]]
  BY <1>1 DEF Told
<1>4. Promise!Fail(C)
  BY <1>2, <1>3 DEF Promise!Fail, Told, Gone
<1>5. QED
  BY <1>4 DEF Promise!Next

\* One call is told something.
LEMMA ToldOne ==
    ASSUME ConnectionTypeOK, NEW c \in Calls, NEW s \in {"refused", "open", "answered"},
           call' = [call EXCEPT ![c] = s]
    PROVE  Told' = [Told EXCEPT ![c] = s]
  BY DEF ConnectionTypeOK, Told

\* What was on its way is late when the connection is gone.
LEMMA GoneStays ==
    ASSUME wire' = {}, late' = late \cup (wire \cap Calls), runs' = runs
    PROVE  Gone' = Gone
  BY DEF Gone

\* Every step is a step of CallOnce, or changes nothing it speaks of.
LEMMA PromiseStep ==
    Inv /\ [Next]_vars => [Promise!Next]_<<Told, Gone, runs>>
<1> SUFFICES ASSUME Inv, [Next]_vars PROVE [Promise!Next]_<<Told, Gone, runs>>
  OBVIOUS
<1>1. ConnectionTypeOK /\ Once /\ queue \in Seq(Item)
  BY DEF Inv, ConnectionTypeOK, Item
<1>2. CASE UNCHANGED <<call, wire, late, runs>>
  BY <1>2 DEF Told, Gone
<1>3. CASE ServeEnds
  <2>1. Ends /\ runs' = runs
    BY <1>3 DEF ServeEnds, Lost, Stalls, HandshakeFails
  <2>2. Gone' = Gone
    BY <2>1, GoneStays DEF Ends
  <2>3. /\ DOMAIN call' = Calls /\ call' = [c \in Calls |-> call'[c]]
        /\ \A c \in Calls : call'[c] # call[c] => call[c] = "open" /\ call'[c] = "failed"
    BY <2>1 DEF Ends, Dropped
  <2>4. QED
    BY <1>1, <2>1, <2>2, <2>3, FailTogether
<1>4. CASE AbortLands
  <2>1. Gone' = Gone /\ runs' = runs
    BY <1>4, GoneStays DEF AbortLands
  <2>2. /\ DOMAIN call' = Calls /\ call' = [c \in Calls |-> call'[c]]
        /\ \A c \in Calls : call'[c] # call[c] => call[c] = "open" /\ call'[c] = "failed"
    BY <1>4 DEF AbortLands
  <2>3. QED
    BY <1>1, <2>1, <2>2, FailTogether
<1>5. CASE WaitTakes
  <2>1. Gone' = Gone /\ runs' = runs
    BY <1>5 DEF WaitTakes, hostVars, Gone
  <2>2. /\ DOMAIN call' = Calls /\ call' = [c \in Calls |-> call'[c]]
        /\ \A c \in Calls : call'[c] # call[c] => call[c] = "open" /\ call'[c] = "failed"
    BY <1>5 DEF WaitTakes, Dropped
  <2>3. QED
    BY <1>1, <2>1, <2>2, FailTogether
<1>6. ASSUME NEW c \in Calls, GiveUp(c) PROVE Promise!Next
  <2>1. Gone' = Gone /\ runs' = runs
    BY <1>6 DEF GiveUp, hostVars, Gone
  <2>2. /\ DOMAIN call' = Calls /\ call' = [d \in Calls |-> call'[d]]
        /\ \A d \in Calls : call'[d] # call[d] => call[d] = "open" /\ call'[d] = "failed"
    BY <1>1, <1>6 DEF GiveUp, ConnectionTypeOK
  <2>3. QED
    BY <1>1, <2>1, <2>2, FailTogether
<1>7. CASE TakeRequest
  <2>1. queue # <<>> /\ UNCHANGED <<call, late, runs>>
    BY <1>7 DEF TakeRequest
  <2>2. CASE UNCHANGED wire
    BY <1>2, <2>1, <2>2
  <2>3. CASE ~Closed(Head(queue)) /\ wire' = wire \cup {Head(queue)}
    <3>1. CASE Head(queue) \notin Calls
      BY <2>1, <2>3, <3>1 DEF Told, Gone
    <3>2. CASE Head(queue) \in Calls
      <4>1. PICK c \in Calls : c = Head(queue)
        BY <3>2
      <4>2. c \in Members(queue)
        BY <1>1, <2>1, <4>1, TakeItem
      <4>3. c \notin Gone /\ Gone' = Gone \cup {c}
        BY <1>1, <2>1, <2>3, <4>1, <4>2 DEF Once, Gone
      <4>4. Told[c] = "open" /\ Told' = Told
        BY <2>1, <2>3, <4>1 DEF Closed, Told
      <4>5. Promise!Commit(c)
        BY <2>1, <4>3, <4>4 DEF Promise!Commit, Told, Gone
      <4>6. QED
        BY <4>5 DEF Promise!Next
    <3>3. QED
      BY <3>1, <3>2
  <2>4. QED
    BY <1>7, <2>2, <2>3 DEF TakeRequest, Written
<1>8. ASSUME NEW c \in Calls, HostRuns(c) \/ HostRunsLate(c) PROVE Promise!Next
  <2>1. /\ c \in wire \cup late /\ runs' = [runs EXCEPT ![c] = @ + 1] /\ call' = call
        /\ wire' \cup late' \cup {c} = wire \cup late
    BY <1>8 DEF HostRuns, HostRunsLate, callVars
  <2>2. runs[c] = 0
    BY <1>1, <2>1 DEF Once
  <2>3. runs' = [runs EXCEPT ![c] = 1]
    BY <2>1, <2>2
  <2>4. c \in Gone /\ Gone' = Gone /\ Told' = Told
    BY <1>1, <2>1, <2>2, <2>3 DEF Once, Gone, Told
  <2>5. Promise!Run(c)
    BY <2>2, <2>3, <2>4 DEF Promise!Run, Told, Gone
  <2>6. QED
    BY <2>5 DEF Promise!Next
<1>9. ASSUME NEW c \in Calls, ReplyArrives(c) PROVE [Promise!Next]_<<Told, Gone, runs>>
  <2>1. UNCHANGED <<wire, late, runs>> /\ c \in replies /\ c # Probe
    BY <1>9, ConnectionTaskAssumption DEF ReplyArrives
  <2>2. CASE UNCHANGED call
    BY <1>2, <2>1, <2>2
  <2>3. CASE call[c] = "open" /\ call' = [call EXCEPT ![c] = "answered"]
    <3>1. Told[c] = "open" /\ Told' = [Told EXCEPT ![c] = "answered"]
      BY <1>1, <2>3, ToldOne DEF Told
    <3>2. Promise!Answer(c)
      BY <1>1, <2>1, <3>1 DEF Promise!Answer, Told, Gone, Once
    <3>3. QED
      BY <3>2 DEF Promise!Next
  <2>4. QED
    BY <1>9, <2>1, <2>2, <2>3 DEF ReplyArrives
<1>10. ASSUME NEW r \in {Probe}, HostRuns(r) \/ ReplyArrives(r)
       PROVE  UNCHANGED <<Told, Gone, runs>>
  BY <1>10, ConnectionTaskAssumption DEF HostRuns, ReplyArrives, callVars, Told, Gone
<1>11. ASSUME NEW c \in Calls, CheckState(c) PROVE [Promise!Next]_<<Told, Gone, runs>>
  <2>1. Gone' = Gone /\ runs' = runs /\ Told[c] = "idle"
    BY <1>11 DEF CheckState, hostVars, Gone, Told
  <2>2. CASE call' = [call EXCEPT ![c] = "refused"]
    <3>1. Told' = [Told EXCEPT ![c] = "refused"]
      BY <1>1, <2>2, ToldOne
    <3>2. Promise!Refuse(c)
      BY <2>1, <3>1 DEF Promise!Refuse, Told, Gone
    <3>3. QED
      BY <3>2 DEF Promise!Next
  <2>3. CASE call' = [call EXCEPT ![c] = "checked"]
    <3>1. Told' = Told
      BY <1>1, <1>11, <2>3 DEF CheckState, ConnectionTypeOK, Told
    <3>2. QED
      BY <2>1, <3>1
  <2>4. QED
    BY <1>11, <2>2, <2>3 DEF CheckState
<1>12. ASSUME NEW c \in Calls, SendRequest(c) PROVE Promise!Next
  <2>1. Gone' = Gone /\ runs' = runs /\ Told[c] = "idle"
    BY <1>12 DEF SendRequest, hostVars, Gone, Told
  <2>2. CASE call' = [call EXCEPT ![c] = "refused"]
    <3>1. Told' = [Told EXCEPT ![c] = "refused"]
      BY <1>1, <2>2, ToldOne
    <3>2. Promise!Refuse(c)
      BY <2>1, <3>1 DEF Promise!Refuse, Told, Gone
    <3>3. QED
      BY <3>2 DEF Promise!Next
  <2>3. CASE call' = [call EXCEPT ![c] = "open"]
    <3>1. Told' = [Told EXCEPT ![c] = "open"]
      BY <1>1, <2>3, ToldOne
    <3>2. Promise!Open(c)
      BY <2>1, <3>1 DEF Promise!Open, Told, Gone
    <3>3. QED
      BY <3>2 DEF Promise!Next
  <2>4. QED
    BY <1>12, <2>2, <2>3 DEF SendRequest
<1>13. CASE Dial \/ SetupEnds \/ ConnectEnds \/ Connected \/ Ages \/ NetworkChanges
            \/ ProbeStarts \/ WaitWoken \/ WaitEnds \/ Retire \/ UNCHANGED vars
  <2>1. UNCHANGED <<call, wire, late, runs>>
    BY <1>13 DEF Dial, SetupEnds, SetupFails, SetupDone, ConnectEnds, ConnectFails, Connects,
       Connected, Ages, NetworkChanges, ProbeStarts, WaitWoken, WaitEnds, Retire, vars, callVars,
       hostVars
  <2>2. QED
    BY <1>2, <2>1
<1>14. QED
  BY <1>3, <1>4, <1>5, <1>6, <1>7, <1>8, <1>9, <1>10, <1>11, <1>12, <1>13 DEF Next

\* Through any losses, checks, retries, deadlines and the retirement of the
\* host, a call runs once at most, and its caller is told what became of it.
THEOREM TaskImplementsCallOnce == Spec => ImplementsCallOnce
<1>1. Init => Promise!Init
  <2> SUFFICES ASSUME Init PROVE Promise!Init
    OBVIOUS
  <2>1. Told = [c \in Calls |-> "idle"] /\ Gone = {} /\ runs = [c \in Calls |-> 0]
    BY DEF Init, Told, Gone
  <2>2. QED
    BY <2>1 DEF Promise!Init, Told, Gone
<1>2. Inv /\ [Next]_vars => [Promise!Next]_(Promise!callVars)
  BY PromiseStep DEF Promise!callVars, Told, Gone
<1>3. QED
  BY <1>1, <1>2, TaskInvariant, PTL DEF Spec, ImplementsCallOnce, Promise!Spec
=============================================================================
