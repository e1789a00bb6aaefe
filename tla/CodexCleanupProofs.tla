------------------------- MODULE CodexCleanupProofs -------------------------
(***************************************************************************)
(* CodexTypeOK, NothingIsLate, ThreadIsAtRest and CleansSelected, for any  *)
(* threads, requests, daemons, connections and killers.                    *)
(*                                                                         *)
(* None is inductive: what the clean exit promises rests on how the relay, *)
(* the daemons and the launcher have kept their parts until then.  Inv     *)
(* names these parts, in the order in which they need one another:         *)
(*   Alive     no link, line or request belongs to a daemon yet to start;  *)
(*             only a running one has anything to read;                    *)
(*   Gated     a connection that waits for a reply, or may take a request, *)
(*             is one that pause_input waits for: so while the cleanup     *)
(*             runs nothing is asked, and all that is unknown is lost;     *)
(*   Followed  the selections on their way end in what the TUI shows;      *)
(*   Placed    a request is in one place, once, and accounted for;         *)
(*   Booked    what the gates say of requests is consistent: none is both  *)
(*             pending and lost, or on two connections;                    *)
(*   InOrder   what a connection has lost is handled before what it asks   *)
(*             later of that thread: a reply to the second proves the end  *)
(*             of the first;                                               *)
(*   Marked    the cleanup's read is in the line of its daemon alone;      *)
(*   Unshared  a thread that is being created is in no other request;      *)
(*   Cleared   what the fence has read up to is handled;                   *)
(*   Staged    what each step of the cleanup has stopped stays stopped.    *)
(*                                                                         *)
(* Most steps leave most parts alone.  They are sorted by who takes them   *)
(* (DaemonStep, RelayStep, LaunchStep), and the frames of each class carry *)
(* the parts it cannot touch.                                              *)
(***************************************************************************)
EXTENDS CodexCleanup, TLAPS

------------------------------------------------------------------------------
(* Sequences: the daemons' lines and the sockets *)

\* Nothing is in the sequence twice.
Distinct(s) == \A i, j \in DOMAIN s : s[i] = s[j] => i = j

\* Wherever x and y are in it, x comes first.
Ahead(s, x, y) == \A i, j \in DOMAIN s : s[i] = x /\ s[j] = y => i < j

LEMMA AppendFacts ==
    ASSUME NEW S, NEW s \in Seq(S), NEW x \in S
    PROVE  /\ Append(s, x) \in Seq(S) /\ Append(s, x) # <<>>
           /\ ToSet(Append(s, x)) = ToSet(s) \cup {x}
           /\ Distinct(s) /\ x \notin ToSet(s) => Distinct(Append(s, x))
<1> DEFINE t == Append(s, x)
<1>1. /\ t \in Seq(S) /\ Len(t) = Len(s) + 1 /\ DOMAIN t = 1..(Len(s) + 1)
      /\ DOMAIN s = 1..Len(s) /\ Len(s) \in Nat
      /\ \A i \in 1..Len(s) : t[i] = s[i]
      /\ t[Len(s) + 1] = x
  OBVIOUS
<1> HIDE DEF t
<1>2. ToSet(t) = ToSet(s) \cup {x}
  BY <1>1 DEF ToSet
<1>3. Distinct(s) /\ x \notin ToSet(s) => Distinct(t)
  BY <1>1 DEF Distinct, ToSet
<1>4. t # <<>>
  BY <1>1
<1>5. QED
  BY <1>1, <1>2, <1>3, <1>4 DEF t

\* What is appended comes after whatever was there.
LEMMA AppendAhead ==
    ASSUME NEW S, NEW s \in Seq(S), NEW z \in S, NEW x, NEW y,
           \/ z # x /\ Ahead(s, x, y)
           \/ z = y /\ z # x /\ y \notin ToSet(s)
    PROVE  Ahead(Append(s, z), x, y)
<1> DEFINE t == Append(s, z)
<1>1. /\ DOMAIN t = 1..(Len(s) + 1) /\ DOMAIN s = 1..Len(s) /\ Len(s) \in Nat
      /\ \A i \in 1..Len(s) : t[i] = s[i]
      /\ t[Len(s) + 1] = z
  OBVIOUS
<1> HIDE DEF t
<1>2. Ahead(t, x, y)
  BY <1>1 DEF Ahead, ToSet
<1>3. QED
  BY <1>2 DEF t

LEMMA TailFacts ==
    ASSUME NEW S, NEW s \in Seq(S), s # <<>>
    PROVE  /\ Tail(s) \in Seq(S) /\ Head(s) \in S
           /\ ToSet(s) = ToSet(Tail(s)) \cup {Head(s)}
           /\ Distinct(s) => Distinct(Tail(s)) /\ Head(s) \notin ToSet(Tail(s))
<1> DEFINE t == Tail(s)
<1>1. /\ t \in Seq(S) /\ Len(s) \in Nat \ {0} /\ DOMAIN s = 1..Len(s)
      /\ DOMAIN t = 1..(Len(s) - 1) /\ Head(s) = s[1] /\ Head(s) \in S
      /\ \A i \in 1..(Len(s) - 1) : t[i] = s[i + 1]
  OBVIOUS
<1> HIDE DEF t
<1>2. ToSet(s) = ToSet(t) \cup {Head(s)}
  <2>1. ASSUME NEW i \in DOMAIN s PROVE s[i] \in ToSet(t) \cup {Head(s)}
    <3>1. CASE i = 1
      BY <1>1, <3>1
    <3>2. CASE i # 1
      <4>1. i - 1 \in DOMAIN t /\ t[i - 1] = s[i]
        BY <1>1, <3>2
      <4>2. QED
        BY <4>1 DEF ToSet
    <3>3. QED
      BY <3>1, <3>2
  <2>2. \A i \in DOMAIN t : t[i] \in ToSet(s)
    BY <1>1 DEF ToSet
  <2>3. Head(s) \in ToSet(s)
    BY <1>1 DEF ToSet
  <2>4. QED
    BY <2>1, <2>2, <2>3 DEF ToSet
<1>3. Distinct(s) => Distinct(t) /\ Head(s) \notin ToSet(t)
  <2> SUFFICES ASSUME Distinct(s) PROVE Distinct(t) /\ Head(s) \notin ToSet(t)
    OBVIOUS
  <2>1. \A i \in DOMAIN t : i + 1 \in DOMAIN s /\ t[i] = s[i + 1] /\ i + 1 # 1
    BY <1>1
  <2>2. \A i, j \in DOMAIN t : t[i] = t[j] => i + 1 = j + 1
    BY <2>1 DEF Distinct
  <2>3. Distinct(t)
    BY <1>1, <2>2 DEF Distinct
  <2>4. \A i \in DOMAIN t : t[i] # s[1]
    BY <1>1, <2>1 DEF Distinct
  <2>5. QED
    BY <1>1, <2>3, <2>4 DEF ToSet
<1>4. QED
  BY <1>1, <1>2, <1>3 DEF t

LEMMA RemoveAtIs ==
    ASSUME NEW S, NEW s \in Seq(S), NEW i \in DOMAIN s
    PROVE  /\ RemoveAt(s, i) \in Seq(S)
           /\ DOMAIN RemoveAt(s, i) = 1..(Len(s) - 1)
           /\ \A j \in 1..(Len(s) - 1) : RemoveAt(s, i)[j] = s[IF j < i THEN j ELSE j + 1]
<1>1. i \in 1..Len(s) /\ Len(s) \in Nat
  OBVIOUS
<1> DEFINE a == SubSeq(s, 1, i - 1)
           b == SubSeq(s, i + 1, Len(s))
<1>2. /\ a \in Seq(S) /\ Len(a) = i - 1 /\ \A j \in 1..(i - 1) : a[j] = s[j]
      /\ b \in Seq(S) /\ Len(b) = Len(s) - i /\ \A j \in 1..(Len(s) - i) : b[j] = s[i + j]
  BY <1>1
<1> HIDE DEF a, b
<1>3. /\ a \o b \in Seq(S) /\ DOMAIN (a \o b) = 1..(Len(s) - 1)
      /\ \A j \in 1..(Len(s) - 1) :
            (a \o b)[j] = IF j <= Len(a) THEN a[j] ELSE b[j - Len(a)]
  BY <1>1, <1>2
<1>4. \A j \in 1..(Len(s) - 1) : (a \o b)[j] = s[IF j < i THEN j ELSE j + 1]
  <2> SUFFICES ASSUME NEW j \in 1..(Len(s) - 1)
               PROVE  (a \o b)[j] = s[IF j < i THEN j ELSE j + 1]
    OBVIOUS
  <2>1. CASE j < i
    BY <1>1, <1>2, <1>3, <2>1
  <2>2. CASE ~(j < i)
    <3>1. j - Len(a) \in 1..(Len(s) - i) /\ i + (j - Len(a)) = j + 1 /\ ~(j <= Len(a))
      BY <1>1, <1>2, <2>2
    <3>2. QED
      BY <1>2, <1>3, <2>2, <3>1
  <2>3. QED
    BY <2>1, <2>2
<1>5. RemoveAt(s, i) = a \o b
  BY DEF RemoveAt, a, b
<1>6. QED
  BY <1>3, <1>4, <1>5

LEMMA RemoveAtFacts ==
    ASSUME NEW S, NEW s \in Seq(S), NEW i \in DOMAIN s, Distinct(s)
    PROVE  /\ RemoveAt(s, i) \in Seq(S)
           /\ Distinct(RemoveAt(s, i)) /\ ToSet(RemoveAt(s, i)) = ToSet(s) \ {s[i]}
<1> DEFINE t == RemoveAt(s, i)
           at(j) == IF j < i THEN j ELSE j + 1
<1>1. /\ t \in Seq(S) /\ DOMAIN t = 1..(Len(s) - 1)
      /\ \A j \in 1..(Len(s) - 1) : t[j] = s[at(j)]
  BY RemoveAtIs
<1> HIDE DEF t
<1>2. DOMAIN s = 1..Len(s) /\ Len(s) \in Nat
  OBVIOUS
<1>3. /\ \A j \in DOMAIN t : at(j) \in DOMAIN s /\ at(j) # i
      /\ \A j, k \in DOMAIN t : at(j) = at(k) => j = k
      /\ \A k \in DOMAIN s \ {i} : \E j \in DOMAIN t : at(j) = k
  <2>1. ASSUME NEW k \in DOMAIN s \ {i} PROVE \E j \in DOMAIN t : at(j) = k
    <3>1. CASE k < i
      BY <1>1, <1>2, <3>1
    <3>2. CASE ~(k < i)
      <4>1. k - 1 \in DOMAIN t /\ at(k - 1) = k
        BY <1>1, <1>2, <3>2
      <4>2. QED
        BY <4>1
    <3>3. QED
      BY <3>1, <3>2
  <2>2. QED
    BY <1>1, <1>2, <2>1
<1> HIDE DEF at
<1>4. Distinct(t)
  BY <1>1, <1>3 DEF Distinct
<1>5. ToSet(t) \subseteq ToSet(s) \ {s[i]}
  BY <1>1, <1>3 DEF Distinct, ToSet
<1>6. ToSet(s) \ {s[i]} \subseteq ToSet(t)
  <2> SUFFICES ASSUME NEW k \in DOMAIN s, s[k] # s[i] PROVE s[k] \in ToSet(t)
    BY DEF ToSet
  <2>1. PICK j \in DOMAIN t : at(j) = k
    BY <1>3
  <2>2. QED
    BY <1>1, <2>1 DEF ToSet
<1>7. QED
  BY <1>1, <1>4, <1>5, <1>6 DEF t

LEMMA RemoveAtAhead ==
    ASSUME NEW S, NEW s \in Seq(S), NEW i \in DOMAIN s, NEW x, NEW y, Ahead(s, x, y)
    PROVE  Ahead(RemoveAt(s, i), x, y)
<1> DEFINE t == RemoveAt(s, i)
           at(j) == IF j < i THEN j ELSE j + 1
<1>1. DOMAIN t = 1..(Len(s) - 1) /\ \A j \in 1..(Len(s) - 1) : t[j] = s[at(j)]
  BY RemoveAtIs
<1> HIDE DEF t
<1>2. DOMAIN s = 1..Len(s) /\ Len(s) \in Nat
  OBVIOUS
<1>3. /\ \A j \in DOMAIN t : at(j) \in DOMAIN s
      /\ \A j, k \in DOMAIN t : at(j) < at(k) => j < k
  BY <1>1, <1>2
<1> HIDE DEF at
<1>4. Ahead(t, x, y)
  BY <1>1, <1>3 DEF Ahead
<1>5. QED
  BY <1>4 DEF t

LEMMA UnmarkedFacts ==
    ASSUME NEW S, NEW s \in Seq(S), Distinct(s)
    PROVE  /\ Unmarked(s) \in Seq(S)
           /\ Distinct(Unmarked(s)) /\ ToSet(Unmarked(s)) = ToSet(s) \ {Mark}
           /\ Unmarked(s) # <<>> => s # <<>>
<1>1. CASE \E i \in DOMAIN s : s[i] = Mark
  <2> DEFINE i == CHOOSE k \in DOMAIN s : s[k] = Mark
  <2>1. i \in DOMAIN s /\ s[i] = Mark
    BY <1>1
  <2>2. Unmarked(s) = RemoveAt(s, i)
    BY <1>1 DEF Unmarked
  <2> HIDE DEF i
  <2>3. s # <<>>
    BY <2>1
  <2>4. QED
    BY <2>1, <2>2, <2>3, RemoveAtFacts
<1>2. CASE ~\E i \in DOMAIN s : s[i] = Mark
  BY <1>2 DEF Unmarked, ToSet
<1>3. QED
  BY <1>1, <1>2

-----------------------------------------------------------------------------
(* Where a request is *)

Written(c) == ToSet(socket[c])
Listed(d)  == ToSet(line[d]) \ {Mark}

\* On its way to the daemon it was sent to, and not yet handled.
Moves(o) == \/ o \in adrift
            \/ \E c \in Conns : o \in Written(c)
            \/ \E d \in Daemons : o \in Listed(d)

-----------------------------------------------------------------------------
(* The parts of the inductive invariant *)

\* The daemons there have been, and those that run.
Alive ==
    /\ \A o \in Ops : op[o].to <= born
    /\ \A c \in Conns : /\ peer[c] <= born
                        /\ open[c] => peer[c] \in up
                        /\ stat[c] \in {"up", "end"} => peer[c] \in Daemons
    /\ front # 0 => front \in up
    /\ \A o \in adrift : op[o].to \in up
    /\ \A d \in Daemons : line[d] # <<>> => d \in up

\* A connection that has, or may get, requests is one that pause_input waits for.
GatedAt(c) ==
    /\ ~paused /\ ~fresh[c] /\ (c = Main \/ stat[c] \in {"dial", "up", "end"}) /\ sup # "exited"
          => ack[c] = "running"
    /\ pending[c] # {} \/ holding[c] # 0 => ack[c] = "running"
    /\ holding[c] # 0 => stat[c] = "up"
    /\ stat[c] \in {"off", "dial"} => pending[c] = {}

\* Whoever pauses input has found nothing left to wait for when the cleanup begins.
Phased ==
    /\ paused /\ sup # "exited" <=> sup \in {"pausing", "cleaning"}
    /\ sup = "cleaning" \/ how = "clean" => \A c \in Conns : pending[c] = {} /\ holding[c] = 0
    /\ how = "not" <=> sup # "exited"
    /\ sup = "exited" => \A c \in Conns : stat[c] = "gone" /\ holding[c] = 0
    /\ sup \in {"run", "pausing"} => step = "none"
    /\ sup \notin {"cleaning", "exited"} => ~fault
    /\ sup = "unpausing" => client # None

Gated == Phased /\ \A c \in Conns : GatedAt(c)

\* What the launcher will come to select is what the TUI shows.
Followed ==
    /\ shown = Drained
    /\ sup = "cleaning" \/ how = "clean" => target = shown

\* A request is in one place, once, and there it is one somebody asked for.
Placed ==
    /\ \A d \in Daemons : Distinct(line[d])
    /\ \A c \in Conns : Distinct(socket[c])
    /\ \A c \in Conns : Written(c) \cap adrift = {}
    /\ \A d \in Daemons : /\ Listed(d) \cap adrift = {}
                          /\ \A c \in Conns : Listed(d) \cap Written(c) = {}
    /\ \A c \in Conns : \A o \in Written(c) : o \in pending[c] /\ open[c]
    /\ \A d \in Daemons : \A o \in Listed(d) : op[o].to = d
    /\ \A o \in Ops : Moves(o) =>
          /\ op[o].kind \in Kinds /\ answer[o] = "none"
          /\ \/ \E c \in Conns : o \in pending[c]
             \/ \E u \in Lost : u.o = o

\* The relay's books: what it holds, waits for, and has lost.
Booked ==
    /\ \A c \in Conns : \A o \in pending[c] :
          /\ op[o].kind \in Kinds /\ op[o].to = peer[c]
          /\ o \in adrift => sup = "exited"
          /\ \A e \in Conns : o \in pending[e] => e = c
    /\ \A c \in Conns : holding[c] # 0 =>
          /\ op[holding[c]].kind \in Prepared /\ op[holding[c]].to = peer[c]
          /\ ~Moves(holding[c])
          /\ \A e \in Conns : /\ holding[c] \notin pending[e]
                              /\ holding[e] = holding[c] => e = c
    /\ \A c \in Conns : \A u \in uncertain[c] :
          /\ op[u.o].kind \in Kinds
          /\ \A e \in Conns : /\ u.o \notin pending[e] /\ holding[e] # u.o
                              /\ \A v \in uncertain[e] : v.o = u.o => e = c /\ v = u
          /\ u.received => u.o \notin adrift
    /\ \A o \in Ops : answer[o] # "none" => \E c \in Conns : o \in pending[c]
    /\ \A o \in core : op[o].kind = "compact"

\* On a daemon, what a connection lost is handled before what it asks later
\* of the same thread.
InOrder ==
    \A c \in Conns : \A u \in uncertain[c] : \A o \in Ops :
        /\ o \in pending[c] \/ o = holding[c]
        /\ u.received /\ op[u.o].to = peer[c] /\ op[u.o].thread = op[o].thread
        /\ u.o \in Listed(peer[c])
        => answer[o] = "none" /\ Ahead(line[peer[c]], u.o, o)

\* The cleanup's read is in the line of the daemon it speaks to.
Marked ==
    \A d \in Daemons : Mark \in ToSet(line[d]) =>
        sup = "cleaning" /\ step \in {"fencing", "verifying"} /\ d = cpeer

\* A thread that is being created is nobody else's.
Unshared ==
    \A o \in Ops : op[o].kind \in Creates /\ (Moves(o) \/ \E c \in Conns : holding[c] = o) =>
        /\ op[o].thread # shown
        /\ \A p \in Ops \ {o} : op[p].thread # op[o].thread

\* What the fence has settled.
Settled(u) ==
    \/ op[u.o].to \notin up
    \/ op[u.o].kind \in Known /\ u.received /\ u.o \notin Listed(op[u.o].to)

Fencing(u) ==
    \/ op[u.o].to \notin up
    \/ /\ op[u.o].kind \in Known /\ u.received /\ op[u.o].to = cpeer
       /\ op[u.o].thread \in unread \/ u.o \notin Listed(cpeer)

After == {"goal", "turns", "interrupt", "terminals", "absent", "verify", "verifying", "list", "done"}

Excused == Explicit /\ OnlyInternal

Cleared ==
    /\ sup = "cleaning" => (fence = "ok" <=> Lost = {})
    /\ (sup = "cleaning" /\ step \in After) \/ how = "clean" =>
          Excused \/ \A u \in Lost : Settled(u)
    /\ sup = "cleaning" /\ step \in {"fence", "fencing"} =>
          cpeer \in Daemons /\ \A u \in Lost : Fencing(u)
    /\ sup = "cleaning" /\ step = "fencing" =>
          /\ asks \in unread
          /\ \A u \in Lost : op[u.o].thread = asks => Ahead(line[cpeer], u.o, Mark)

\* What the thread comes to, stage by stage.
Rest ==
    /\ Here \notin active
    /\ Here \in goals => Here \notin loaded
    /\ cpeer \in Ordered => Here \notin terms

Staged ==
    target # None /\ ~Compacted =>
        /\ sup = "cleaning" =>
              /\ step \in {"turns", "interrupt", "terminals"} /\ ~fault => Here \notin goals
              /\ step = "terminals" /\ ~fault => Here \notin active
              /\ step \in {"verify", "verifying", "list"} =>
                    Here \notin goals \cup active \cup terms
              /\ step = "done" => Rest
        /\ how = "clean" => Rest

Inv == /\ CodexTypeOK /\ Alive /\ Gated /\ Followed /\ Placed /\ Booked /\ InOrder /\ Marked
       /\ Unshared /\ Cleared /\ Staged

-----------------------------------------------------------------------------
(* The steps, sorted by who takes them *)

DaemonStep ==
    \/ \E c \in Conns : Admit(c) \/ Closes(c)
    \/ \E o \in Ops : AdmitAdrift(o) \/ CoreRuns(o)
    \/ \E d \in Daemons : \E i \in DOMAIN line[d], done \in BOOLEAN :
          Handle(d, i, done) /\ (done => Able(d, line[d][i]))
    \/ \E d \in Daemons : Dies(d)
    \/ Starts
    \/ \E dt \in Daemons \X Threads : ThreadMoves(dt)

RelayStep ==
    \/ Accept
    \/ \E c \in Extras : AcceptExtra(c)
    \/ \E c \in Conns : \/ Acknowledge(c) \/ Dialled(c) \/ DialFails(c)
                        \/ Take(c) \/ Refuse(c) \/ Forward(c)
                        \/ Break(c) \/ Receipt(c) \/ NoReceipt(c)
    \/ \E c \in Conns, o \in Ops : Replied(c, o)

SameRuns  == UNCHANGED <<active, goals, terms>>
SameWork  == UNCHANGED <<line, adrift>>
SameLinks == UNCHANGED <<stat, open, socket, holding>>
SamePause == UNCHANGED <<paused, fresh>>
SameRows  == UNCHANGED <<events, selected>>

\* Whatever the launcher does.
LaunchFrame == UNCHANGED <<born, front, up, loaded, core, answer, op, peer, pending, uncertain,
                           ack, shown>>

Watches ==
    /\ LaunchFrame /\ SameRuns /\ SameWork /\ SameLinks /\ SamePause
    /\ UNCHANGED <<sup, how, fence, target, client, step, cpeer, unread, asks, fault>>
    /\ events # <<>>
    /\ selected' = Head(events) /\ events' = Tail(events)

Begins ==
    /\ LaunchFrame /\ SameRuns /\ SameWork /\ SameLinks /\ SameRows
    /\ UNCHANGED <<how, fence, target, step, cpeer, unread, asks, fault>>
    /\ sup = "run" /\ sup' = "pausing" /\ Pause(TRUE)
    /\ client' # None => client' \in inbox /\ client'[2] # "force"

Fences ==
    /\ LaunchFrame /\ SameRuns /\ SameWork /\ SameLinks /\ SamePause
    /\ UNCHANGED <<how, client, cpeer, unread, asks, fault>>
    /\ sup = "pausing" /\ ~Running /\ sup' = "cleaning"
    /\ fence' = IF Lost = {} THEN "ok" ELSE "unsettled"
    /\ Adopt /\ target' = Drained
    /\ step' = IF Drained = None /\ Lost = {} THEN "done" ELSE "connect"

GivesUp ==
    /\ LaunchFrame /\ SameRuns /\ SameLinks /\ UNCHANGED <<adrift, how, client>>
    /\ sup \in {"pausing", "cleaning"}
    /\ sup' = IF client = None THEN "run" ELSE "unpausing"
    /\ client = None => step' = "none"
    /\ step' \in {"none", "internal"} \cup Either
    /\ line' = [d \in Daemons |-> Unmarked(line[d])]
    /\ Pause(FALSE) /\ Forgotten
    /\ SameRows \/ Adopt

Cleaning ==
    /\ LaunchFrame /\ SameLinks /\ SamePause /\ SameRows /\ UNCHANGED adrift
    /\ sup = "cleaning" /\ UNCHANGED <<sup, how, fence, target, client>>

Reads == IF fence = "ok" \/ (fence = "unsettled" /\ Excused) THEN {} ELSE ThreadsToFence

Connects ==
    /\ Cleaning /\ SameRuns /\ SameWork /\ UNCHANGED <<asks, fault>>
    /\ step = "connect" /\ step' = ToFence(Reads)
    /\ cpeer' = front /\ unread' = Reads
    /\ front # 0
    /\ fence = "ok" \/ (fence = "unsettled" /\ Excused) \/ Fencible(front)

Asks ==
    /\ Cleaning /\ SameRuns /\ UNCHANGED <<cpeer, unread, fault>>
    /\ cpeer \in up
    /\ line' = [line EXCEPT ![cpeer] = Append(@, Mark)]
    /\ \/ step = "fence" /\ step' = "fencing" /\ asks' \in unread
       \/ step = "verify" /\ step' = "verifying" /\ asks' = target

Hears(i) ==
    /\ Cleaning /\ SameRuns /\ UNCHANGED <<cpeer, fault>>
    /\ cpeer \in up
    /\ i \in DOMAIN line[cpeer] /\ line[cpeer][i] = Mark /\ Turn(cpeer, i)
    /\ line' = Without(cpeer, i) /\ asks' = None
    /\ \/ step = "fencing" /\ unread' = unread \ {asks} /\ step' = ToFence(unread')
       \/ /\ step = "verifying" /\ Here \notin active /\ UNCHANGED unread
          /\ step' = IF Here \in loaded THEN "list" ELSE "done"

Works ==
    /\ Cleaning /\ SameWork /\ UNCHANGED <<cpeer, unread, asks>>
    /\ cpeer \in up
    /\ \/ /\ step = "goal" /\ step' = "turns" /\ UNCHANGED <<active, terms>>
          /\ \/ goals' = goals \ {Here} /\ UNCHANGED fault
             \/ fault' = TRUE /\ UNCHANGED goals
       \/ /\ step = "turns" /\ step' \in {"interrupt", "terminals"} /\ SameRuns
          /\ \/ UNCHANGED fault /\ (step' = "terminals" => Here \notin active)
             \/ fault' = TRUE
       \/ /\ step = "interrupt" /\ step' = "terminals" /\ UNCHANGED <<goals, terms>>
          /\ \/ active' = active \ {Here} /\ UNCHANGED fault
             \/ fault' = TRUE /\ UNCHANGED active
       \/ /\ step = "terminals" /\ UNCHANGED <<active, goals, fault>>
          /\ \/ terms' = terms \ {Here}
             \/ terms' = terms /\ cpeer \notin Ordered
          /\ step' = IF fault THEN "absent" ELSE IF cpeer \in Ordered THEN "verify" ELSE "done"
       \/ /\ step = "terminals" /\ step' = "absent" /\ SameRuns /\ UNCHANGED fault
       \/ /\ step = "absent" /\ step' = "done" /\ Here \notin loaded /\ SameRuns /\ UNCHANGED fault
       \/ /\ step = "list" /\ SameRuns /\ UNCHANGED fault
          /\ step' = IF Here \in terms THEN "verify" ELSE "done"

Frees ==
    /\ LaunchFrame /\ SameRuns /\ SameWork /\ SameLinks /\ SamePause /\ SameRows
    /\ UNCHANGED <<how, fence, target, cpeer, unread, asks, fault>>
    /\ sup = "unpausing" /\ sup' = "run" /\ client' = None /\ step' = "none"

Exits ==
    /\ LaunchFrame /\ SameRuns /\ SamePause /\ SameRows
    /\ UNCHANGED <<fence, target, client, step, cpeer, unread, asks, fault>>
    /\ \/ how' = "clean" /\ sup = "cleaning" /\ step = "done"
       \/ how' = "forced" /\ sup # "exited"
    /\ sup' = "exited"
    /\ stat' = [c \in Conns |-> "gone"]
    /\ open' = [c \in Conns |-> FALSE]
    /\ socket' = [c \in Conns |-> <<>>]
    /\ holding' = [c \in Conns |-> 0]
    /\ adrift' = adrift \cup UNION {Written(c) : c \in Conns}
    /\ line' = [d \in Daemons |-> Unmarked(line[d])]

Idles ==
    /\ LaunchFrame /\ SameRuns /\ SameWork /\ SameLinks /\ SamePause /\ SameRows
    /\ UNCHANGED <<sup, how, fence, target, client, step, cpeer, unread, asks, fault>>

LaunchStep ==
    \/ Watches \/ Begins \/ Fences \/ GivesUp \/ Connects \/ Asks
    \/ \E i \in DOMAIN line[cpeer] : Hears(i)
    \/ Works \/ Frees \/ Exits \/ Idles

LEMMA FailGivesUp ==
    ASSUME NEW hints, Fail(hints), hints \subseteq {"internal"} \cup Either,
           sup \in {"pausing", "cleaning"}, UNCHANGED rowVars \/ (Adopt /\ UNCHANGED shown)
    PROVE  GivesUp
BY DEF Fail, GivesUp, LaunchFrame, SameRuns, SameLinks, SameRows, daemonVars, linkVars, gateVars,
       rowVars, askVars, Pause, Forgotten, Adopt

LEMMA LaunchersStep ==
    ASSUME \/ Launcher \/ ChildExits \/ (\E k \in Killers : Ask(k)) \/ FenceTimesOut \/ CleanupFails
           \/ PauseGoalFails \/ ListTurnsFails \/ InterruptFails \/ TerminalsFail
    PROVE  LaunchStep
<1> USE DEF LaunchFrame, SameRuns, SameWork, SameLinks, SamePause, SameRows
<1>1. ASSUME Observe PROVE Watches
  BY <1>1 DEF Observe, Watches, launchAlone, daemonVars, workVars, linkVars, gateVars, pauseVars,
              cleanVars
<1>2. ASSUME NEW request, BeginStop(request), request # None => request \in inbox /\ request[2] # "force"
      PROVE  Begins
  BY <1>2 DEF BeginStop, Begins, daemonVars, workVars, linkVars, gateVars, rowVars
<1>3. ASSUME Fenced PROVE Fences
  BY <1>3 DEF Fenced, Fences, Adopt, launchAlone, daemonVars, workVars, linkVars, gateVars,
              pauseVars
<1>4. ASSUME FenceTimesOut PROVE GivesUp
  <2>1. Fail(Either) /\ sup = "pausing" /\ Adopt /\ UNCHANGED shown
    BY <1>4 DEF FenceTimesOut
  <2>2. QED
    BY <2>1, FailGivesUp
<1>5. ASSUME CleanupFails PROVE GivesUp
  <2>1. Fail(Either) /\ sup = "cleaning" /\ UNCHANGED rowVars
    BY <1>5 DEF CleanupFails
  <2>2. QED
    BY <2>1, FailGivesUp
<1> DEFINE Same == /\ LaunchFrame /\ SameLinks /\ SamePause /\ SameRows /\ UNCHANGED <<adrift, how>>
<1>6. cleanAlone' = cleanAlone /\ UNCHANGED <<daemonVars, core, answer, adrift>> => Same
  BY DEF cleanAlone, daemonVars, linkVars, gateVars, pauseVars, rowVars
<1>u. Unsettled \subseteq {"internal"} \cup Either
  BY DEF Unsettled
<1>7. ASSUME Connect PROVE GivesUp \/ Connects
  <2>1. /\ sup = "cleaning" /\ step = "connect" /\ front # 0
        /\ \/ Fail(Unsettled) /\ UNCHANGED rowVars
           \/ /\ fence = "ok" \/ (fence = "unsettled" /\ Excused) \/ Fencible(front)
              /\ cpeer' = front /\ unread' = Reads /\ step' = ToFence(Reads)
              /\ UNCHANGED <<daemonVars, workVars, cleanAlone, fence, target, client, asks, fault,
                             sup>>
    BY <1>7 DEF Connect, Reads, Excused
  <2>2. CASE Fail(Unsettled) /\ UNCHANGED rowVars
    BY <2>1, <2>2, <1>u, FailGivesUp
  <2>3. CASE UNCHANGED <<daemonVars, workVars, cleanAlone, fence, target, client, asks, fault, sup>>
    <3>1. Same /\ UNCHANGED <<line, active, goals, terms>>
      BY <2>3, <1>6 DEF workVars, daemonVars
    <3>2. Cleaning
      BY <2>1, <2>3, <3>1 DEF Cleaning
    <3>3. CASE Fail(Unsettled) /\ UNCHANGED rowVars
      BY <2>2, <3>3
    <3>4. CASE ~(Fail(Unsettled) /\ UNCHANGED rowVars)
      BY <2>1, <2>3, <3>1, <3>2, <3>4 DEF Connects
    <3>5. QED
      BY <3>3, <3>4
  <2>4. QED
    BY <2>1, <2>2, <2>3
<1>8. ASSUME NEW t, Read(t), sup = "cleaning" PROVE Cleaning /\ SameRuns /\ UNCHANGED <<cpeer, unread, fault>>
  BY <1>6, <1>8 DEF Read, Cleaning, daemonVars
<1>9. ASSUME ReadLost PROVE Asks
  <2>1. PICK t \in unread : Read(t)
    BY <1>9 DEF ReadLost
  <2>2. QED
    BY <1>8, <1>9, <2>1 DEF ReadLost, Read, Asks
<1>10. ASSUME Verify PROVE Asks
  BY <1>8, <1>10 DEF Verify, Read, Asks
<1>11. ASSUME NEW i, Answered(i), sup = "cleaning" PROVE Cleaning /\ SameRuns /\ UNCHANGED <<cpeer, fault>>
  BY <1>6, <1>11 DEF Answered, Cleaning, daemonVars
<1>12. ASSUME FenceAnswered PROVE GivesUp \/ \E i \in DOMAIN line[cpeer] : Hears(i)
  <2>1. PICK i \in DOMAIN line[cpeer] :
           /\ Reached(i)
           /\ \/ Fail(Unsettled) /\ UNCHANGED rowVars
              \/ Answered(i) /\ unread' = unread \ {asks} /\ step' = ToFence(unread')
    BY <1>12 DEF FenceAnswered
  <2>2. sup = "cleaning"
    BY <2>1 DEF Reached
  <2>3. CASE Fail(Unsettled) /\ UNCHANGED rowVars
    BY <2>2, <2>3, <1>u, FailGivesUp
  <2>4. CASE Answered(i) /\ unread' = unread \ {asks} /\ step' = ToFence(unread')
    <3>1. Hears(i)
      BY <1>11, <1>12, <2>1, <2>2, <2>4 DEF FenceAnswered, Answered, Reached, Hears
    <3>2. QED
      BY <3>1
  <2>5. QED
    BY <2>1, <2>3, <2>4
<1>13. ASSUME VerifyAnswered PROVE GivesUp \/ \E i \in DOMAIN line[cpeer] : Hears(i)
  <2>1. PICK i \in DOMAIN line[cpeer] :
           /\ Reached(i)
           /\ IF Here \in active THEN Fail(Either) /\ UNCHANGED rowVars
              ELSE /\ Answered(i) /\ UNCHANGED unread
                   /\ step' = IF Here \in loaded THEN "list" ELSE "done"
    BY <1>13 DEF VerifyAnswered
  <2>2. sup = "cleaning"
    BY <2>1 DEF Reached
  <2>3. CASE Here \in active
    BY <2>1, <2>2, <2>3, FailGivesUp
  <2>4. CASE Here \notin active
    <3>1. Hears(i)
      BY <1>11, <1>13, <2>1, <2>2, <2>4 DEF VerifyAnswered, Answered, Reached, Hears
    <3>2. QED
      BY <3>1
  <2>5. QED
    BY <2>3, <2>4
<1>14. ASSUME NEW from, NEW to, CleanStep(from, to), UNCHANGED loaded
       PROVE  /\ Cleaning /\ SameWork /\ UNCHANGED <<cpeer, unread, asks>> /\ cpeer \in up
              /\ step = from /\ step' = to
  <2>1. /\ sup = "cleaning" /\ step = from /\ step' = to /\ cpeer \in up /\ UNCHANGED loaded
        /\ UNCHANGED <<cleanAlone, sup, workVars, born, front, up, fence, target, client, cpeer,
                       unread, asks>>
    BY <1>14 DEF CleanStep
  <2>2. QED
    BY <2>1 DEF Cleaning, cleanAlone, workVars, linkVars, gateVars, pauseVars, rowVars
<1>15. ASSUME PauseGoal \/ PauseGoalFails PROVE Works
  BY <1>14, <1>15 DEF PauseGoal, PauseGoalFails, Works
<1>16. ASSUME ListTurns PROVE Works
  BY <1>14, <1>16 DEF ListTurns, Works
<1>17. ASSUME ListTurnsFails PROVE Works
  <2>1. PICK to \in {"interrupt", "terminals"} : CleanStep("turns", to)
    BY <1>17 DEF ListTurnsFails
  <2>2. QED
    BY <1>14, <1>17, <2>1 DEF ListTurnsFails, Works
<1>18. ASSUME Interrupt \/ InterruptFails PROVE Works
  BY <1>14, <1>18 DEF Interrupt, InterruptFails, Works
<1>19. ASSUME EndTerminals \/ TerminalsFail PROVE Works
  BY <1>14, <1>19 DEF EndTerminals, TerminalsFail, Works
<1>20. ASSUME InventoryRead \/ TerminalsListed PROVE Works
  BY <1>14, <1>20 DEF InventoryRead, TerminalsListed, Works
<1>21. ASSUME Rejected PROVE Frees
  BY <1>21 DEF Rejected, Frees, daemonVars, workVars, linkVars, gateVars, pauseVars, rowVars
<1>22. ASSUME Succeeded \/ (\E k \in Killers : ForceStopped(k)) PROVE Exits
  BY <1>22 DEF Succeeded, ForceStopped, Exit, Exits, Written, daemonVars, gateVars, pauseVars,
               rowVars, cleanVars
<1>23. ASSUME (\E k \in Killers : Ask(k)) \/ (\E request \in inbox : Busy(request)) PROVE Idles
  BY <1>23 DEF Ask, Busy, Idles, daemonVars, workVars, linkVars, gateVars, pauseVars, rowVars,
               cleanVars
<1>24. ASSUME ChildExits PROVE Begins \/ Idles
  <2>1. CASE BeginStop(None)
    <3>1. Begins
      BY <2>1 DEF BeginStop, Begins, daemonVars, workVars, linkVars, gateVars, rowVars
    <3>2. QED
      BY <3>1
  <2>2. CASE sup = "cleaning" /\ UNCHANGED <<launchAlone, pauseVars, rowVars, cleanVars, sup, how>>
    BY <2>2 DEF Idles, launchAlone, daemonVars, workVars, linkVars, gateVars, pauseVars, rowVars,
                cleanVars
  <2>3. QED
    BY <1>24, <2>1, <2>2 DEF ChildExits
<1>25. ASSUME NEW request \in inbox, StopAsked(request) PROVE Begins
  BY <1>2, <1>25 DEF StopAsked
<1> HIDE DEF LaunchFrame, SameRuns, SameWork, SameLinks, SamePause, SameRows
<1>26. ASSUME Cleanup PROVE LaunchStep
  BY <1>26, <1>7, <1>9, <1>10, <1>12, <1>13, <1>15, <1>16, <1>18, <1>19, <1>20 DEF Cleanup, LaunchStep
<1>27. QED
  BY <1>1, <1>3, <1>4, <1>5, <1>15, <1>17, <1>18, <1>19, <1>21, <1>22, <1>23, <1>24, <1>25,
     <1>26 DEF Launcher, LaunchStep

LEMMA StepIs ==
    ASSUME [Next]_vars
    PROVE  DaemonStep \/ RelayStep \/ LaunchStep
<1>1. CASE Daemon
  BY <1>1 DEF Daemon, DaemonStep, Able
<1>2. CASE Relay
  BY <1>2 DEF Relay, RelayStep
<1>3. CASE Launcher \/ ChildExits \/ \E k \in Killers : Ask(k)
  BY <1>3, LaunchersStep
<1>4. CASE Trouble
  <2>1. CASE \E dt \in Daemons \X Threads : ThreadMoves(dt)
    BY <2>1 DEF DaemonStep
  <2>2. CASE \E d \in Daemons : Dies(d)
    BY <2>2 DEF DaemonStep
  <2>3. CASE \E d \in Daemons : \E i \in DOMAIN line[d] : Handle(d, i, FALSE)
    BY <2>3 DEF DaemonStep
  <2>4. CASE \E c \in Conns : Closes(c) \/ DialFails(c) \/ NoReceipt(c)
    BY <2>4 DEF DaemonStep, RelayStep
  <2>5. CASE FenceTimesOut \/ CleanupFails
    BY <2>5, LaunchersStep
  <2>6. CASE PauseGoalFails \/ ListTurnsFails \/ InterruptFails \/ TerminalsFail
    BY <2>6, LaunchersStep
  <2>7. QED
    BY <1>4, <2>1, <2>2, <2>3, <2>4, <2>5, <2>6 DEF Trouble
<1>5. CASE UNCHANGED vars
  <2>1. Idles
    BY <1>5 DEF vars, daemonVars, workVars, linkVars, gateVars, pauseVars, rowVars, cleanVars,
                Idles, LaunchFrame, SameRuns, SameWork, SameLinks, SamePause, SameRows
  <2>2. QED
    BY <2>1 DEF LaunchStep
<1>6. QED
  BY <1>1, <1>2, <1>3, <1>4, <1>5 DEF Next

\* What the daemons' steps leave to the relay and the launcher, and what the relay's leave
\* to the daemons and the launcher.
DaemonFrame == UNCHANGED <<op, stat, peer, holding, pending, uncertain, ack, paused, fresh, events,
                           selected, shown, fence, target, client, step, cpeer, unread, asks,
                           fault, sup, how>>
RelayFrame  == UNCHANGED <<born, front, up, loaded, active, goals, terms, line, core, paused,
                           selected, fence, target, client, step, cpeer, unread, asks, fault, sup,
                           how>>

LEMMA Frames ==
    /\ DaemonStep => DaemonFrame
    /\ RelayStep => RelayFrame
<1>1. ASSUME DaemonStep PROVE DaemonFrame
  <2> USE DEF DaemonFrame, daemonVars, linkVars, gateVars, pauseVars, rowVars, cleanVars
  <2>1. ASSUME NEW c \in Conns, Admit(c) \/ Closes(c) PROVE DaemonFrame
    BY <2>1 DEF Admit, Closes
  <2>2. ASSUME NEW o \in Ops, AdmitAdrift(o) \/ CoreRuns(o) PROVE DaemonFrame
    BY <2>2 DEF AdmitAdrift, CoreRuns
  <2>3. ASSUME NEW d, NEW i, NEW done \in BOOLEAN, Handle(d, i, done) PROVE DaemonFrame
    BY <2>3 DEF Handle
  <2>4. ASSUME NEW d, Dies(d) PROVE DaemonFrame
    BY <2>4 DEF Dies
  <2>5. ASSUME Starts PROVE DaemonFrame
    BY <2>5 DEF Starts
  <2>6. ASSUME NEW dt, ThreadMoves(dt) PROVE DaemonFrame
    BY <2>6 DEF ThreadMoves
  <2> HIDE DEF DaemonFrame
  <2>7. QED
    BY <1>1, <2>1, <2>2, <2>3, <2>4, <2>5, <2>6 DEF DaemonStep
<1>2. ASSUME RelayStep PROVE RelayFrame
  <2> USE DEF RelayFrame, relayAlone, daemonVars, workVars, pauseVars, rowVars, cleanVars
  <2>1. ASSUME Accept PROVE RelayFrame
    BY <2>1 DEF Accept
  <2>2. ASSUME NEW c, AcceptExtra(c) \/ Acknowledge(c) \/ Dialled(c) \/ DialFails(c) PROVE RelayFrame
    BY <2>2 DEF AcceptExtra, Acknowledge, Dialled, DialFails
  <2>3. ASSUME NEW c, Take(c) PROVE RelayFrame
    BY <2>3 DEF Take, Write
  <2>4. ASSUME NEW c, Refuse(c) \/ Forward(c) PROVE RelayFrame
    BY <2>4 DEF Refuse, Forward, Write
  <2>5. ASSUME NEW c, Break(c) \/ Receipt(c) \/ NoReceipt(c) PROVE RelayFrame
    BY <2>5 DEF Break, Receipt, NoReceipt, Finish
  <2>6. ASSUME NEW c, NEW o, Replied(c, o) PROVE RelayFrame
    BY <2>6 DEF Replied
  <2> HIDE DEF RelayFrame
  <2>7. QED
    BY <1>2, <2>1, <2>2, <2>3, <2>4, <2>5, <2>6 DEF RelayStep
<1>3. QED
  BY <1>1, <1>2

-----------------------------------------------------------------------------
(* Types *)

Requests == [kind : {"unsent", "over"}, thread : {None}, to : {0}]
            \cup [kind : Kinds, thread : Threads, to : Daemons]

DaemonTypes ==
    /\ born \in Daemons /\ front \in 0..MaxPid /\ up \subseteq 1..born
    /\ loaded \subseteq Daemons \X Threads /\ active \subseteq loaded
    /\ goals \subseteq Daemons \X Threads /\ terms \subseteq loaded
    /\ line \in [Daemons -> Seq(Ops \cup {Mark})]
    /\ core \subseteq Ops /\ adrift \subseteq Ops
    /\ answer \in [Ops -> {"none", "ok", "err"}]

RelayTypes ==
    /\ op \in [Ops -> Requests]
    /\ stat \in [Conns -> {"off", "dial", "up", "end", "gone"}]
    /\ peer \in [Conns -> 0..MaxPid] /\ open \in [Conns -> BOOLEAN]
    /\ socket \in [Conns -> Seq(Ops)]
    /\ holding \in [Conns -> 0..MaxOps] /\ pending \in [Conns -> SUBSET Ops]
    /\ uncertain \in [Conns -> SUBSET [o : Ops, received : BOOLEAN]]
    /\ ack \in [Conns -> {"none", "running", "paused"}]
    /\ paused \in BOOLEAN /\ fresh \in [Conns -> BOOLEAN]

LauncherTypes ==
    /\ sup \in {"run", "pausing", "cleaning", "unpausing", "exited"}
    /\ how \in {"not", "clean", "forced"}
    /\ events \in Seq(Threads) /\ {selected, shown, target, asks} \subseteq Threads \cup {None}
    /\ fence \in {"ok", "unsettled"} /\ cpeer \in 0..MaxPid /\ unread \subseteq Threads
    /\ step \in {"none", "connect", "fence", "fencing", "goal", "turns", "interrupt", "terminals",
                 "absent", "verify", "verifying", "list", "done"} \cup {"internal"} \cup Either
    /\ fault \in BOOLEAN
    /\ client \in {None} \cup (Killers \X {"stop", "kill"})

BackendTypes ==
    /\ child \in {"live", "reaped"}
    /\ inbox \subseteq Killers \X {"stop", "kill", "force"}
    /\ killer \in [Killers -> {"idle", "stop", "kill", "force", "signalled", "forced", "failed"}]
    /\ troubles \in Nat

LEMMA TypeParts == CodexTypeOK <=> DaemonTypes /\ RelayTypes /\ LauncherTypes /\ BackendTypes
BY DEF CodexTypeOK, DaemonTypes, RelayTypes, LauncherTypes, BackendTypes, Requests

LEMMA Numbers ==
    /\ MaxPid \in Nat \ {0} /\ MaxOps \in Nat /\ Daemons = 1..MaxPid /\ Ops = 1..MaxOps
    /\ Main \in Conns /\ None \notin Threads /\ None \notin Killers
    /\ Extras \subseteq Conns /\ Main \notin Extras /\ Mark = 0 /\ Mark \notin Ops
BY CodexCleanupAssumption DEF Daemons, Ops, Conns, Mark

\* What an entry of the books says of a request.
LEMMA RequestTypes ==
    ASSUME RelayTypes, NEW o \in Ops
    PROVE  /\ op[o] \in Requests
           /\ op[o].kind \in Kinds => op[o].thread \in Threads /\ op[o].to \in Daemons
           /\ op[o].kind \notin Kinds => op[o].thread = None /\ op[o].to = 0
           /\ op[o].kind \in Kinds \cup {"unsent", "over"}
BY DEF RelayTypes, Requests, Kinds, Lifecycle, Creates, Known

LEMMA DaemonsKeepTypes ==
    ASSUME CodexTypeOK, DaemonStep
    PROVE  DaemonTypes' /\ RelayTypes' /\ LauncherTypes'
<1> USE Numbers
<1>t. DaemonTypes /\ RelayTypes /\ LauncherTypes
  BY TypeParts
<1>f. DaemonFrame
  BY Frames
<1>1. LauncherTypes'
  BY <1>t, <1>f DEF DaemonFrame, LauncherTypes
<1>2. ASSUME open' \in [Conns -> BOOLEAN], socket' \in [Conns -> Seq(Ops)] PROVE RelayTypes'
  BY <1>t, <1>f, <1>2 DEF DaemonFrame, RelayTypes
<1> DEFINE Goal == DaemonTypes' /\ RelayTypes'
<1>3. ASSUME NEW c \in Conns, Admit(c) PROVE Goal
  <2>1. Head(socket[c]) \in Ops /\ Tail(socket[c]) \in Seq(Ops)
    BY <1>3, <1>t DEF Admit, RelayTypes
  <2>2. socket' \in [Conns -> Seq(Ops)] /\ open' = open
    BY <1>3, <1>t, <2>1 DEF Admit, RelayTypes
  <2>3. line' \in [Daemons -> Seq(Ops \cup {Mark})]
    <3>1. \A d \in Daemons : Append(line[d], Head(socket[c])) \in Seq(Ops \cup {Mark})
      BY <1>t, <2>1 DEF DaemonTypes
    <3>2. QED
      BY <1>3, <1>t, <3>1 DEF Admit, DaemonTypes
  <2>4. QED
    BY <1>3, <1>t, <1>2, <2>2, <2>3 DEF Admit, daemonVars, DaemonTypes, RelayTypes
<1>4. ASSUME NEW c \in Conns, Closes(c) PROVE Goal
  <2>1. open' \in [Conns -> BOOLEAN] /\ socket' \in [Conns -> Seq(Ops)]
    BY <1>4, <1>t DEF Closes, RelayTypes
  <2>2. answer' \in [Ops -> {"none", "ok", "err"}]
    BY <1>4, <1>t DEF Closes, Unanswered, DaemonTypes
  <2>3. QED
    BY <1>4, <1>t, <1>2, <2>1, <2>2 DEF Closes, daemonVars, DaemonTypes
<1>5. ASSUME NEW o \in Ops, AdmitAdrift(o) PROVE Goal
  <2>1. line' \in [Daemons -> Seq(Ops \cup {Mark})]
    <3>1. \A d \in Daemons : Append(line[d], o) \in Seq(Ops \cup {Mark})
      BY <1>t DEF DaemonTypes
    <3>2. QED
      BY <1>5, <1>t, <3>1 DEF AdmitAdrift, DaemonTypes
  <2>2. QED
    BY <1>5, <1>t, <1>2, <2>1 DEF AdmitAdrift, daemonVars, linkVars, DaemonTypes, RelayTypes
<1>6. ASSUME NEW o \in Ops, CoreRuns(o) PROVE Goal
  BY <1>6, <1>t, <1>2 DEF CoreRuns, linkVars, DaemonTypes, RelayTypes
<1>7. ASSUME NEW d \in Daemons, NEW i \in DOMAIN line[d], NEW done \in BOOLEAN, Handle(d, i, done),
             done => Able(d, line[d][i])
      PROVE  Goal
  <2> DEFINE o == line[d][i]
             dt == <<d, op[o].thread>>
  <2>1. o \in Ops
    BY <1>7, <1>t DEF Handle, DaemonTypes
  <2>2. line' \in [Daemons -> Seq(Ops \cup {Mark})]
    <3>1. RemoveAt(line[d], i) \in Seq(Ops \cup {Mark})
      BY <1>t, RemoveAtIs DEF DaemonTypes
    <3>2. line' = [line EXCEPT ![d] = RemoveAt(line[d], i)]
      BY <1>7 DEF Handle, Without
    <3>3. QED
      BY <1>t, <3>1, <3>2 DEF DaemonTypes
  <2>3. answer' \in [Ops -> {"none", "ok", "err"}]
    BY <1>7, <1>t, <2>1 DEF Handle, DaemonTypes
  <2>4. done => op[o].kind \in Lifecycle \/ dt \in loaded
    BY <1>7 DEF Able
  <2>5. op[o].kind \in Lifecycle => dt \in Daemons \X Threads
    BY <1>t, <2>1, RequestTypes DEF Kinds
  <2>6. /\ loaded' = IF done /\ op[o].kind \in Lifecycle THEN loaded \cup {dt} ELSE loaded
        /\ \/ UNCHANGED <<active, goals>>
           \/ /\ done /\ op[o].kind = "turn"
              /\ \/ active' = active \cup {dt} /\ UNCHANGED goals
                 \/ goals' = goals \cup {dt} /\ UNCHANGED active
        /\ core' \in {core, core \cup {o}}
        /\ UNCHANGED <<born, front, up, terms, adrift, open, socket>>
    BY <1>7 DEF Handle, linkVars
  <2>7. op[o].kind = "turn" => op[o].kind \notin Lifecycle
    BY DEF Lifecycle, Creates
  <2> HIDE DEF o, dt
  <2>8. loaded' \subseteq Daemons \X Threads /\ active' \subseteq loaded' /\ terms' \subseteq loaded'
        /\ goals' \subseteq Daemons \X Threads
    BY <1>t, <2>4, <2>5, <2>6, <2>7 DEF DaemonTypes
  <2>9. QED
    BY <1>t, <1>2, <2>1, <2>2, <2>3, <2>6, <2>8 DEF DaemonTypes, RelayTypes
<1>8. ASSUME NEW d \in Daemons, Dies(d) PROVE Goal
  <2>1. open' \in [Conns -> BOOLEAN] /\ socket' \in [Conns -> Seq(Ops)]
    <3>1. /\ open' = [c \in Conns |-> open[c] /\ peer[c] # d]
          /\ socket' = [c \in Conns |-> IF peer[c] = d THEN <<>> ELSE socket[c]]
      BY <1>8 DEF Dies
    <3>2. <<>> \in Seq(Ops)
      OBVIOUS
    <3>3. \A c \in Conns : (IF peer[c] = d THEN <<>> ELSE socket[c]) \in Seq(Ops)
      BY <1>t, <3>2 DEF RelayTypes
    <3>4. socket' \in [Conns -> Seq(Ops)]
      BY <3>1, <3>3
    <3>5. open' \in [Conns -> BOOLEAN]
      BY <3>1
    <3>6. QED
      BY <3>4, <3>5
  <2>2. answer' \in [Ops -> {"none", "ok", "err"}]
    BY <1>8, <1>t DEF Dies, Unanswered, DaemonTypes
  <2>3. line' \in [Daemons -> Seq(Ops \cup {Mark})]
    BY <1>8, <1>t DEF Dies, DaemonTypes
  <2>4. /\ loaded' \subseteq Daemons \X Threads /\ active' \subseteq loaded'
        /\ terms' \subseteq loaded' /\ goals' \subseteq Daemons \X Threads
    BY <1>8, <1>t DEF Dies, DaemonTypes
  <2>5. /\ born' = born /\ front' \in {0, front} /\ up' \subseteq up
        /\ core' \subseteq core /\ adrift' \subseteq adrift
    BY <1>8 DEF Dies
  <2>6. QED
    BY <1>t, <1>2, <2>1, <2>2, <2>3, <2>4, <2>5 DEF DaemonTypes
<1>9. ASSUME Starts PROVE Goal
  <2>1. /\ born' = born + 1 /\ up' = up \cup {born + 1} /\ front' = born + 1 /\ born < MaxPid
        /\ UNCHANGED <<loaded, active, goals, terms, line, core, answer, adrift, open, socket>>
    BY <1>9 DEF Starts, workVars, linkVars
  <2>2. born' \in Daemons /\ front' \in 0..MaxPid /\ up' \subseteq 1..born'
    BY <1>t, <2>1 DEF DaemonTypes
  <2>3. QED
    BY <1>t, <1>2, <2>1, <2>2 DEF DaemonTypes, RelayTypes
<1>10. ASSUME NEW dt \in Daemons \X Threads, ThreadMoves(dt) PROVE Goal
  BY <1>10, <1>t, <1>2 DEF ThreadMoves, workVars, linkVars, DaemonTypes, RelayTypes
<1>11. QED
  BY <1>1, <1>3, <1>4, <1>5, <1>6, <1>7, <1>8, <1>9, <1>10 DEF DaemonStep

LEMMA RelayKeepsTypes ==
    ASSUME CodexTypeOK, Alive, RelayStep
    PROVE  DaemonTypes' /\ RelayTypes' /\ LauncherTypes'
<1> USE Numbers
<1>t. DaemonTypes /\ RelayTypes /\ LauncherTypes
  BY TypeParts
<1>f. RelayFrame
  BY Frames
<1>1. ASSUME NEW S, S \subseteq Ops PROVE Done(S) \in [Ops -> Requests]
  BY <1>t DEF Done, Request, Requests, RelayTypes
<1>2. ASSUME NEW p PROVE InputState(p) \in {"running", "paused"}
  BY DEF InputState
<1>3. ASSUME NEW c \in Conns PROVE ToSet(socket[c]) \subseteq Ops
  <2>1. socket[c] \in Seq(Ops)
    BY <1>t DEF RelayTypes
  <2>2. QED
    BY <2>1 DEF ToSet
<1> DEFINE Goal == RelayTypes' /\ adrift' \subseteq Ops
                   /\ answer' \in [Ops -> {"none", "ok", "err"}]
                   /\ UNCHANGED <<events, shown>>
<1> DEFINE Same == UNCHANGED <<adrift, answer, events, shown>>
<1>4. ASSUME RelayTypes', Same PROVE Goal
  BY <1>t, <1>4 DEF DaemonTypes
<1>5. ASSUME Accept PROVE Goal
  <2>1. Same
    BY <1>5 DEF Accept, relayAlone, workVars, rowVars
  <2>2. RelayTypes'
    BY <1>5, <1>t DEF Accept, gateVars, pauseVars, RelayTypes
  <2>3. QED
    BY <1>4, <2>1, <2>2
<1>6. ASSUME NEW c \in Extras, AcceptExtra(c) PROVE Goal
  <2>1. Same
    BY <1>6 DEF AcceptExtra, relayAlone, workVars, rowVars
  <2>2. RelayTypes'
    BY <1>6, <1>t DEF AcceptExtra, pauseVars, RelayTypes
  <2>3. QED
    BY <1>4, <2>1, <2>2
<1>7. ASSUME NEW c \in Conns, Acknowledge(c) \/ Dialled(c) \/ DialFails(c) PROVE Goal
  <2>1. Same
    BY <1>7 DEF Acknowledge, Dialled, DialFails, relayAlone, workVars, rowVars
  <2>2. CASE Acknowledge(c)
    <3>1. RelayTypes'
      BY <1>2, <2>2, <1>t DEF Acknowledge, linkVars, RelayTypes
    <3>2. QED
      BY <1>4, <2>1, <3>1
  <2>3. CASE Dialled(c)
    <3>1. front \in 0..MaxPid
      BY <1>t DEF DaemonTypes
    <3>2. RelayTypes'
      BY <1>2, <2>3, <1>t, <3>1 DEF Dialled, pauseVars, RelayTypes
    <3>3. QED
      BY <1>4, <2>1, <3>2
  <2>4. CASE DialFails(c)
    <3>1. RelayTypes'
      BY <1>2, <2>4, <1>t DEF DialFails, Over, pauseVars, RelayTypes
    <3>2. QED
      BY <1>4, <2>1, <3>1
  <2>5. QED
    BY <1>7, <2>2, <2>3, <2>4
<1>8. ASSUME NEW c \in Conns, NEW o \in Ops, Write(c, o)
      PROVE  /\ stat' \in [Conns -> {"off", "dial", "up", "end", "gone"}]
             /\ socket' \in [Conns -> Seq(Ops)] /\ pending' \in [Conns -> SUBSET Ops]
             /\ UNCHANGED <<peer, open, uncertain, ack, paused, fresh>> /\ Same
  <2>1. Append(socket[c], o) \in Seq(Ops)
    BY <1>t DEF RelayTypes
  <2>2. socket' \in [Conns -> Seq(Ops)] /\ stat' \in [Conns -> {"off", "dial", "up", "end", "gone"}]
    <3>1. \/ socket' = [socket EXCEPT ![c] = Append(@, o)] /\ stat' = stat
          \/ stat' \in {stat, [stat EXCEPT ![c] = "end"]} /\ socket' = socket
      BY <1>8 DEF Write
    <3>2. socket' \in [Conns -> Seq(Ops)]
      BY <1>t, <2>1, <3>1 DEF RelayTypes
    <3>3. stat' \in [Conns -> {"off", "dial", "up", "end", "gone"}]
      BY <1>t, <3>1 DEF RelayTypes
    <3>4. QED
      BY <3>2, <3>3
  <2>3. pending' \in [Conns -> SUBSET Ops]
    BY <1>8, <1>t DEF Write, RelayTypes
  <2>4. QED
    BY <1>8, <2>2, <2>3 DEF Write, relayAlone, workVars, pauseVars, rowVars
<1>9. ASSUME NEW c \in Conns, Take(c) PROVE Goal
  <2>1. PICK o \in Ops, kind \in Kinds, t \in Threads :
          /\ op' = [op EXCEPT ![o] = Request(kind, t, peer[c])]
          /\ \/ /\ holding' = [holding EXCEPT ![c] = o]
                /\ UNCHANGED <<relayAlone, workVars, stat, peer, open, socket, gateVars, pauseVars>>
             \/ Write(c, o) /\ UNCHANGED holding
    BY <1>9 DEF Take
  <2>2. peer[c] \in Daemons
    BY <1>9 DEF Take, Alive
  <2>3. op' \in [Ops -> Requests]
    BY <1>t, <2>1, <2>2 DEF RelayTypes, Request, Requests
  <2>4. CASE Write(c, o) /\ UNCHANGED holding
    <3>1. RelayTypes'
      BY <1>8, <1>t, <2>3, <2>4 DEF RelayTypes
    <3>2. QED
      BY <1>4, <1>8, <2>4, <3>1
  <2>5. CASE /\ holding' = [holding EXCEPT ![c] = o]
             /\ UNCHANGED <<relayAlone, workVars, stat, peer, open, socket, gateVars, pauseVars>>
    <3>1. RelayTypes'
      BY <1>t, <2>3, <2>5 DEF RelayTypes, gateVars, pauseVars
    <3>2. QED
      BY <1>4, <2>5, <3>1 DEF relayAlone, workVars, rowVars
  <2>6. QED
    BY <2>1, <2>4, <2>5
<1>10. ASSUME NEW c \in Conns, Refuse(c) PROVE Goal
  <2>1. holding[c] \in Ops
    BY <1>10, <1>t DEF Refuse, RelayTypes
  <2>2. op' \in [Ops -> Requests]
    BY <1>1, <1>10, <2>1 DEF Refuse
  <2>3. /\ holding' = [holding EXCEPT ![c] = 0] /\ fresh' = [fresh EXCEPT ![c] = FALSE]
        /\ ack' \in {ack, [ack EXCEPT ![c] = InputState(pending[c])]}
        /\ UNCHANGED <<stat, peer, open, socket, pending, uncertain, paused>>
    BY <1>10 DEF Refuse
  <2>4. ack' \in [Conns -> {"none", "running", "paused"}]
    BY <1>2, <1>t, <2>3 DEF RelayTypes
  <2>5. holding' \in [Conns -> 0..MaxOps] /\ fresh' \in [Conns -> BOOLEAN]
    BY <1>t, <2>3 DEF RelayTypes
  <2>6. RelayTypes'
    <3>1. UNCHANGED <<stat, peer, open, socket, pending, uncertain, paused>>
      BY <2>3
    <3>2. QED
      BY <1>t, <2>2, <2>4, <2>5, <3>1 DEF RelayTypes
  <2>7. QED
    BY <1>4, <1>10, <2>6 DEF Refuse, relayAlone, workVars, rowVars
<1>11. ASSUME NEW c \in Conns, Forward(c) PROVE Goal
  <2>1. holding[c] \in Ops /\ Write(c, holding[c]) /\ holding' = [holding EXCEPT ![c] = 0]
        /\ op' = op
    BY <1>11, <1>t DEF Forward, RelayTypes
  <2>2. RelayTypes'
    BY <1>8, <1>t, <2>1 DEF RelayTypes
  <2>3. QED
    BY <1>4, <1>8, <2>1, <2>2
<1>12. ASSUME NEW c \in Conns, NEW received \in BOOLEAN, Finish(c, received) PROVE Goal
  <2>1. pending[c] \subseteq Ops /\ uncertain[c] \subseteq [o : Ops, received : BOOLEAN]
    BY <1>t DEF RelayTypes
  <2>2. {[o |-> o, received |-> received] : o \in pending[c]} \subseteq [o : Ops, received : BOOLEAN]
    BY <2>1
  <2>3. uncertain' \in [Conns -> SUBSET [o : Ops, received : BOOLEAN]]
    BY <1>12, <1>t, <2>1, <2>2 DEF Finish, RelayTypes
  <2>4. answer' \in [Ops -> {"none", "ok", "err"}] /\ adrift' \subseteq Ops
    BY <1>3, <1>12, <1>t DEF Finish, Unanswered, DaemonTypes
  <2>5. /\ socket' = [socket EXCEPT ![c] = <<>>]
        /\ stat' = [stat EXCEPT ![c] = Over(c)]
        /\ open' = [open EXCEPT ![c] = FALSE] /\ peer' = [peer EXCEPT ![c] = 0]
        /\ pending' = [pending EXCEPT ![c] = {}]
        /\ ack' \in [Conns -> {"none", "running", "paused"}]
        /\ UNCHANGED <<op, holding, paused, fresh, events, shown>>
    BY <1>2, <1>12, <1>t DEF Finish, relayAlone, pauseVars, rowVars, RelayTypes
  <2>6. RelayTypes'
    BY <1>t, <2>3, <2>5 DEF Over, RelayTypes
  <2>7. QED
    BY <2>4, <2>5, <2>6
<1>13. ASSUME NEW c \in Conns, Break(c) \/ Receipt(c) \/ NoReceipt(c) PROVE Goal
  <2>1. CASE \E received \in BOOLEAN : Finish(c, received)
    BY <1>12, <2>1
  <2>2. CASE /\ stat' = [stat EXCEPT ![c] = "end"]
             /\ UNCHANGED <<relayAlone, workVars, op, peer, open, socket, holding, gateVars, pauseVars>>
    <3>1. RelayTypes'
      BY <1>t, <2>2 DEF RelayTypes, gateVars, pauseVars
    <3>2. QED
      BY <1>4, <2>2, <3>1 DEF relayAlone, workVars, rowVars
  <2>3. QED
    BY <1>13, <2>1, <2>2 DEF Break, Receipt, NoReceipt
<1> DEFINE Replies == /\ RelayTypes' /\ adrift' \subseteq Ops
                      /\ answer' \in [Ops -> {"none", "ok", "err"}]
                      /\ events' \in Seq(Threads) /\ shown' \in Threads \cup {None}
<1>14. ASSUME NEW c \in Conns, NEW o \in Ops, Replied(c, o) PROVE Replies
  <2>1. /\ pending' = [pending EXCEPT ![c] = @ \ {o}]
        /\ answer' = [answer EXCEPT ![o] = "none"]
        /\ ack' = [ack EXCEPT ![c] = InputState(pending'[c])]
        /\ UNCHANGED <<adrift, stat, peer, open, socket, holding, paused, fresh>>
    BY <1>14 DEF Replied, linkVars, pauseVars
  <2>2. \E U : uncertain' \in {uncertain, [uncertain EXCEPT ![c] = @ \ U]}
    BY <1>14 DEF Replied
  <2>3. uncertain' \in [Conns -> SUBSET [o : Ops, received : BOOLEAN]]
    <3> DEFINE R == [o : Ops, received : BOOLEAN]
    <3>1. uncertain \in [Conns -> SUBSET R]
      BY <1>t DEF RelayTypes
    <3> HIDE DEF R
    <3>2. uncertain' \in [Conns -> SUBSET R]
      BY <2>2, <3>1
    <3>3. QED
      BY <3>2 DEF R
  <2>4. op' \in [Ops -> Requests]
    <3>1. \A u \in uncertain[c] : u.o \in Ops
      BY <1>t DEF RelayTypes
    <3>2. {p \in {o} \cup {u.o : u \in uncertain[c] \ uncertain'[c]} : op[p].kind # "compact"}
             \subseteq Ops
      BY <3>1
    <3>3. QED
      BY <1>1, <1>14, <3>2 DEF Replied
  <2>5. RelayTypes'
    BY <1>2, <1>t, <2>1, <2>3, <2>4 DEF RelayTypes
  <2>6. events' \in Seq(Threads) /\ shown' \in Threads \cup {None}
    <3>1. CASE UNCHANGED <<events, shown>>
      BY <1>t, <3>1 DEF LauncherTypes
    <3>2. CASE /\ op[o].kind \in Lifecycle
               /\ events' = Append(events, op[o].thread) /\ shown' = op[o].thread
      <4>1. op[o].thread \in Threads
        BY <1>t, <3>2, RequestTypes DEF Kinds
      <4>2. events \in Seq(Threads)
        BY <1>t DEF LauncherTypes
      <4>3. QED
        BY <3>2, <4>1, <4>2
    <3>3. QED
      BY <1>14, <3>1, <3>2 DEF Replied
  <2>7. QED
    BY <1>t, <2>1, <2>5, <2>6 DEF DaemonTypes
<1>15. Replies
  <2>1. Goal => Replies
    BY <1>t DEF LauncherTypes
  <2>2. QED
    BY <1>5, <1>6, <1>7, <1>9, <1>10, <1>11, <1>13, <1>14, <2>1 DEF RelayStep
<1>16. QED
  BY <1>t, <1>f, <1>15 DEF RelayFrame, DaemonTypes, LauncherTypes

LEMMA LauncherKeepsTypes ==
    ASSUME CodexTypeOK, Alive, LaunchStep
    PROVE  DaemonTypes' /\ RelayTypes' /\ LauncherTypes'
<1> USE Numbers
<1>t. DaemonTypes /\ RelayTypes /\ LauncherTypes /\ BackendTypes
  BY TypeParts
<1>1. ASSUME NEW p, Pause(p), p \in BOOLEAN
      PROVE  paused' \in BOOLEAN /\ fresh' \in [Conns -> BOOLEAN]
  BY <1>1 DEF Pause
<1>2. Drained \in Threads \cup {None}
  <2>1. CASE events = <<>>
    BY <1>t, <2>1 DEF Drained, LauncherTypes
  <2>2. CASE events # <<>>
    <3>1. Last(events) \in Threads
      BY <1>t, <2>2 DEF LauncherTypes, Last
    <3>2. QED
      BY <2>2, <3>1 DEF Drained
  <2>3. QED
    BY <2>1, <2>2
<1>3. ASSUME Adopt PROVE events' \in Seq(Threads) /\ selected' \in Threads \cup {None}
  <2>1. <<>> \in Seq(Threads)
    OBVIOUS
  <2>2. QED
    BY <1>2, <1>3, <2>1 DEF Adopt
<1>4. \A d \in Daemons : Unmarked(line[d]) \in Seq(Ops \cup {Mark})
  <2>1. ASSUME NEW d \in Daemons PROVE Unmarked(line[d]) \in Seq(Ops \cup {Mark})
    <3>1. line[d] \in Seq(Ops \cup {Mark})
      BY <1>t DEF DaemonTypes
    <3>2. CASE \E i \in DOMAIN line[d] : line[d][i] = Mark
      BY <3>1, <3>2, RemoveAtIs DEF Unmarked
    <3>3. CASE ~\E i \in DOMAIN line[d] : line[d][i] = Mark
      BY <3>1, <3>3 DEF Unmarked
    <3>4. QED
      BY <3>2, <3>3
  <2>2. QED
    BY <2>1
<1> DEFINE Goal == DaemonTypes' /\ RelayTypes' /\ LauncherTypes'
<1> DEFINE Same == LaunchFrame /\ SameLinks /\ UNCHANGED adrift
<1>5. ASSUME Same, SameRuns, line' \in [Daemons -> Seq(Ops \cup {Mark})] PROVE DaemonTypes'
  BY <1>t, <1>5 DEF LaunchFrame, SameRuns, DaemonTypes
<1>6. ASSUME Same, paused' \in BOOLEAN /\ fresh' \in [Conns -> BOOLEAN] PROVE RelayTypes'
  BY <1>t, <1>6 DEF LaunchFrame, SameLinks, RelayTypes
<1>7. SamePause => paused' \in BOOLEAN /\ fresh' \in [Conns -> BOOLEAN]
  BY <1>t DEF SamePause, RelayTypes
<1>8. SameWork => UNCHANGED adrift /\ line' \in [Daemons -> Seq(Ops \cup {Mark})]
  BY <1>t DEF SameWork, DaemonTypes
<1>9. SameRows => UNCHANGED <<events, selected>>
  BY DEF SameRows
<1>10. LaunchFrame => shown' = shown
  BY DEF LaunchFrame
<1>11. ASSUME Watches PROVE Goal
  <2>1. events # <<>> /\ events \in Seq(Threads)
    BY <1>11, <1>t DEF Watches, LauncherTypes
  <2>2. Head(events) \in Threads /\ Tail(events) \in Seq(Threads)
    BY <2>1
  <2>3. LauncherTypes'
    BY <1>11, <1>t, <1>10, <2>2 DEF Watches, LauncherTypes
  <2>4. QED
    BY <1>5, <1>6, <1>7, <1>8, <1>11, <2>3 DEF Watches
<1>12. ASSUME Begins PROVE Goal
  <2>1. client' \in {None} \cup (Killers \X {"stop", "kill"})
    BY <1>12, <1>t DEF Begins, BackendTypes
  <2>2. LauncherTypes'
    BY <1>12, <1>t, <1>9, <1>10, <2>1 DEF Begins, LauncherTypes
  <2>3. QED
    BY <1>1, <1>5, <1>6, <1>8, <1>12, <2>2 DEF Begins
<1>13. ASSUME Fences PROVE Goal
  <2>1. LauncherTypes'
    BY <1>2, <1>3, <1>10, <1>13, <1>t DEF Fences, LauncherTypes
  <2>2. QED
    BY <1>5, <1>6, <1>7, <1>8, <1>13, <2>1 DEF Fences
<1>14. ASSUME GivesUp PROVE Goal
  <2>1. events' \in Seq(Threads) /\ selected' \in Threads \cup {None}
    BY <1>3, <1>9, <1>14, <1>t DEF GivesUp, LauncherTypes
  <2>2. /\ sup' \in {"run", "unpausing"} /\ UNCHANGED <<how, client, shown>>
        /\ step' \in {"none", "internal"} \cup Either
        /\ fence' = "ok" /\ target' = None /\ cpeer' = 0
        /\ unread' = {} /\ asks' = None /\ fault' = FALSE
    BY <1>10, <1>14 DEF GivesUp, Forgotten
  <2>3. LauncherTypes'
    <3>1. /\ sup' \in {"run", "unpausing"} /\ UNCHANGED <<how, client, shown>>
          /\ fence' = "ok" /\ target' = None /\ asks' = None
          /\ cpeer' \in 0..MaxPid /\ unread' \subseteq Threads
      BY <2>2
    <3>4. fault' \in BOOLEAN
      BY <2>2, Zenon
    <3>2. step' \in {"none", "connect", "fence", "fencing", "goal", "turns", "interrupt",
                     "terminals", "absent", "verify", "verifying", "list", "done"}
                    \cup {"internal"} \cup Either
      BY <2>2
    <3>3. QED
      BY <1>t, <2>1, <3>1, <3>2, <3>4 DEF LauncherTypes
  <2>4. line' \in [Daemons -> Seq(Ops \cup {Mark})]
    BY <1>4, <1>14 DEF GivesUp
  <2>5. QED
    BY <1>1, <1>5, <1>6, <1>14, <2>3, <2>4 DEF GivesUp
<1>15. Cleaning => Same /\ SamePause
  BY DEF Cleaning
<1>16. ASSUME Cleaning, {asks'} \subseteq Threads \cup {None}, cpeer' \in 0..MaxPid,
              unread' \subseteq Threads, fault' \in BOOLEAN,
              step' \in {"none", "connect", "fence", "fencing", "goal", "turns", "interrupt",
                         "terminals", "absent", "verify", "verifying", "list", "done"}
       PROVE  LauncherTypes'
  BY <1>9, <1>10, <1>16, <1>t DEF Cleaning, LauncherTypes
<1>17. ASSUME NEW reads PROVE ToFence(reads) \in {"fence", "done", "goal"}
  BY DEF ToFence
<1>18. ASSUME Connects PROVE Goal
  <2>1. unread' \subseteq Threads
    <3>1. CASE Reads = {}
      BY <1>18, <3>1 DEF Connects
    <3>2. CASE Reads # {}
      <4>1. Fencible(front) /\ Reads = ThreadsToFence
        BY <1>18, <3>2 DEF Connects, Reads
      <4>2. \A u \in Unfinished : u.o \in Ops
        BY <1>t DEF Unfinished, Lost, RelayTypes
      <4>3. \A u \in Unfinished : op[u.o].thread \in Threads
        BY <1>t, <4>1, <4>2, RequestTypes DEF Fencible, Kinds
      <4>4. QED
        BY <1>18, <4>1, <4>3 DEF ThreadsToFence, Connects
    <3>3. QED
      BY <3>1, <3>2
  <2>2. cpeer' \in 0..MaxPid /\ asks' \in Threads \cup {None} /\ fault' \in BOOLEAN
    BY <1>18, <1>t DEF Connects, DaemonTypes, LauncherTypes
  <2>3. LauncherTypes'
    BY <1>16, <1>17, <1>18, <2>1, <2>2 DEF Connects
  <2>4. QED
    BY <1>5, <1>6, <1>7, <1>8, <1>15, <1>18, <2>3 DEF Connects
<1>19. ASSUME Asks PROVE Goal
  <2>1. line' \in [Daemons -> Seq(Ops \cup {Mark})]
    <3>1. \A d \in Daemons : Append(line[d], Mark) \in Seq(Ops \cup {Mark})
      BY <1>t DEF DaemonTypes
    <3>2. QED
      BY <1>19, <1>t, <3>1 DEF Asks, DaemonTypes
  <2>2. LauncherTypes'
    <3>1. asks' \in Threads \cup {None} /\ step' \in {"fencing", "verifying"}
          /\ UNCHANGED <<cpeer, unread, fault>>
      BY <1>19, <1>t DEF Asks, LauncherTypes
    <3>2. QED
      BY <1>16, <1>19, <1>t, <3>1 DEF Asks, LauncherTypes
  <2>3. QED
    BY <1>5, <1>6, <1>7, <1>15, <1>19, <2>1, <2>2 DEF Asks
<1>20. ASSUME NEW i \in DOMAIN line[cpeer], Hears(i) PROVE Goal
  <2>1. cpeer \in Daemons
    BY <1>20, <1>t DEF Hears, DaemonTypes
  <2>2. line' \in [Daemons -> Seq(Ops \cup {Mark})]
    <3>1. RemoveAt(line[cpeer], i) \in Seq(Ops \cup {Mark})
      BY <1>t, <2>1, RemoveAtIs DEF DaemonTypes
    <3>2. QED
      BY <1>20, <1>t, <3>1 DEF Hears, Without, DaemonTypes
  <2>3. LauncherTypes'
    <3>1. /\ asks' = None /\ unread' \subseteq unread /\ UNCHANGED <<cpeer, fault>>
          /\ step' \in {"fence", "done", "goal", "list"}
      BY <1>17, <1>20 DEF Hears
    <3>2. QED
      BY <1>16, <1>20, <1>t, <3>1 DEF Hears, LauncherTypes
  <2>4. QED
    BY <1>5, <1>6, <1>7, <1>15, <1>20, <2>2, <2>3 DEF Hears
<1>21. ASSUME Works PROVE Goal
  <2>1. /\ Cleaning /\ SameWork /\ UNCHANGED <<cpeer, unread, asks>>
        /\ active' \subseteq active /\ goals' \subseteq goals /\ terms' \subseteq terms
        /\ fault' \in {fault, TRUE}
        /\ step' \in {"turns", "interrupt", "terminals", "absent", "verify", "done"}
    BY <1>21 DEF Works, SameRuns
  <2>2. LauncherTypes'
    BY <1>16, <1>t, <2>1 DEF LauncherTypes
  <2>3. DaemonTypes'
    BY <1>8, <1>15, <1>t, <2>1 DEF LaunchFrame, DaemonTypes
  <2>4. QED
    BY <1>6, <1>7, <1>15, <2>1, <2>2, <2>3
<1>22. ASSUME Frees PROVE Goal
  <2>1. LauncherTypes'
    BY <1>9, <1>10, <1>22, <1>t DEF Frees, LauncherTypes
  <2>2. QED
    BY <1>5, <1>6, <1>7, <1>8, <1>22, <2>1 DEF Frees
<1>23. ASSUME Exits PROVE Goal
  <2>1. LauncherTypes'
    BY <1>9, <1>10, <1>23, <1>t DEF Exits, LauncherTypes
  <2>2. \A c \in Conns : Written(c) \subseteq Ops
    <3>1. \A c \in Conns : socket[c] \in Seq(Ops)
      BY <1>t DEF RelayTypes
    <3>2. QED
      BY <3>1 DEF Written, ToSet
  <2>3. DaemonTypes'
    <3>1. /\ LaunchFrame /\ SameRuns /\ line' = [d \in Daemons |-> Unmarked(line[d])]
          /\ adrift' = adrift \cup UNION {Written(c) : c \in Conns}
      BY <1>23 DEF Exits
    <3>2. line' \in [Daemons -> Seq(Ops \cup {Mark})]
      BY <1>4, <3>1
    <3>3. adrift' \subseteq Ops
      <4>1. adrift \subseteq Ops
        BY <1>t DEF DaemonTypes
      <4>2. QED
        BY <2>2, <3>1, <4>1
    <3>4. QED
      BY <1>t, <3>1, <3>2, <3>3 DEF LaunchFrame, SameRuns, DaemonTypes
  <2>4. socket' \in [Conns -> Seq(Ops)]
    <3>1. <<>> \in Seq(Ops) /\ socket' = [c \in Conns |-> <<>>]
      BY <1>23 DEF Exits
    <3>2. QED
      BY <3>1
  <2>5. RelayTypes'
    BY <1>7, <1>23, <1>t, <2>4 DEF Exits, LaunchFrame, RelayTypes
  <2>6. QED
    BY <2>1, <2>3, <2>5
<1>24. ASSUME Idles PROVE Goal
  <2>1. LauncherTypes'
    BY <1>9, <1>10, <1>24, <1>t DEF Idles, LauncherTypes
  <2>2. QED
    BY <1>5, <1>6, <1>7, <1>8, <1>24, <2>1 DEF Idles
<1>25. QED
  BY <1>11, <1>12, <1>13, <1>14, <1>18, <1>19, <1>20, <1>21, <1>22, <1>23, <1>24 DEF LaunchStep

-----------------------------------------------------------------------------
(* The gate *)

\* In the way of a connection's end.
Ends(c) == \E received \in BOOLEAN : Finish(c, received)

LEMMA Endings ==
    ASSUME NEW c \in Conns, Break(c) \/ Receipt(c) \/ NoReceipt(c), Phased, GatedAt(c)
    PROVE  /\ stat[c] \in {"up", "end"} /\ holding[c] = 0 /\ sup # "exited"
           /\ \/ Ends(c)
              \/ /\ stat[c] = "up" /\ stat' = [stat EXCEPT ![c] = "end"]
                 /\ UNCHANGED <<relayAlone, workVars, op, peer, open, socket, holding, gateVars,
                                pauseVars>>
BY DEF Break, Receipt, NoReceipt, Ends, Phased, GatedAt

LEMMA RelayGates ==
    ASSUME RelayTypes, Gated, RelayStep
    PROVE  \A e \in Conns : GatedAt(e)'
<1> USE Numbers
<1>g. Phased /\ \A e \in Conns : GatedAt(e)
  BY DEF Gated
<1>f. UNCHANGED <<paused, sup>>
  BY Frames DEF RelayFrame
<1> DEFINE Kept(e) == UNCHANGED <<stat[e], pending[e], holding[e], ack[e], fresh[e]>>
<1>k. ASSUME NEW e \in Conns, Kept(e) PROVE GatedAt(e)'
  BY <1>g, <1>f, <1>k DEF GatedAt
<1> HIDE DEF Kept
<1> SUFFICES ASSUME NEW e \in Conns PROVE GatedAt(e)'
  OBVIOUS
<1>1. CASE Accept
  <2>1. stat[Main] = "off" /\ UNCHANGED <<pending, holding, ack, fresh>>
        /\ stat' = [stat EXCEPT ![Main] = "dial"]
    BY <1>1 DEF Accept, gateVars, pauseVars
  <2>2. CASE e = Main
    BY <1>g, <1>f, <2>1, <2>2 DEF GatedAt, RelayTypes
  <2>3. CASE e # Main
    BY <1>k, <2>1, <2>3 DEF Kept, RelayTypes
  <2>4. QED
    BY <2>2, <2>3
<1>2. ASSUME NEW c \in Extras, AcceptExtra(c) PROVE GatedAt(e)'
  <2>1. stat[c] = "off" /\ UNCHANGED <<pending, holding, fresh>>
        /\ stat' = [stat EXCEPT ![c] = "dial"] /\ ack' = [ack EXCEPT ![c] = "running"]
    BY <1>2 DEF AcceptExtra, pauseVars
  <2>2. CASE e = c
    BY <1>g, <1>f, <2>1, <2>2 DEF GatedAt, RelayTypes
  <2>3. CASE e # c
    BY <1>k, <2>1, <2>3 DEF Kept, RelayTypes
  <2>4. QED
    BY <2>2, <2>3
<1>3. ASSUME NEW c \in Conns, Acknowledge(c) PROVE GatedAt(e)'
  <2>1. /\ holding[c] = 0 /\ UNCHANGED <<pending, holding, stat>>
        /\ fresh' = [fresh EXCEPT ![c] = FALSE]
        /\ ack' = [ack EXCEPT ![c] = InputState(pending[c])]
    BY <1>3 DEF Acknowledge, linkVars
  <2>2. CASE e = c
    BY <1>g, <1>f, <2>1, <2>2 DEF GatedAt, RelayTypes, InputState
  <2>3. CASE e # c
    BY <1>k, <2>1, <2>3 DEF Kept, RelayTypes
  <2>4. QED
    BY <2>2, <2>3
<1>4. ASSUME NEW c \in Conns, Dialled(c) PROVE GatedAt(e)'
  <2>1. /\ stat[c] = "dial" /\ UNCHANGED <<pending, holding, fresh>>
        /\ stat' = [stat EXCEPT ![c] = "up"]
        /\ ack' = IF c = Main THEN ack ELSE [ack EXCEPT ![c] = InputState({})]
    BY <1>4 DEF Dialled, pauseVars
  <2>2. CASE e = c
    BY <1>g, <1>f, <2>1, <2>2 DEF GatedAt, RelayTypes, InputState
  <2>3. CASE e # c
    BY <1>k, <2>1, <2>3 DEF Kept, RelayTypes
  <2>4. QED
    BY <2>2, <2>3
<1>5. ASSUME NEW c \in Conns, DialFails(c) PROVE GatedAt(e)'
  <2>1. /\ stat[c] = "dial" /\ UNCHANGED <<pending, holding, fresh>>
        /\ stat' = [stat EXCEPT ![c] = Over(c)]
        /\ ack' = [ack EXCEPT ![c] = IF c = Main THEN InputState({}) ELSE "none"]
    BY <1>5 DEF DialFails, pauseVars
  <2>2. CASE e = c
    BY <1>g, <1>f, <2>1, <2>2 DEF GatedAt, RelayTypes, InputState, Over
  <2>3. CASE e # c
    BY <1>k, <2>1, <2>3 DEF Kept, RelayTypes
  <2>4. QED
    BY <2>2, <2>3
<1>6. ASSUME NEW c \in Conns, Take(c) PROVE GatedAt(e)'
  <2>1. /\ stat[c] = "up" /\ holding[c] = 0 /\ ~fresh[c] /\ ~paused
        /\ UNCHANGED <<ack, fresh>>
        /\ \/ /\ \E o \in Ops : holding' = [holding EXCEPT ![c] = o]
              /\ UNCHANGED <<pending, stat>>
           \/ /\ \E o \in Ops : pending' = [pending EXCEPT ![c] = @ \cup {o}]
              /\ stat' \in {stat, [stat EXCEPT ![c] = "end"]} /\ UNCHANGED holding
    BY <1>6 DEF Take, Write, gateVars, pauseVars
  <2>2. ack[c] = "running"
    BY <1>g, <2>1 DEF GatedAt, Phased
  <2>3. CASE e = c
    BY <1>g, <1>f, <2>1, <2>2, <2>3 DEF GatedAt, RelayTypes
  <2>4. CASE e # c
    BY <1>k, <2>1, <2>4 DEF Kept, RelayTypes
  <2>5. QED
    BY <2>3, <2>4
<1>7. ASSUME NEW c \in Conns, Refuse(c) PROVE GatedAt(e)'
  <2>1. /\ holding[c] # 0 /\ paused /\ UNCHANGED <<pending, stat>>
        /\ holding' = [holding EXCEPT ![c] = 0] /\ fresh' = [fresh EXCEPT ![c] = FALSE]
        /\ ack' = IF c = Main THEN [ack EXCEPT ![c] = InputState(pending[c])] ELSE ack
    BY <1>7 DEF Refuse
  <2>2. CASE e = c
    BY <1>g, <1>f, <2>1, <2>2 DEF GatedAt, RelayTypes, InputState
  <2>3. CASE e # c
    BY <1>k, <2>1, <2>3 DEF Kept, RelayTypes
  <2>4. QED
    BY <2>2, <2>3
<1>8. ASSUME NEW c \in Conns, Forward(c) PROVE GatedAt(e)'
  <2>1. /\ holding[c] # 0 /\ UNCHANGED <<ack, fresh>>
        /\ pending' = [pending EXCEPT ![c] = @ \cup {holding[c]}]
        /\ stat' \in {stat, [stat EXCEPT ![c] = "end"]}
        /\ holding' = [holding EXCEPT ![c] = 0]
    BY <1>8 DEF Forward, Write, pauseVars
  <2>2. CASE e = c
    BY <1>g, <1>f, <2>1, <2>2 DEF GatedAt, RelayTypes
  <2>3. CASE e # c
    BY <1>k, <2>1, <2>3 DEF Kept, RelayTypes
  <2>4. QED
    BY <2>2, <2>3
<1>9. ASSUME NEW c \in Conns, Break(c) \/ Receipt(c) \/ NoReceipt(c) PROVE GatedAt(e)'
  <2>1. CASE Ends(c)
    <3>1. /\ holding[c] = 0 /\ UNCHANGED <<holding, fresh>>
          /\ pending' = [pending EXCEPT ![c] = {}]
          /\ stat' = [stat EXCEPT ![c] = Over(c)]
          /\ \E x : ack' = [ack EXCEPT ![c] = IF c = Main THEN InputState({}) ELSE x]
      BY <1>9, <1>g, <2>1, Endings DEF Ends, Finish, pauseVars
    <3>2. CASE e = c
      BY <1>g, <1>f, <3>1, <3>2 DEF GatedAt, RelayTypes, InputState, Over
    <3>3. CASE e # c
      BY <1>k, <3>1, <3>3 DEF Kept, RelayTypes
    <3>4. QED
      BY <3>2, <3>3
  <2>2. CASE /\ stat[c] = "up" /\ stat' = [stat EXCEPT ![c] = "end"]
             /\ UNCHANGED <<relayAlone, workVars, op, peer, open, socket, holding, gateVars,
                            pauseVars>>
    <3>1. holding[c] = 0 /\ UNCHANGED <<pending, holding, ack, fresh>>
      BY <1>9, <1>g, <2>2, Endings DEF gateVars, pauseVars
    <3>2. CASE e = c
      BY <1>g, <1>f, <2>2, <3>1, <3>2 DEF GatedAt, RelayTypes
    <3>3. CASE e # c
      BY <1>k, <2>2, <3>1, <3>3 DEF Kept, RelayTypes
    <3>4. QED
      BY <3>2, <3>3
  <2>3. QED
    BY <1>9, <1>g, <2>1, <2>2, Endings
<1>10. ASSUME NEW c \in Conns, NEW o \in Ops, Replied(c, o) PROVE GatedAt(e)'
  <2>1. /\ holding[c] = 0 /\ UNCHANGED <<holding, stat, fresh>>
        /\ pending' = [pending EXCEPT ![c] = @ \ {o}]
        /\ ack' = [ack EXCEPT ![c] = InputState(pending'[c])]
    BY <1>10 DEF Replied, linkVars, pauseVars
  <2>2. CASE e = c
    BY <1>g, <1>f, <2>1, <2>2 DEF GatedAt, RelayTypes, InputState
  <2>3. CASE e # c
    BY <1>k, <2>1, <2>3 DEF Kept, RelayTypes
  <2>4. QED
    BY <2>2, <2>3
<1>11. QED
  BY <1>1, <1>2, <1>3, <1>4, <1>5, <1>6, <1>7, <1>8, <1>9, <1>10 DEF RelayStep

\* While the cleanup runs, and once it has ended well, no connection gets or has a request.
LEMMA RelayPhases ==
    ASSUME RelayTypes, Gated, RelayStep
    PROVE  /\ Phased'
           /\ sup = "exited" => UNCHANGED <<stat, pending, holding>>
<1> USE Numbers
<1>g. Phased /\ \A e \in Conns : GatedAt(e)
  BY DEF Gated
<1>f. UNCHANGED <<paused, sup, how, step, fault, client>>
  BY Frames DEF RelayFrame
<1>1. sup # "exited"
  <2> SUFFICES ASSUME sup = "exited" PROVE FALSE
    OBVIOUS
  <2>1. \A c \in Conns : stat[c] = "gone" /\ holding[c] = 0
    BY <1>g DEF Phased
  <2>2. ~Accept
    BY <2>1 DEF Accept
  <2>3. ASSUME NEW c \in Extras PROVE ~AcceptExtra(c)
    BY <2>1 DEF AcceptExtra
  <2>4. ASSUME NEW c \in Conns PROVE ~(Acknowledge(c) \/ Dialled(c) \/ DialFails(c) \/ Take(c))
    BY <2>1 DEF Acknowledge, Dialled, DialFails, Take
  <2>5. ASSUME NEW c \in Conns PROVE ~(Refuse(c) \/ Forward(c))
    BY <2>1 DEF Refuse, Forward
  <2>6. ASSUME NEW c \in Conns PROVE ~(Break(c) \/ Receipt(c) \/ NoReceipt(c))
    BY <2>1 DEF Break, Receipt, NoReceipt
  <2>7. ASSUME NEW c \in Conns, NEW o \in Ops PROVE ~Replied(c, o)
    BY <2>1 DEF Replied
  <2>8. QED
    BY <2>2, <2>3, <2>4, <2>5, <2>6, <2>7 DEF RelayStep
<1>2. ASSUME sup = "cleaning", NEW e \in Conns PROVE pending'[e] = {} /\ holding'[e] = 0
  <2>1. paused /\ \A c \in Conns : pending[c] = {} /\ holding[c] = 0
    BY <1>g, <1>2 DEF Phased
  <2> DEFINE Goal == UNCHANGED holding /\ pending'[e] = {}
  <2>2. ASSUME Accept PROVE Goal
    BY <2>1, <2>2 DEF Accept, gateVars
  <2>3. ASSUME NEW c \in Extras, AcceptExtra(c) PROVE Goal
    BY <2>1, <2>3 DEF AcceptExtra
  <2>4. ASSUME NEW c \in Conns, Acknowledge(c) \/ Dialled(c) \/ DialFails(c) PROVE Goal
    BY <2>1, <2>4 DEF Acknowledge, Dialled, DialFails, linkVars
  <2>5. ASSUME NEW c \in Conns PROVE ~(Take(c) \/ Refuse(c) \/ Forward(c))
    BY <2>1 DEF Take, Refuse, Forward
  <2>6. ASSUME NEW c \in Conns, Ends(c) PROVE Goal
    BY <2>1, <2>6 DEF Ends, Finish, RelayTypes
  <2>7. ASSUME NEW c \in Conns, Break(c) \/ Receipt(c) \/ NoReceipt(c) PROVE Goal
    <3>1. CASE Ends(c)
      BY <2>6, <3>1
    <3>2. CASE UNCHANGED <<relayAlone, workVars, op, peer, open, socket, holding, gateVars,
                           pauseVars>>
      BY <2>1, <3>2 DEF gateVars
    <3>3. QED
      BY <1>g, <2>7, <3>1, <3>2, Endings
  <2>8. ASSUME NEW c \in Conns, NEW o \in Ops PROVE ~Replied(c, o)
    BY <2>1 DEF Replied
  <2>9. Goal
    BY <2>2, <2>3, <2>4, <2>5, <2>7, <2>8 DEF RelayStep
  <2>10. QED
    BY <2>1, <2>9
<1>3. QED
  BY <1>g, <1>f, <1>1, <1>2 DEF Phased

LEMMA GatedKept ==
    ASSUME CodexTypeOK, Gated, DaemonStep \/ RelayStep \/ LaunchStep
    PROVE  Gated'
<1> USE Numbers
<1>t. RelayTypes /\ LauncherTypes
  BY TypeParts
<1>g. Phased /\ \A c \in Conns : GatedAt(c)
  BY DEF Gated
<1>1. CASE DaemonStep
  <2>1. DaemonFrame
    BY <1>1, Frames
  <2>2. QED
    BY <1>g, <2>1 DEF DaemonFrame, Gated, Phased, GatedAt
<1>2. CASE RelayStep
  BY <1>2, <1>t, RelayGates, RelayPhases DEF Gated
<1>3. CASE LaunchStep
  <2>1. CASE sup' = sup /\ how' = how /\ client' = client /\ SamePause /\ LaunchFrame /\ SameLinks
             /\ (sup = "cleaning" \/ UNCHANGED <<step, fault>>)
    BY <1>g, <2>1 DEF SamePause, LaunchFrame, SameLinks, Gated, Phased, GatedAt
  <2>2. CASE Watches \/ Idles
    BY <2>1, <2>2 DEF Watches, Idles
  <2>3. CASE Connects \/ Asks \/ Works \/ \E i \in DOMAIN line[cpeer] : Hears(i)
    <3>1. Cleaning
      BY <2>3 DEF Connects, Asks, Works, Hears
    <3>2. QED
      BY <2>1, <3>1 DEF Cleaning
  <2>4. CASE Begins
    <3>1. /\ sup = "run" /\ sup' = "pausing" /\ paused' = TRUE
          /\ UNCHANGED <<pending, holding, ack, stat, step, fault, how>>
      BY <2>4 DEF Begins, Pause, LaunchFrame, SameLinks
    <3>2. \A c \in Conns : GatedAt(c)'
      BY <1>g, <3>1 DEF GatedAt
    <3>3. Phased'
      BY <1>g, <3>1 DEF Phased
    <3>4. QED
      BY <3>2, <3>3 DEF Gated
  <2>5. CASE Fences
    <3>1. /\ sup = "pausing" /\ sup' = "cleaning"
          /\ UNCHANGED <<pending, holding, ack, stat, paused, fresh, fault, how>>
      BY <2>5 DEF Fences, LaunchFrame, SameLinks, SamePause
    <3>2. \A c \in Conns : pending[c] = {} /\ holding[c] = 0
      BY <1>g, <2>5 DEF Fences, Running, GatedAt
    <3>3. \A c \in Conns : GatedAt(c)'
      BY <1>g, <3>1 DEF GatedAt
    <3>4. Phased'
      BY <1>g, <3>1, <3>2 DEF Phased
    <3>5. QED
      BY <3>3, <3>4 DEF Gated
  <2>6. CASE GivesUp
    <3>1. /\ sup' = IF client = None THEN "run" ELSE "unpausing"
          /\ paused' = FALSE /\ fault' = FALSE
          /\ fresh' = [c \in Conns |-> c = Main \/ stat[c] \in {"dial", "up", "end"}]
          /\ client = None => step' = "none"
          /\ sup \in {"pausing", "cleaning"}
          /\ UNCHANGED <<pending, holding, ack, stat, how, client>>
      BY <2>6 DEF GivesUp, Pause, Forgotten, LaunchFrame, SameLinks
    <3>2. \A c \in Conns : GatedAt(c)'
      BY <1>g, <3>1 DEF GatedAt
    <3>3. Phased'
      BY <1>g, <3>1 DEF Phased
    <3>4. QED
      BY <3>2, <3>3 DEF Gated
  <2>7. CASE Frees
    <3>1. /\ sup = "unpausing" /\ sup' = "run" /\ step' = "none"
          /\ UNCHANGED <<pending, holding, ack, stat, paused, fresh, fault, how>>
      BY <2>7 DEF Frees, LaunchFrame, SameLinks, SamePause
    <3>2. \A c \in Conns : GatedAt(c)'
      BY <1>g, <3>1 DEF GatedAt
    <3>3. Phased'
      BY <1>g, <3>1 DEF Phased
    <3>4. QED
      BY <3>2, <3>3 DEF Gated
  <2>8. CASE Exits
    <3>1. /\ sup' = "exited" /\ how' \in {"clean", "forced"}
          /\ how' = "clean" => sup = "cleaning"
          /\ stat' = [c \in Conns |-> "gone"] /\ holding' = [c \in Conns |-> 0]
          /\ UNCHANGED <<pending, ack, paused, fresh>>
      BY <2>8 DEF Exits, LaunchFrame, SamePause
    <3>2. \A c \in Conns : GatedAt(c)'
      BY <1>g, <3>1 DEF GatedAt
    <3>3. Phased'
      BY <1>g, <3>1 DEF Phased
    <3>4. QED
      BY <3>2, <3>3 DEF Gated
  <2>9. QED
    BY <1>3, <2>2, <2>3, <2>4, <2>5, <2>6, <2>7, <2>8 DEF LaunchStep
<1>4. QED
  BY <1>1, <1>2, <1>3

-----------------------------------------------------------------------------
(* What the TUI shows *)

LEMMA RelayRows ==
    ASSUME RelayStep
    PROVE  UNCHANGED <<events, shown>> \/ \E c \in Conns, o \in Ops : Replied(c, o)
<1> DEFINE Same == UNCHANGED <<events, shown>>
<1> USE DEF relayAlone, rowVars
<1>1. Accept => Same
  BY DEF Accept
<1>2. ASSUME NEW c, AcceptExtra(c) \/ Acknowledge(c) \/ Dialled(c) \/ DialFails(c) PROVE Same
  BY <1>2 DEF AcceptExtra, Acknowledge, Dialled, DialFails
<1>3. ASSUME NEW c, Take(c) PROVE Same
  BY <1>3 DEF Take, Write
<1>4. ASSUME NEW c, Refuse(c) \/ Forward(c) PROVE Same
  BY <1>4 DEF Refuse, Forward, Write
<1>5. ASSUME NEW c, Break(c) \/ Receipt(c) \/ NoReceipt(c) PROVE Same
  BY <1>5 DEF Break, Receipt, NoReceipt, Finish
<1> HIDE DEF Same
<1>6. Same \/ \E c \in Conns, o \in Ops : Replied(c, o)
  BY <1>1, <1>2, <1>3, <1>4, <1>5 DEF RelayStep
<1>7. QED
  BY <1>6 DEF Same

LEMMA FollowedKept ==
    ASSUME CodexTypeOK, Gated, Followed, DaemonStep \/ RelayStep \/ LaunchStep
    PROVE  Followed'
<1>t. RelayTypes /\ LauncherTypes
  BY TypeParts
<1>p. Phased
  BY DEF Gated
<1>s. events \in Seq(Threads)
  BY <1>t DEF LauncherTypes
<1>k. ASSUME UNCHANGED <<events, selected, shown, sup, how, target>> PROVE Followed'
  BY <1>k DEF Followed, Drained
<1>1. CASE DaemonStep
  <2>1. DaemonFrame
    BY <1>1, Frames
  <2>2. QED
    BY <1>k, <2>1 DEF DaemonFrame
<1>2. CASE RelayStep
  <2>1. UNCHANGED <<selected, sup, how, target>>
    BY <1>2, Frames DEF RelayFrame
  <2>2. ASSUME NEW c \in Conns, NEW o \in Ops, Replied(c, o) PROVE Followed'
    <3>1. sup # "cleaning" /\ how # "clean"
      BY <1>p, <2>2 DEF Phased, Replied
    <3>2. CASE UNCHANGED <<events, shown>>
      BY <1>k, <2>1, <3>2
    <3>3. CASE events' = Append(events, op[o].thread) /\ shown' = op[o].thread
      <4>1. events' # <<>> /\ Last(events') = op[o].thread
        BY <1>s, <3>3 DEF Last
      <4>2. QED
        BY <2>1, <3>1, <3>3, <4>1 DEF Followed, Drained
    <3>4. QED
      BY <2>2, <3>2, <3>3 DEF Replied
  <2>3. QED
    BY <1>2, <1>k, <2>1, <2>2, RelayRows
<1>a. ASSUME Adopt PROVE Drained' = Drained
  BY <1>a DEF Adopt, Drained
<1>3. CASE LaunchStep
  <2>1. CASE Watches
    <3>1. Drained' = Drained
      <4>1. events # <<>> /\ selected' = Head(events) /\ events' = Tail(events)
        BY <2>1 DEF Watches
      <4>2. Len(events) \in Nat \ {0} /\ Head(events) = events[1]
        BY <1>s, <4>1
      <4>3. CASE Len(events) = 1
        <5>1. Tail(events) = <<>>
          BY <1>s, <4>1, <4>3
        <5>2. QED
          BY <4>1, <4>2, <4>3, <5>1 DEF Drained, Last
      <4>4. CASE Len(events) # 1
        <5>1. /\ Tail(events) # <<>> /\ Len(Tail(events)) = Len(events) - 1
              /\ Tail(events)[Len(events) - 1] = events[Len(events)]
          <6>1. /\ Len(Tail(events)) = Len(events) - 1
                /\ \A i \in 1..(Len(events) - 1) : Tail(events)[i] = events[i + 1]
            BY <1>s, <4>1
          <6>2. Len(events) - 1 \in 1..(Len(events) - 1) /\ (Len(events) - 1) + 1 = Len(events)
                /\ Len(events) - 1 # 0
            BY <4>2, <4>4
          <6>3. Tail(events) # <<>>
            BY <6>1, <6>2
          <6>4. QED
            BY <6>1, <6>2, <6>3
        <5>2. QED
          BY <4>1, <5>1 DEF Drained, Last
      <4>5. QED
        BY <4>3, <4>4
    <3>2. QED
      BY <2>1, <3>1 DEF Watches, LaunchFrame, Followed
  <2>2. CASE Begins
    BY <1>p, <2>2 DEF Begins, LaunchFrame, SameRows, Followed, Drained, Phased
  <2>3. CASE Fences
    BY <1>a, <2>3 DEF Fences, LaunchFrame, Followed
  <2>4. CASE GivesUp
    <3>1. Drained' = Drained
      BY <1>a, <2>4 DEF GivesUp, SameRows, Drained
    <3>2. sup' # "cleaning" /\ how' # "clean" /\ shown' = shown
      BY <1>p, <2>4 DEF GivesUp, LaunchFrame, Phased
    <3>3. QED
      BY <3>1, <3>2 DEF Followed
  <2>5. CASE Connects \/ Asks \/ Works \/ \E i \in DOMAIN line[cpeer] : Hears(i)
    <3>1. Cleaning
      BY <2>5 DEF Connects, Asks, Works, Hears
    <3>2. QED
      BY <1>k, <3>1 DEF Cleaning, SameRows, LaunchFrame
  <2>6. CASE Frees
    BY <1>p, <2>6 DEF Frees, LaunchFrame, SameRows, Followed, Drained, Phased
  <2>7. CASE Exits
    BY <2>7 DEF Exits, LaunchFrame, SameRows, Followed, Drained
  <2>8. CASE Idles
    BY <1>k, <2>8 DEF Idles, SameRows, LaunchFrame
  <2>9. QED
    BY <1>3, <2>1, <2>2, <2>3, <2>4, <2>5, <2>6, <2>7, <2>8 DEF LaunchStep
<1>4. QED
  BY <1>1, <1>2, <1>3

-----------------------------------------------------------------------------
(* The requests a reply, or a refusal, is the end of are not on their way *)

LEMMA Places ==
    ASSUME CodexTypeOK
    PROVE  /\ \A c \in Conns : socket[c] \in Seq(Ops) /\ Written(c) \subseteq Ops
           /\ \A d \in Daemons : line[d] \in Seq(Ops \cup {Mark}) /\ Listed(d) \subseteq Ops
           /\ adrift \subseteq Ops /\ up \subseteq Daemons
           /\ \A o : Moves(o) => o \in Ops
           /\ \A c \in Conns : pending[c] \subseteq Ops
                               /\ uncertain[c] \subseteq [o : Ops, received : BOOLEAN]
           /\ \A c \in Conns : holding[c] # 0 => holding[c] \in Ops
           /\ \A u \in Lost : u.o \in Ops /\ u.received \in BOOLEAN
<1> USE Numbers
<1>t. DaemonTypes /\ RelayTypes
  BY TypeParts
<1>1. \A c \in Conns : socket[c] \in Seq(Ops)
  BY <1>t DEF RelayTypes
<1>2. \A d \in Daemons : line[d] \in Seq(Ops \cup {Mark})
  BY <1>t DEF DaemonTypes
<1>3. \A c \in Conns : Written(c) \subseteq Ops
  BY <1>1 DEF Written, ToSet
<1>4. \A d \in Daemons : Listed(d) \subseteq Ops
  BY <1>2 DEF Listed, ToSet
<1>5. adrift \subseteq Ops
  BY <1>t DEF DaemonTypes
<1>6. \A c \in Conns : pending[c] \subseteq Ops
                       /\ uncertain[c] \subseteq [o : Ops, received : BOOLEAN]
  BY <1>t DEF RelayTypes
<1>7. \A c \in Conns : holding[c] # 0 => holding[c] \in Ops
  BY <1>t DEF RelayTypes
<1>8. \A u \in Lost : u.o \in Ops /\ u.received \in BOOLEAN
  <2> SUFFICES ASSUME NEW u \in Lost PROVE u.o \in Ops /\ u.received \in BOOLEAN
    OBVIOUS
  <2>1. PICK c \in Conns : u \in uncertain[c]
    BY DEF Lost
  <2>2. u \in [o : Ops, received : BOOLEAN]
    BY <1>6, <2>1
  <2>3. QED
    BY <2>2
<1>9. \A o : Moves(o) => o \in Ops
  BY <1>3, <1>4, <1>5 DEF Moves
<1>10. up \subseteq Daemons
  BY <1>t DEF DaemonTypes
<1>11. QED
  BY <1>1, <1>2, <1>3, <1>4, <1>5, <1>6, <1>7, <1>8, <1>9, <1>10

\* o is done: nobody waits for it, holds it or has lost it.
Retired(o) ==
    /\ ~Moves(o) /\ op[o].kind # "compact"
    /\ \A c \in Conns : o \notin pending'[c] /\ holding'[c] # o /\ \A u \in uncertain'[c] : u.o # o

LEMMA RefusedRetires ==
    ASSUME CodexTypeOK, Placed, Booked, NEW c \in Conns, Refuse(c)
    PROVE  \E S \in SUBSET Ops : op' = Done(S) /\ \A o \in S : Retired(o)
<1> DEFINE h == holding[c]
<1>1. h # 0 /\ op' = Done({h}) /\ UNCHANGED <<pending, uncertain>>
      /\ holding' = [holding EXCEPT ![c] = 0]
  BY DEF Refuse
<1>2. h \in Ops
  BY <1>1, Places
<1>3. op[h].kind # "compact"
  BY <1>1 DEF Booked, Prepared
<1>4. RelayTypes
  BY TypeParts
<1>5. ASSUME NEW e \in Conns PROVE holding'[e] # h
  BY <1>1, <1>4, <1>2, Numbers DEF Booked, RelayTypes
<1>6. Retired(h)
  BY <1>1, <1>3, <1>5 DEF Booked, Retired
<1>7. QED
  BY <1>1, <1>2, <1>6

LEMMA RepliedRetires ==
    ASSUME CodexTypeOK, Placed, Booked, InOrder, NEW c \in Conns, NEW o \in Ops, Replied(c, o)
    PROVE  \E S \in SUBSET Ops : op' = Done(S) /\ \A p \in S : Retired(p)
<1> DEFINE S == {p \in {o} \cup {u.o : u \in uncertain[c] \ uncertain'[c]} :
                     op[p].kind # "compact"}
<1>1. /\ op' = Done(S) /\ o \in pending[c] /\ answer[o] # "none" /\ holding' = holding
      /\ pending' = [pending EXCEPT ![c] = @ \ {o}]
  BY DEF Replied, linkVars
<1>2. /\ \A e \in Conns : uncertain'[e] \subseteq uncertain[e]
      /\ \A u \in uncertain[c] \ uncertain'[c] :
            u.received /\ op[u.o].to = peer[c] /\ op[u.o].thread = op[o].thread
  BY TypeParts DEF Replied, RelayTypes
<1>3. S \subseteq Ops
  BY Places
<1>4. ASSUME op[o].kind # "compact" PROVE Retired(o)
  <2>1. ~Moves(o)
    BY <1>1 DEF Placed
  <2>2. ASSUME NEW e \in Conns
        PROVE  o \notin pending'[e] /\ holding[e] # o /\ \A u \in uncertain[e] : u.o # o
    <3>1. o \notin pending'[e]
      BY <1>1, TypeParts DEF Booked, RelayTypes
    <3>2. holding[e] # o
      BY <1>1, Numbers DEF Booked
    <3>3. \A u \in uncertain[e] : u.o # o
      BY <1>1 DEF Booked
    <3>4. QED
      BY <3>1, <3>2, <3>3
  <2>3. QED
    BY <1>1, <1>2, <1>4, <2>1, <2>2 DEF Retired
<1>5. ASSUME NEW u \in uncertain[c] \ uncertain'[c], op[u.o].kind # "compact" PROVE Retired(u.o)
  <2>0. u.o \in Ops /\ u \in uncertain[c]
    BY Places
  <2>1. ~Moves(u.o)
    <3>1. u.o \notin adrift
      BY <1>2 DEF Booked
    <3>2. \A e \in Conns : u.o \notin Written(e)
      BY <2>0 DEF Booked, Placed
    <3>3. ASSUME NEW d \in Daemons, u.o \in Listed(d) PROVE FALSE
      <4>1. d = peer[c]
        BY <1>2, <3>3 DEF Placed
      <4>2. QED
        BY <1>1, <1>2, <3>3, <4>1 DEF InOrder
    <3>4. QED
      BY <3>1, <3>2, <3>3 DEF Moves
  <2>2. ASSUME NEW e \in Conns
        PROVE  u.o \notin pending'[e] /\ holding[e] # u.o /\ \A v \in uncertain'[e] : v.o # u.o
    <3>1. u.o \notin pending[e] /\ holding[e] # u.o
          /\ \A v \in uncertain[e] : v.o = u.o => e = c /\ v = u
      BY <2>0 DEF Booked
    <3>2. pending'[e] \subseteq pending[e]
      BY <1>1, TypeParts DEF RelayTypes
    <3>3. QED
      BY <1>2, <3>1, <3>2
  <2>3. QED
    BY <1>1, <1>5, <2>1, <2>2 DEF Retired
<1>6. ASSUME NEW p \in S PROVE Retired(p)
  <2>1. p = o \/ \E u \in uncertain[c] \ uncertain'[c] : p = u.o
    OBVIOUS
  <2>2. op[p].kind # "compact"
    OBVIOUS
  <2>3. QED
    BY <1>4, <1>5, <2>1, <2>2
<1> HIDE DEF S
<1>7. QED
  BY <1>1, <1>3, <1>6

-----------------------------------------------------------------------------
(* The lines, when the relay does nothing *)

LineMoves(d) ==
    /\ Distinct(line'[d])
    /\ line'[d] # <<>> => d \in up'
    /\ \A x \in Listed(d)' :
          \/ x \in Listed(d)
          \/ /\ op[x].to = d
             /\ x \in adrift \ adrift' \/ \E c \in Conns : x \in Written(c) \ Written(c)'
    /\ \A x \in Listed(d), y \in Ops \cup {Mark} :
          Ahead(line[d], x, y) => Ahead(line'[d], x, y)

SocketMoves(c) ==
    /\ Distinct(socket'[c])
    /\ Written(c)' \subseteq Written(c)
    /\ Written(c)' # {} => open'[c]

Moved ==
    /\ \A d \in Daemons : LineMoves(d)
    /\ \A c \in Conns : SocketMoves(c)
    /\ adrift' \subseteq adrift
    /\ \A x \in Ops : Moves(x)' => answer'[x] = "none"
    /\ \A x \in Ops : answer'[x] # "none" => \E c \in Conns : x \in pending[c]

LEMMA LineStays ==
    ASSUME NEW d \in Daemons, Distinct(line[d]), line[d] # <<>> => d \in up', line'[d] = line[d]
    PROVE  LineMoves(d)
BY DEF LineMoves, Listed

LEMMA LineEmptied ==
    ASSUME NEW d \in Daemons, line'[d] = <<>>
    PROVE  LineMoves(d)
<1>1. DOMAIN line'[d] = {}
  OBVIOUS
<1>2. Listed(d)' = {}
  BY <1>1 DEF Listed, ToSet
<1>3. Distinct(line'[d]) /\ \A x, y : Ahead(line'[d], x, y)
  BY <1>1 DEF Distinct, Ahead
<1>4. QED
  BY <1>2, <1>3 DEF LineMoves

LEMMA LineLeft ==
    ASSUME CodexTypeOK, NEW d \in Daemons, NEW i \in DOMAIN line[d], Distinct(line[d]),
           line[d] # <<>> => d \in up', line'[d] = RemoveAt(line[d], i)
    PROVE  LineMoves(d) /\ Listed(d)' = Listed(d) \ {line[d][i]}
<1>1. line[d] \in Seq(Ops \cup {Mark})
  BY Places
<1>2. Distinct(line'[d]) /\ ToSet(line'[d]) = ToSet(line[d]) \ {line[d][i]}
  BY <1>1, RemoveAtFacts
<1>3. \A x, y : Ahead(line[d], x, y) => Ahead(line'[d], x, y)
  BY <1>1, RemoveAtAhead
<1>4. line[d] # <<>>
  BY <1>1
<1>5. Listed(d)' = Listed(d) \ {line[d][i]}
  BY <1>2 DEF Listed
<1>6. QED
  BY <1>2, <1>3, <1>4, <1>5 DEF LineMoves

LEMMA LineJoined ==
    ASSUME CodexTypeOK, NEW d \in Daemons, NEW z \in Ops \cup {Mark}, Distinct(line[d]),
           z \notin ToSet(line[d]), d \in up', line'[d] = Append(line[d], z),
           z # Mark => /\ op[z].to = d
                       /\ \/ z \in adrift \ adrift'
                          \/ \E c \in Conns : z \in Written(c) \ Written(c)'
    PROVE  LineMoves(d) /\ ToSet(line'[d]) = ToSet(line[d]) \cup {z}
<1>1. line[d] \in Seq(Ops \cup {Mark})
  BY Places
<1>2. Distinct(line'[d]) /\ ToSet(line'[d]) = ToSet(line[d]) \cup {z}
  BY <1>1, AppendFacts
<1>3. ASSUME NEW x \in Listed(d), NEW y \in Ops \cup {Mark}, Ahead(line[d], x, y)
      PROVE  Ahead(line'[d], x, y)
  <2>1. z # x
    BY DEF Listed
  <2>2. QED
    BY <1>1, <1>3, <2>1, AppendAhead
<1>4. \A x \in Listed(d)' : x \in Listed(d) \/ (x = z /\ z # Mark)
  BY <1>2 DEF Listed
<1>5. QED
  BY <1>2, <1>3, <1>4 DEF LineMoves

LEMMA LineUnmarked ==
    ASSUME CodexTypeOK, NEW d \in Daemons, Distinct(line[d]), line[d] # <<>> => d \in up',
           line'[d] = Unmarked(line[d])
    PROVE  LineMoves(d) /\ Listed(d)' = Listed(d) /\ Mark \notin ToSet(line'[d])
<1>1. CASE \E i \in DOMAIN line[d] : line[d][i] = Mark
  <2> DEFINE k == CHOOSE i \in DOMAIN line[d] : line[d][i] = Mark
  <2>1. k \in DOMAIN line[d] /\ line[d][k] = Mark
    BY <1>1
  <2>2. line'[d] = RemoveAt(line[d], k)
    BY <1>1 DEF Unmarked
  <2> HIDE DEF k
  <2>3. LineMoves(d) /\ Listed(d)' = Listed(d) \ {Mark}
    BY <2>1, <2>2, LineLeft
  <2>4. ToSet(line'[d]) = ToSet(line[d]) \ {Mark}
    BY <2>1, <2>2, Places, RemoveAtFacts
  <2>5. QED
    BY <2>3, <2>4 DEF Listed
<1>2. CASE ~\E i \in DOMAIN line[d] : line[d][i] = Mark
  <2>1. line'[d] = line[d] /\ Mark \notin ToSet(line[d])
    BY <1>2 DEF Unmarked, ToSet
  <2>2. QED
    BY <2>1, LineStays DEF Listed
<1>3. QED
  BY <1>1, <1>2

LEMMA SocketStays ==
    ASSUME Placed, NEW c \in Conns, socket'[c] = socket[c], open'[c] = open[c]
    PROVE  SocketMoves(c)
BY DEF SocketMoves, Placed, Written

LEMMA SocketEmptied ==
    ASSUME NEW c \in Conns, socket'[c] = <<>>
    PROVE  SocketMoves(c) /\ Written(c)' = {}
<1>1. DOMAIN socket'[c] = {}
  OBVIOUS
<1>2. Written(c)' = {} /\ Distinct(socket'[c])
  BY <1>1 DEF Written, ToSet, Distinct
<1>3. QED
  BY <1>2 DEF SocketMoves

\* What is on its way afterwards was on its way before.
LEMMA MovesBefore ==
    ASSUME \A d \in Daemons : LineMoves(d), \A c \in Conns : SocketMoves(c), adrift' \subseteq adrift,
           NEW x, Moves(x)'
    PROVE  Moves(x)
BY DEF LineMoves, SocketMoves, Moves

LEMMA DaemonsMove ==
    ASSUME CodexTypeOK, Alive, Placed, Booked, DaemonStep
    PROVE  Moved
<1> USE Numbers
<1>t. DaemonTypes /\ RelayTypes
  BY TypeParts
<1>u. UNCHANGED <<op, pending>>
  BY Frames DEF DaemonFrame
<1>d. \A d \in Daemons : Distinct(line[d]) /\ (line[d] # <<>> => d \in up)
  BY DEF Placed, Alive
<1>a. ASSUME \A d \in Daemons : LineMoves(d), \A c \in Conns : SocketMoves(c), adrift' \subseteq adrift,
             \A x \in Ops : answer'[x] \in {"none", answer[x]}
      PROVE  Moved
  <2>1. ASSUME NEW x \in Ops, Moves(x)' PROVE answer'[x] = "none"
    <3>1. Moves(x)
      BY <1>a, <2>1, MovesBefore
    <3>2. QED
      BY <1>a, <3>1 DEF Placed
  <2>2. \A x \in Ops : answer'[x] # "none" => \E c \in Conns : x \in pending[c]
    BY <1>a DEF Booked
  <2>3. QED
    BY <1>a, <2>1, <2>2 DEF Moved
<1>n. \A C : \A x \in Ops : Unanswered(C)[x] \in {"none", answer[x]}
  BY DEF Unanswered
<1>1. ASSUME NEW c \in Conns, Admit(c) PROVE Moved
  <2>0. open[c] /\ socket[c] # <<>> /\ Head(socket[c]) \in Ops /\ peer[c] \in Daemons
    <3>1. open[c] /\ socket[c] # <<>>
      BY <1>1 DEF Admit
    <3>2. peer[c] \in up
      BY <3>1 DEF Alive
    <3>3. QED
      BY <3>1, <3>2, Places, TailFacts
  <2> PICK z \in Ops, d \in Daemons : z = Head(socket[c]) /\ d = peer[c]
    BY <2>0
  <2>1. /\ socket' = [socket EXCEPT ![c] = Tail(@)]
        /\ line' = [line EXCEPT ![d] = Append(@, z)]
        /\ UNCHANGED <<up, open, adrift, answer>>
    BY <1>1 DEF Admit, daemonVars
  <2>2. /\ Tail(socket[c]) \in Seq(Ops) /\ Written(c) = ToSet(Tail(socket[c])) \cup {z}
        /\ Distinct(Tail(socket[c])) /\ z \notin ToSet(Tail(socket[c]))
    <3>1. socket[c] \in Seq(Ops) /\ Distinct(socket[c])
      BY Places DEF Placed
    <3>2. /\ Tail(socket[c]) \in Seq(Ops) /\ ToSet(socket[c]) = ToSet(Tail(socket[c])) \cup {z}
          /\ Distinct(Tail(socket[c])) /\ z \notin ToSet(Tail(socket[c]))
      BY <2>0, <3>1, TailFacts
    <3>3. QED
      BY <3>2 DEF Written
  <2>3. socket'[c] = Tail(socket[c]) /\ \A e \in Conns \ {c} : socket'[e] = socket[e]
    BY <1>t, <2>1 DEF RelayTypes
  <2>4. Written(c)' = Written(c) \ {z} /\ SocketMoves(c)
    BY <2>0, <2>1, <2>2, <2>3 DEF Written, SocketMoves
  <2>5. \A e \in Conns : SocketMoves(e)
    BY <2>1, <2>3, <2>4, SocketStays
  <2>6. d \in up /\ op[z].to = d /\ z \notin ToSet(line[d])
    <3>1. z \in Written(c) /\ d \in up
      BY <2>0, <2>2 DEF Alive
    <3>2. z \in pending[c]
      BY <3>1 DEF Placed
    <3>3. op[z].to = d /\ z \notin Listed(d) /\ z # Mark
      BY <3>1, <3>2 DEF Placed, Booked
    <3>4. QED
      BY <3>1, <3>3 DEF Listed
  <2>7. line'[d] = Append(line[d], z) /\ \A e \in Daemons \ {d} : line'[e] = line[e]
    BY <1>t, <2>1 DEF DaemonTypes
  <2>8. LineMoves(d)
    <3>1. z \in Ops \cup {Mark} /\ z \in Written(c) \ Written(c)' /\ d \in up' /\ Distinct(line[d])
      BY <1>d, <2>1, <2>2, <2>4, <2>6
    <3>2. QED
      BY <2>6, <2>7, <3>1, LineJoined
  <2>9. \A e \in Daemons : LineMoves(e)
    BY <1>d, <2>1, <2>7, <2>8, LineStays
  <2>10. QED
    BY <1>a, <2>1, <2>5, <2>9
<1>2. ASSUME NEW c \in Conns, Closes(c) PROVE Moved
  <2>1. /\ open' = [open EXCEPT ![c] = FALSE] /\ socket' = [socket EXCEPT ![c] = <<>>]
        /\ answer' = Unanswered({c}) /\ UNCHANGED <<up, line, adrift>>
    BY <1>2 DEF Closes, daemonVars
  <2>2. socket'[c] = <<>>
        /\ \A e \in Conns \ {c} : socket'[e] = socket[e] /\ open'[e] = open[e]
    BY <1>t, <2>1 DEF RelayTypes
  <2>3. \A e \in Conns : SocketMoves(e)
    BY <2>2, SocketStays, SocketEmptied
  <2>4. \A e \in Daemons : LineMoves(e)
    BY <1>d, <2>1, LineStays
  <2>5. QED
    BY <1>a, <1>n, <2>1, <2>3, <2>4
<1>3. ASSUME NEW z \in Ops, AdmitAdrift(z) PROVE Moved
  <2>0. z \in adrift /\ op[z].to \in Daemons
    BY <1>3, Places DEF AdmitAdrift, Alive
  <2> PICK d \in Daemons : d = op[z].to
    BY <2>0
  <2>1. /\ z \in adrift /\ adrift' = adrift \ {z}
        /\ line' = [line EXCEPT ![d] = Append(@, z)]
        /\ UNCHANGED <<up, open, socket, answer>>
    BY <1>3 DEF AdmitAdrift, daemonVars, linkVars
  <2>2. d \in up
    BY <2>1 DEF Alive
  <2>3. z \notin ToSet(line[d])
    BY <2>1, <2>2 DEF Placed, Listed
  <2>4. line'[d] = Append(line[d], z) /\ \A e \in Daemons \ {d} : line'[e] = line[e]
    BY <1>t, <2>1, <2>2 DEF DaemonTypes
  <2>5. LineMoves(d)
    BY <1>d, <2>1, <2>2, <2>3, <2>4, LineJoined
  <2>6. \A e \in Daemons : LineMoves(e)
    BY <1>d, <2>1, <2>4, <2>5, LineStays
  <2>7. \A e \in Conns : SocketMoves(e)
    BY <2>1, SocketStays
  <2>8. QED
    BY <1>a, <2>1, <2>6, <2>7
<1>s. ASSUME UNCHANGED <<line, socket, open, adrift, answer>>, up \subseteq up' PROVE Moved
  <2>1. \A e \in Daemons : LineMoves(e)
    BY <1>d, <1>s, LineStays
  <2>2. \A e \in Conns : SocketMoves(e)
    BY <1>s, SocketStays
  <2>3. QED
    BY <1>a, <1>s, <2>1, <2>2
<1>4. ASSUME NEW o \in Ops, CoreRuns(o) PROVE Moved
  BY <1>s, <1>4 DEF CoreRuns, linkVars
<1>5. ASSUME Starts PROVE Moved
  BY <1>s, <1>5 DEF Starts, workVars, linkVars
<1>6. ASSUME NEW dt, ThreadMoves(dt) PROVE Moved
  BY <1>s, <1>6 DEF ThreadMoves, workVars, linkVars
<1>7. ASSUME NEW d \in Daemons, Dies(d) PROVE Moved
  <2>1. /\ up' = up \ {d} /\ adrift' \subseteq adrift
        /\ line' = [line EXCEPT ![d] = <<>>]
        /\ open' = [c \in Conns |-> open[c] /\ peer[c] # d]
        /\ socket' = [c \in Conns |-> IF peer[c] = d THEN <<>> ELSE socket[c]]
        /\ \E C : answer' = Unanswered(C)
    BY <1>7 DEF Dies
  <2>2. line'[d] = <<>> /\ \A e \in Daemons \ {d} : line'[e] = line[e]
    BY <1>t, <2>1 DEF DaemonTypes
  <2>3. \A e \in Daemons : LineMoves(e)
    BY <1>d, <2>1, <2>2, LineStays, LineEmptied
  <2>4. \A c \in Conns : SocketMoves(c)
    <3> TAKE c \in Conns
    <3>1. CASE peer[c] = d
      BY <2>1, <3>1, SocketEmptied
    <3>2. CASE peer[c] # d
      <4>1. socket'[c] = socket[c]
        BY <2>1, <3>2
      <4>2. open'[c] = open[c]
        BY <1>t, <2>1, <3>2 DEF RelayTypes
      <4>3. QED
        BY <4>1, <4>2, SocketStays
    <3>3. QED
      BY <3>1, <3>2
  <2>5. QED
    BY <1>a, <1>n, <2>1, <2>3, <2>4
<1>8. ASSUME NEW d \in Daemons, NEW i \in DOMAIN line[d], NEW done \in BOOLEAN, Handle(d, i, done)
      PROVE  Moved
  <2>0. line[d][i] \in Ops
    BY <1>8, Places DEF Handle
  <2> PICK o \in Ops : o = line[d][i]
    BY <2>0
  <2>1. /\ o # Mark /\ line' = [line EXCEPT ![d] = RemoveAt(line[d], i)]
        /\ UNCHANGED <<up, open, socket, adrift>>
    BY <1>8 DEF Handle, Without, linkVars
  <2>2. answer' = answer \/ \E r : answer' = [answer EXCEPT ![o] = r]
                                   /\ \E c \in Conns : o \in pending[c]
    BY <1>8 DEF Handle
  <2>3. o \in Listed(d)
    BY <2>1 DEF Listed, ToSet
  <2>4. line'[d] = RemoveAt(line[d], i) /\ \A e \in Daemons \ {d} : line'[e] = line[e]
    BY <1>t, <2>1 DEF DaemonTypes
  <2>5. LineMoves(d) /\ Listed(d)' = Listed(d) \ {o}
    BY <1>d, <2>1, <2>4, LineLeft
  <2>6. \A e \in Daemons : LineMoves(e)
    BY <1>d, <2>1, <2>4, <2>5, LineStays
  <2>7. \A e \in Conns : SocketMoves(e)
    BY <2>1, SocketStays
  <2>8. ~Moves(o)'
    <3>1. o \notin adrift' /\ \A c \in Conns : o \notin Written(c)'
      BY <2>1, <2>3 DEF Placed, Written
    <3>2. ASSUME NEW e \in Daemons PROVE o \notin Listed(e)'
      <4>1. CASE e = d
        BY <2>5, <4>1
      <4>2. CASE e # d
        <5>1. Listed(e)' = Listed(e)
          BY <2>4, <4>2 DEF Listed
        <5>2. o \notin Listed(e)
          BY <2>3, <4>2 DEF Placed
        <5>3. QED
          BY <5>1, <5>2
      <4>3. QED
        BY <4>1, <4>2
    <3>3. QED
      BY <3>1, <3>2 DEF Moves
  <2>9. ASSUME NEW x \in Ops, Moves(x)' PROVE answer'[x] = "none"
    <3>1. Moves(x) /\ x # o
      BY <2>1, <2>6, <2>7, <2>8, <2>9, MovesBefore
    <3>2. answer[x] = "none"
      BY <3>1 DEF Placed
    <3>3. QED
      BY <1>t, <2>2, <3>1, <3>2 DEF DaemonTypes
  <2>10. ASSUME NEW x \in Ops, answer'[x] # "none" PROVE \E c \in Conns : x \in pending[c]
    <3>1. CASE x = o /\ answer' # answer
      BY <2>2, <3>1
    <3>2. CASE answer'[x] = answer[x]
      BY <2>10, <3>2 DEF Booked
    <3>3. QED
      BY <1>t, <2>2, <3>1, <3>2 DEF DaemonTypes
  <2>11. QED
    BY <2>1, <2>6, <2>7, <2>9, <2>10 DEF Moved
<1>9. QED
  BY <1>1, <1>2, <1>3, <1>4, <1>5, <1>6, <1>7, <1>8 DEF DaemonStep

LEMMA LauncherMoves ==
    ASSUME CodexTypeOK, Alive, Placed, Booked, Marked, LaunchStep, ~Exits
    PROVE  Moved /\ UNCHANGED <<adrift, socket, answer>> /\ \A d \in Daemons : Listed(d)' = Listed(d)
<1> USE Numbers
<1>t. DaemonTypes
  BY TypeParts
<1>d. \A d \in Daemons : Distinct(line[d]) /\ (line[d] # <<>> => d \in up)
  BY DEF Placed, Alive
<1>u. UNCHANGED <<up, adrift, socket, open, answer>>
  BY DEF LaunchStep, Watches, Begins, Fences, GivesUp, Connects, Asks, Hears, Works, Frees, Idles,
         Cleaning, LaunchFrame, SameLinks, SameWork
<1>1. \A d \in Daemons : LineMoves(d) /\ Listed(d)' = Listed(d)
  <2> DEFINE Goal == \A d \in Daemons : LineMoves(d) /\ Listed(d)' = Listed(d)
  <2>1. ASSUME line' = line PROVE Goal
    BY <1>d, <1>u, <2>1, LineStays DEF Listed
  <2>2. CASE Watches \/ Begins \/ Fences \/ Connects \/ Works \/ Frees \/ Idles
    BY <2>1, <2>2 DEF Watches, Begins, Fences, Connects, Works, Frees, Idles, SameWork
  <2>3. CASE GivesUp
    <3>1. line' = [d \in Daemons |-> Unmarked(line[d])]
      BY <2>3 DEF GivesUp
    <3>2. QED
      BY <1>d, <1>u, <3>1, LineUnmarked
  <2>4. CASE Asks
    <3>1. /\ cpeer \in up /\ line' = [line EXCEPT ![cpeer] = Append(@, Mark)]
          /\ step \in {"fence", "verify"}
      BY <2>4 DEF Asks
    <3> PICK d \in Daemons : d = cpeer
      BY <3>1, Places
    <3>2. Mark \notin ToSet(line[d])
      BY <3>1 DEF Marked
    <3>3. line'[d] = Append(line[d], Mark) /\ \A e \in Daemons \ {d} : line'[e] = line[e]
      BY <1>t, <3>1 DEF DaemonTypes
    <3>4. LineMoves(d) /\ ToSet(line'[d]) = ToSet(line[d]) \cup {Mark}
      BY <1>d, <1>u, <3>1, <3>2, <3>3, LineJoined
    <3>5. QED
      BY <1>d, <1>u, <3>3, <3>4, LineStays DEF Listed
  <2>5. ASSUME NEW i \in DOMAIN line[cpeer], Hears(i) PROVE Goal
    <3>1. /\ cpeer \in up /\ line' = [line EXCEPT ![cpeer] = RemoveAt(line[cpeer], i)]
          /\ line[cpeer][i] = Mark
      BY <2>5 DEF Hears, Without
    <3>2. cpeer \in Daemons
      BY <3>1, Places
    <3> PICK d \in Daemons : d = cpeer
      BY <3>2
    <3>3. line'[d] = RemoveAt(line[d], i) /\ \A e \in Daemons \ {d} : line'[e] = line[e]
      BY <1>t, <3>1 DEF DaemonTypes
    <3>4. LineMoves(d) /\ Listed(d)' = Listed(d) \ {line[d][i]}
      BY <1>d, <1>u, <3>1, <3>3, LineLeft
    <3>5. Listed(d)' = Listed(d)
      BY <3>1, <3>4 DEF Listed
    <3>6. QED
      BY <1>d, <1>u, <3>3, <3>4, <3>5, LineStays DEF Listed
  <2>6. QED
    BY <2>2, <2>3, <2>4, <2>5 DEF LaunchStep
<1>2. \A c \in Conns : SocketMoves(c)
  BY <1>u, SocketStays
<1>3. ASSUME NEW x \in Ops, Moves(x)' PROVE answer'[x] = "none"
  <2>1. Moves(x)
    BY <1>u, <1>1, <1>2, <1>3, MovesBefore
  <2>2. QED
    BY <1>u, <2>1 DEF Placed
<1>4. \A x \in Ops : answer'[x] # "none" => \E c \in Conns : x \in pending[c]
  BY <1>u DEF Booked
<1>5. QED
  BY <1>u, <1>1, <1>2, <1>3, <1>4 DEF Moved

-----------------------------------------------------------------------------
(* Places and books, when the relay does nothing *)

\* What the daemons and the launcher leave to the relay.
Untouched == /\ UNCHANGED <<op, peer, holding, pending, uncertain>>
             /\ sup = "exited" => sup' = "exited"
             /\ \A o \in core' : op[o].kind = "compact"

LEMMA DaemonsTouch ==
    ASSUME CodexTypeOK, Booked, DaemonStep
    PROVE  Untouched
<1>1. UNCHANGED <<op, peer, holding, pending, uncertain, sup>>
  BY Frames DEF DaemonFrame
<1>2. \A o \in core' : op[o].kind = "compact"
  <2>1. \A o \in core : op[o].kind = "compact"
    BY DEF Booked
  <2>2. ASSUME NEW c, Admit(c) \/ Closes(c) PROVE core' = core
    BY <2>2 DEF Admit, Closes
  <2>3. ASSUME NEW o, AdmitAdrift(o) \/ CoreRuns(o) PROVE core' \subseteq core
    BY <2>3 DEF AdmitAdrift, CoreRuns
  <2>4. ASSUME NEW d, NEW i, NEW done \in BOOLEAN, Handle(d, i, done)
        PROVE  \A o \in core' : op[o].kind = "compact"
    BY <2>1, <2>4 DEF Handle
  <2>5. ASSUME NEW d, Dies(d) PROVE core' \subseteq core
    BY <2>5 DEF Dies
  <2>6. ASSUME NEW dt, Starts \/ ThreadMoves(dt) PROVE core' = core
    BY <2>6 DEF Starts, ThreadMoves, workVars
  <2>7. QED
    BY <2>1, <2>2, <2>3, <2>4, <2>5, <2>6 DEF DaemonStep
<1>3. QED
  BY <1>1, <1>2 DEF Untouched

LEMMA LauncherTouches ==
    ASSUME Booked, Phased, LaunchStep, ~Exits
    PROVE  Untouched
<1>1. UNCHANGED <<op, peer, holding, pending, uncertain, core>>
  BY DEF LaunchStep, Watches, Begins, Fences, GivesUp, Connects, Asks, Hears, Works, Frees, Idles,
         Cleaning, LaunchFrame, SameLinks
<1>2. sup = "exited" => sup' = "exited"
  BY DEF LaunchStep, Watches, Begins, Fences, GivesUp, Connects, Asks, Hears, Works, Frees, Idles,
         Cleaning
<1>3. QED
  BY <1>1, <1>2 DEF Untouched, Booked

LEMMA PlacedMoves ==
    ASSUME CodexTypeOK, Placed, Booked, Moved, Untouched
    PROVE  Placed'
<1> USE Numbers
<1>u. UNCHANGED <<op, pending, uncertain>>
  BY DEF Untouched
<1>m. /\ \A d \in Daemons : LineMoves(d)
      /\ \A c \in Conns : SocketMoves(c)
      /\ adrift' \subseteq adrift
      /\ \A x \in Ops : Moves(x)' => answer'[x] = "none"
  BY DEF Moved
<1>w. \A c \in Conns : Written(c)' \subseteq Written(c) /\ (Written(c)' # {} => open'[c])
  BY <1>m DEF SocketMoves
<1>l. \A d \in Daemons : \A x \in Listed(d)' :
         \/ x \in Listed(d)
         \/ /\ op[x].to = d
            /\ x \in adrift \ adrift' \/ \E c \in Conns : x \in Written(c) \ Written(c)'
  BY <1>m DEF LineMoves
<1>p. /\ \A c \in Conns : Written(c) \cap adrift = {}
      /\ \A d \in Daemons : /\ Listed(d) \cap adrift = {}
                            /\ \A c \in Conns : Listed(d) \cap Written(c) = {}
      /\ \A c \in Conns : \A o \in Written(c) : o \in pending[c] /\ open[c]
      /\ \A d \in Daemons : \A o \in Listed(d) : op[o].to = d
  BY DEF Placed
<1>q. \A c, e \in Conns : \A o \in Written(c) : o \in Written(e) => e = c
  BY <1>p DEF Booked
<1>1. /\ \A d \in Daemons : Distinct(line[d])'
      /\ \A c \in Conns : Distinct(socket[c])'
  BY <1>m DEF LineMoves, SocketMoves, Distinct
<1>2. \A c \in Conns : (Written(c) \cap adrift)' = {}
  BY <1>m, <1>w, <1>p
<1>3. ASSUME NEW d \in Daemons PROVE (Listed(d) \cap adrift)' = {}
  BY <1>m, <1>l, <1>p
<1>4. ASSUME NEW d \in Daemons, NEW c \in Conns PROVE (Listed(d) \cap Written(c))' = {}
  BY <1>l, <1>p, <1>q, <1>w
<1>5. \A c \in Conns : \A o \in Written(c)' : o \in pending'[c] /\ open'[c]
  BY <1>u, <1>w, <1>p
<1>6. \A d \in Daemons : \A o \in Listed(d)' : op'[o].to = d
  BY <1>u, <1>l, <1>p
<1>7. ASSUME NEW o \in Ops, Moves(o)'
      PROVE  /\ op'[o].kind \in Kinds /\ answer'[o] = "none"
             /\ \/ \E c \in Conns : o \in pending'[c]
                \/ \E u \in Lost' : u.o = o
  <2>1. Moves(o)
    BY <1>m, <1>7, MovesBefore
  <2>2. Lost' = Lost
    BY <1>u DEF Lost
  <2>3. /\ op[o].kind \in Kinds
        /\ (\E c \in Conns : o \in pending[c]) \/ (\E u \in Lost : u.o = o)
    BY <2>1 DEF Placed
  <2>4. QED
    BY <1>u, <1>m, <1>7, <2>2, <2>3
<1>8. QED
  BY <1>1, <1>2, <1>3, <1>4, <1>5, <1>6, <1>7 DEF Placed

LEMMA BookedMoves ==
    ASSUME CodexTypeOK, Booked, Moved, Untouched
    PROVE  Booked'
<1>u. UNCHANGED <<op, peer, holding, pending, uncertain>> /\ (sup = "exited" => sup' = "exited")
      /\ \A o \in core' : op[o].kind = "compact"
  BY DEF Untouched
<1>m. /\ adrift' \subseteq adrift
      /\ \A x \in Ops : answer'[x] # "none" => \E c \in Conns : x \in pending[c]
  BY DEF Moved
<1>b. \A x : Moves(x)' => Moves(x)
  BY MovesBefore DEF Moved
<1>1. \A c \in Conns : \A o \in pending'[c] :
          /\ op'[o].kind \in Kinds /\ op'[o].to = peer'[c]
          /\ o \in adrift' => sup' = "exited"
          /\ \A e \in Conns : o \in pending'[e] => e = c
  BY <1>u, <1>m DEF Booked
<1>2. ASSUME NEW c \in Conns, holding'[c] # 0
      PROVE  /\ op'[holding'[c]].kind \in Prepared /\ op'[holding'[c]].to = peer'[c]
             /\ ~Moves(holding[c])'
             /\ \A e \in Conns : /\ holding'[c] \notin pending'[e]
                                 /\ holding'[e] = holding'[c] => e = c
  <2>1. /\ op[holding[c]].kind \in Prepared /\ op[holding[c]].to = peer[c]
        /\ ~Moves(holding[c])
        /\ \A e \in Conns : /\ holding[c] \notin pending[e]
                            /\ holding[e] = holding[c] => e = c
    BY <1>u, <1>2 DEF Booked
  <2>2. PICK h : h = holding[c]
    OBVIOUS
  <2>3. ~Moves(h)'
    BY <1>b, <2>1, <2>2
  <2>4. ~Moves(holding[c])'
    BY <1>u, <2>2, <2>3 DEF Moves
  <2>5. QED
    BY <1>u, <2>1, <2>4
<1>3. \A c \in Conns : \A u \in uncertain'[c] :
          /\ op'[u.o].kind \in Kinds
          /\ \A e \in Conns : /\ u.o \notin pending'[e] /\ holding'[e] # u.o
                              /\ \A v \in uncertain'[e] : v.o = u.o => e = c /\ v = u
          /\ u.received => u.o \notin adrift'
  BY <1>u, <1>m DEF Booked
<1>4. \A o \in Ops : answer'[o] # "none" => \E c \in Conns : o \in pending'[c]
  BY <1>u, <1>m
<1>5. \A o \in core' : op'[o].kind = "compact"
  BY <1>u
<1>6. QED
  BY <1>1, <1>2, <1>3, <1>4, <1>5 DEF Booked

\* A request is answered when it is handled, in its turn.
LEMMA DaemonsAnswer ==
    ASSUME CodexTypeOK, DaemonStep, NEW o \in Ops
    PROVE  \/ answer'[o] \in {"none", answer[o]}
           \/ \E d \in Daemons : \E i \in DOMAIN line[d] : line[d][i] = o /\ Turn(d, i)
<1> DEFINE Goal == \/ answer'[o] \in {"none", answer[o]}
                   \/ \E d \in Daemons : \E i \in DOMAIN line[d] : line[d][i] = o /\ Turn(d, i)
<1>t. DaemonTypes
  BY TypeParts
<1>1. ASSUME NEW c \in Conns, Admit(c) \/ Closes(c) PROVE Goal
  BY <1>1 DEF Admit, Closes, Unanswered
<1>2. ASSUME NEW p \in Ops, AdmitAdrift(p) \/ CoreRuns(p) PROVE Goal
  BY <1>2 DEF AdmitAdrift, CoreRuns
<1>3. ASSUME NEW d \in Daemons, NEW i \in DOMAIN line[d], NEW done \in BOOLEAN, Handle(d, i, done)
      PROVE  Goal
  <2>1. Turn(d, i) /\ (answer' = answer \/ \E r : answer' = [answer EXCEPT ![line[d][i]] = r])
    BY <1>3 DEF Handle
  <2>2. QED
    BY <1>t, <2>1 DEF DaemonTypes
<1>4. ASSUME NEW d \in Daemons, Dies(d) PROVE Goal
  BY <1>4 DEF Dies, Unanswered
<1>5. ASSUME NEW dt, Starts \/ ThreadMoves(dt) PROVE Goal
  BY <1>5 DEF Starts, ThreadMoves, workVars
<1> HIDE DEF Goal
<1>6. Goal
  BY <1>1, <1>2, <1>3, <1>4, <1>5 DEF DaemonStep
<1>7. QED
  BY <1>6 DEF Goal

LEMMA InOrderMoves ==
    ASSUME CodexTypeOK, Placed, Booked, InOrder, Moved, Untouched,
           DaemonStep \/ UNCHANGED answer
    PROVE  InOrder'
<1> USE Numbers
<1>t. RelayTypes
  BY TypeParts
<1>u. UNCHANGED <<op, peer, holding, pending, uncertain>>
  BY DEF Untouched
<1> SUFFICES ASSUME NEW c \in Conns, NEW u \in uncertain[c], NEW o \in Ops,
                    o \in pending[c] \/ o = holding[c],
                    u.received, op[u.o].to = peer[c], op[u.o].thread = op[o].thread,
                    u.o \in Listed(peer[c])'
             PROVE  answer'[o] = "none" /\ Ahead(line'[peer[c]], u.o, o)
  BY <1>u DEF InOrder, Listed
<1>1. u.o \in Ops /\ op[u.o].kind \in Kinds /\ u.o \notin adrift
      /\ \A e \in Conns : u.o \notin pending[e]
  BY Places DEF Booked
<1>2. op[u.o].to \in Daemons
  BY <1>1, <1>t, RequestTypes
<1> PICK d \in Daemons : d = peer[c]
  BY <1>2
<1>3. u.o \in Listed(d)'
  BY <1>u DEF Listed
<1>4. LineMoves(d)
  BY DEF Moved
<1>5. u.o \in Listed(d)
  <2>1. \A e \in Conns : u.o \notin Written(e)
    BY <1>1 DEF Placed
  <2>2. QED
    BY <1>1, <1>3, <1>4, <2>1 DEF LineMoves
<1>6. answer[o] = "none" /\ Ahead(line[d], u.o, o)
  BY <1>5 DEF InOrder
<1>7. Ahead(line'[d], u.o, o)
  BY <1>4, <1>5, <1>6 DEF LineMoves
<1>8. answer'[o] = "none"
  <2>1. CASE answer'[o] \in {"none", answer[o]}
    BY <1>6, <2>1
  <2>2. ASSUME NEW e \in Daemons, NEW i \in DOMAIN line[e], line[e][i] = o, Turn(e, i) PROVE FALSE
    <3>1. o \in Listed(e)
      BY <2>2 DEF Listed, ToSet
    <3>2. e = d
      <4>1. op[o].to = e
        BY <3>1 DEF Placed
      <4>2. o # holding[c]
        BY <3>1 DEF Booked, Moves
      <4>3. op[o].to = peer[c]
        BY <4>2 DEF Booked
      <4>4. QED
        BY <4>1, <4>3
    <3>3. PICK j \in DOMAIN line[d] : line[d][j] = u.o
      BY <1>5 DEF Listed, ToSet
    <3>4. j < i
      BY <1>6, <2>2, <3>2, <3>3 DEF Ahead
    <3>5. j \in 1..(i - 1)
      <4>1. line[d] \in Seq(Ops \cup {Mark})
        BY Places
      <4>2. QED
        BY <2>2, <3>2, <3>4, <4>1
    <3>6. ThreadOf(line[d][j]) # ThreadOf(line[d][i])
      BY <2>2, <3>2, <3>5 DEF Turn
    <3>7. QED
      BY <1>1, <2>2, <3>2, <3>3, <3>6 DEF ThreadOf
  <2>3. QED
    BY <2>1, <2>2, <1>6, DaemonsAnswer
<1>9. QED
  BY <1>7, <1>8

LEMMA AliveMoves ==
    ASSUME CodexTypeOK, Alive, Placed, Booked, Moved, Untouched,
           DaemonStep \/ (LaunchStep /\ ~Exits)
    PROVE  Alive'
<1> USE Numbers
<1>t. DaemonTypes /\ RelayTypes
  BY TypeParts
<1>u. UNCHANGED <<op, peer>>
  BY DEF Untouched
<1>l. \A d \in Daemons : line'[d] # <<>> => d \in up'
  BY DEF Moved, LineMoves
<1> DEFINE Rest1 == /\ born' \in Nat /\ born' >= born
                    /\ front' # 0 => front' \in up'
                    /\ \A c \in Conns : /\ open'[c] => open[c] /\ peer[c] \in up'
                                        /\ stat'[c] = stat[c]
                    /\ \A o \in adrift' : o \in adrift /\ op[o].to \in up'
<1>k. ASSUME UNCHANGED <<born, front, up, stat>>,
             \A c \in Conns : open'[c] => open[c], adrift' \subseteq adrift
      PROVE  Rest1
  BY <1>k, <1>t DEF Alive, DaemonTypes
<1>1. CASE LaunchStep /\ ~Exits
  <2>1. UNCHANGED <<born, front, up, stat, open, adrift>>
    BY <1>1 DEF LaunchStep, Watches, Begins, Fences, GivesUp, Connects, Asks, Hears, Works, Frees,
           Idles, Cleaning, LaunchFrame, SameLinks, SameWork
  <2>2. QED
    BY <1>k, <2>1, <1>u, <1>l, <1>t DEF Alive
<1>2. CASE DaemonStep
  <2>1. ASSUME NEW c \in Conns, Admit(c) PROVE Rest1
    BY <1>k, <2>1 DEF Admit, daemonVars
  <2>2. ASSUME NEW c \in Conns, Closes(c) PROVE Rest1
    <3>1. UNCHANGED <<born, front, up, stat, adrift>> /\ open' = [open EXCEPT ![c] = FALSE]
      BY <2>2 DEF Closes, daemonVars
    <3>2. \A e \in Conns : open'[e] => open[e]
      BY <1>t, <3>1 DEF RelayTypes
    <3>3. QED
      BY <1>k, <3>1, <3>2
  <2>3. ASSUME NEW o \in Ops, AdmitAdrift(o) PROVE Rest1
    BY <1>k, <2>3 DEF AdmitAdrift, daemonVars, linkVars
  <2>4. ASSUME NEW o \in Ops, CoreRuns(o) PROVE Rest1
    BY <1>k, <2>4 DEF CoreRuns, linkVars
  <2>5. ASSUME NEW d, NEW i, NEW done \in BOOLEAN, Handle(d, i, done) PROVE Rest1
    BY <1>k, <2>5 DEF Handle, linkVars
  <2>6. ASSUME NEW dt, ThreadMoves(dt) PROVE Rest1
    BY <1>k, <2>6 DEF ThreadMoves, workVars, linkVars
  <2>7. ASSUME Starts PROVE Rest1
    <3>1. /\ born' = born + 1 /\ up' = up \cup {born + 1} /\ front' = born + 1
          /\ UNCHANGED <<stat, open, adrift>>
      BY <2>7 DEF Starts, workVars, linkVars
    <3>2. QED
      BY <1>t, <3>1 DEF Alive, DaemonTypes
  <2>8. ASSUME NEW d \in Daemons, Dies(d) PROVE Rest1
    <3>1. /\ UNCHANGED <<born, stat>> /\ up' = up \ {d}
          /\ front' = IF front = d THEN 0 ELSE front
          /\ adrift' = {o \in adrift : op[o].to # d}
          /\ open' = [c \in Conns |-> open[c] /\ peer[c] # d]
      BY <2>8 DEF Dies
    <3>2. /\ \A c \in Conns : open[c] => peer[c] \in up
          /\ front # 0 => front \in up
          /\ \A o \in adrift : op[o].to \in up
      BY DEF Alive
    <3>3. ASSUME NEW c \in Conns, open'[c] PROVE open[c] /\ peer[c] \in up'
      <4>1. open'[c] = (open[c] /\ peer[c] # d)
        BY <3>1
      <4>2. open[c] /\ peer[c] # d
        BY <3>3, <4>1
      <4>3. QED
        BY <3>1, <3>2, <4>2
    <3>4. born' \in Nat /\ born' >= born
      BY <1>t, <3>1 DEF DaemonTypes
    <3>5. front' # 0 => front' \in up'
      BY <3>1, <3>2
    <3>6. \A o \in adrift' : o \in adrift /\ op[o].to \in up'
      BY <3>1, <3>2
    <3>7. QED
      BY <3>1, <3>3, <3>4, <3>5, <3>6
  <2>9. Rest1
    BY <1>2, <2>1, <2>2, <2>3, <2>4, <2>5, <2>6, <2>7, <2>8 DEF DaemonStep
  <2>10. \A o \in Ops : op[o].to \in Nat
    BY <1>t, RequestTypes
  <2>11. \A o \in Ops : op'[o].to <= born'
    BY <1>t, <1>u, <2>9, <2>10 DEF Alive, DaemonTypes
  <2>12. \A c \in Conns : peer'[c] <= born'
    BY <1>t, <1>u, <2>9 DEF Alive, DaemonTypes, RelayTypes
  <2>13. QED
    BY <1>l, <1>u, <2>9, <2>11, <2>12 DEF Alive
<1>3. QED
  BY <1>1, <1>2

LEMMA MarkedMoves ==
    ASSUME CodexTypeOK, Alive, Placed, Booked, Marked, Phased, DaemonStep \/ LaunchStep
    PROVE  Marked'
<1> USE Numbers
<1>t. DaemonTypes
  BY TypeParts
<1>d. \A d \in Daemons : Distinct(line[d])
  BY DEF Placed
<1>1. CASE DaemonStep
  <2>1. UNCHANGED <<sup, step, cpeer>>
    BY <1>1, Frames DEF DaemonFrame
  <2>2. ASSUME NEW d \in Daemons, Mark \in ToSet(line'[d]) PROVE Mark \in ToSet(line[d])
    <3> DEFINE Goal == \/ line'[d] = line[d] \/ line'[d] = <<>>
                       \/ \E i \in DOMAIN line[d] : line'[d] = RemoveAt(line[d], i)
                       \/ \E z \in Ops : line'[d] = Append(line[d], z)
    <3>1. ASSUME NEW c \in Conns, Admit(c) PROVE Goal
      <4>1. Head(socket[c]) \in Ops /\ line' = [line EXCEPT ![peer[c]] = Append(@, Head(socket[c]))]
        BY <3>1, Places, TailFacts DEF Admit
      <4>2. QED
        BY <1>t, <4>1 DEF DaemonTypes
    <3>2. ASSUME NEW o \in Ops, AdmitAdrift(o) PROVE Goal
      BY <1>t, <3>2 DEF AdmitAdrift, DaemonTypes
    <3>3. ASSUME NEW e \in Daemons, NEW i \in DOMAIN line[e], NEW done \in BOOLEAN, Handle(e, i, done)
          PROVE  Goal
      <4>1. line' = [line EXCEPT ![e] = RemoveAt(line[e], i)]
        BY <3>3 DEF Handle, Without
      <4>2. QED
        BY <1>t, <4>1 DEF DaemonTypes
    <3>4. ASSUME NEW e \in Daemons, Dies(e) PROVE Goal
      BY <1>t, <3>4 DEF Dies, DaemonTypes
    <3>5. ASSUME NEW c, Closes(c) \/ CoreRuns(c) \/ ThreadMoves(c) \/ Starts PROVE Goal
      BY <3>5 DEF Closes, CoreRuns, ThreadMoves, Starts, workVars
    <3> HIDE DEF Goal
    <3>6. Goal
      BY <1>1, <3>1, <3>2, <3>3, <3>4, <3>5 DEF DaemonStep
    <3>7. line[d] \in Seq(Ops \cup {Mark})
      BY Places
    <3>8. CASE line'[d] = <<>>
      <4>1. DOMAIN line'[d] = {}
        BY <3>8
      <4>2. QED
        BY <2>2, <4>1 DEF ToSet
    <3>9. CASE \E i \in DOMAIN line[d] : line'[d] = RemoveAt(line[d], i)
      BY <1>d, <2>2, <3>7, <3>9, RemoveAtFacts
    <3>10. CASE \E z \in Ops : line'[d] = Append(line[d], z)
      BY <2>2, <3>7, <3>10, AppendFacts
    <3>11. QED
      BY <2>2, <3>6, <3>8, <3>9, <3>10 DEF Goal
  <2>3. QED
    BY <2>1, <2>2 DEF Marked
<1>2. CASE LaunchStep
  <2>0. \A d \in Daemons : line[d] \in Seq(Ops \cup {Mark})
    BY Places
  <2>1. CASE GivesUp \/ Exits
    <3>1. \A d \in Daemons : line'[d] = Unmarked(line[d])
      BY <2>1 DEF GivesUp, Exits
    <3>2. \A d \in Daemons : Mark \notin ToSet(line'[d])
      BY <1>d, <2>0, <3>1, UnmarkedFacts
    <3>3. QED
      BY <3>2 DEF Marked
  <2>2. CASE Watches \/ Idles
    BY <2>2 DEF Watches, Idles, SameWork, Marked
  <2>3. ASSUME line' = line, \A d \in Daemons : Mark \notin ToSet(line[d]) PROVE Marked'
    BY <2>3 DEF Marked
  <2>4. CASE Begins \/ Fences \/ Frees
    BY <2>3, <2>4 DEF Begins, Fences, Frees, SameWork, Marked
  <2>5. CASE Connects \/ Works
    BY <2>3, <2>5 DEF Connects, Works, SameWork, Marked
  <2>6. CASE Asks
    <3>1. /\ line' = [line EXCEPT ![cpeer] = Append(@, Mark)] /\ cpeer' = cpeer /\ sup' = sup
          /\ sup = "cleaning" /\ step \in {"fence", "verify"} /\ step' \in {"fencing", "verifying"}
      BY <2>6 DEF Asks, Cleaning
    <3>2. \A d \in Daemons \ {cpeer} : line'[d] = line[d]
      BY <1>t, <3>1 DEF DaemonTypes
    <3>3. \A d \in Daemons : Mark \notin ToSet(line[d])
      BY <3>1 DEF Marked
    <3>4. QED
      BY <3>1, <3>2, <3>3 DEF Marked
  <2>7. ASSUME NEW i \in DOMAIN line[cpeer], Hears(i) PROVE Marked'
    <3>1. /\ line' = [line EXCEPT ![cpeer] = RemoveAt(line[cpeer], i)] /\ line[cpeer][i] = Mark
          /\ cpeer \in up
      BY <2>7 DEF Hears, Without
    <3> PICK d \in Daemons : d = cpeer
      BY <3>1, Places
    <3>2. line'[d] = RemoveAt(line[d], i) /\ \A e \in Daemons \ {d} : line'[e] = line[e]
      BY <1>t, <3>1 DEF DaemonTypes
    <3>3. Mark \notin ToSet(line'[d])
      BY <1>d, <2>0, <3>1, <3>2, RemoveAtFacts
    <3>4. \A e \in Daemons \ {d} : Mark \notin ToSet(line'[e])
      BY <3>2 DEF Marked
    <3>5. QED
      BY <3>3, <3>4 DEF Marked
  <2>8. QED
    BY <1>2, <2>1, <2>2, <2>4, <2>5, <2>6, <2>7 DEF LaunchStep
<1>3. QED
  BY <1>1, <1>2

\* The launcher's end: what the relay has written stays where a daemon can read it.
LEMMA ExitsKeep ==
    ASSUME CodexTypeOK, Alive, Placed, Booked, InOrder, Exits
    PROVE  Alive' /\ Placed' /\ Booked' /\ InOrder'
<1> USE Numbers
<1>t. DaemonTypes /\ RelayTypes
  BY TypeParts
<1>e. /\ UNCHANGED <<born, front, up, core, answer, op, peer, pending, uncertain>>
      /\ sup' = "exited"
      /\ \A c \in Conns : /\ stat'[c] = "gone" /\ ~open'[c] /\ holding'[c] = 0
                          /\ socket'[c] = <<>>
      /\ adrift' = adrift \cup UNION {Written(c) : c \in Conns}
      /\ \A d \in Daemons : line'[d] = Unmarked(line[d])
  BY DEF Exits, LaunchFrame
<1>d. \A d \in Daemons : Distinct(line[d]) /\ (line[d] # <<>> => d \in up)
  BY DEF Placed, Alive
<1>l. \A d \in Daemons : LineMoves(d) /\ Listed(d)' = Listed(d)
  BY <1>d, <1>e, LineUnmarked
<1>w. \A c \in Conns : Written(c)' = {} /\ Distinct(socket'[c])
  BY <1>e, SocketEmptied DEF SocketMoves
<1>a. \A o \in adrift' : o \in adrift \/ \E c \in Conns : o \in Written(c)
  BY <1>e
<1>m. \A o : Moves(o)' => Moves(o)
  BY <1>a, <1>l, <1>w DEF Moves
<1>p. \A c \in Conns : \A o \in Written(c) :
         o \in Ops /\ o \in pending[c] /\ open[c] /\ op[o].to = peer[c]
  BY Places DEF Placed, Booked
<1>1. Alive'
  <2>1. \A o \in adrift' : op[o].to \in up
    BY <1>a, <1>p DEF Alive
  <2>2. \A d \in Daemons : line'[d] # <<>> => d \in up'
    BY <1>l DEF LineMoves
  <2>3. QED
    BY <1>e, <2>1, <2>2 DEF Alive
<1>2. Placed'
  <2>1. \A d \in Daemons : Distinct(line'[d])
    BY <1>l DEF LineMoves
  <2>2. \A d \in Daemons : Listed(d)' \cap adrift' = {}
    BY <1>a, <1>l DEF Placed
  <2>3. Lost' = Lost
    BY <1>e DEF Lost
  <2>4. ASSUME NEW o \in Ops, Moves(o)'
        PROVE  /\ op'[o].kind \in Kinds /\ answer'[o] = "none"
               /\ (\E c \in Conns : o \in pending'[c]) \/ \E u \in Lost' : u.o = o
    <3>1. Moves(o)
      BY <1>m, <2>4
    <3>2. QED
      BY <1>e, <2>3, <3>1 DEF Placed
  <2>5. \A d \in Daemons : \A o \in Listed(d)' : op'[o].to = d
    BY <1>e, <1>l DEF Placed
  <2>6. QED
    BY <1>w, <2>1, <2>2, <2>4, <2>5 DEF Placed
<1>3. Booked'
  <2>1. ASSUME NEW c \in Conns, NEW u \in uncertain[c], u.received PROVE u.o \notin adrift'
    <3>1. u.o \notin adrift /\ \A e \in Conns : u.o \notin pending[e]
      BY <2>1 DEF Booked
    <3>2. QED
      BY <1>a, <1>p, <3>1
  <2>2. \A c \in Conns : \A u \in uncertain'[c] :
          /\ op'[u.o].kind \in Kinds
          /\ \A e \in Conns : /\ u.o \notin pending'[e] /\ holding'[e] # u.o
                              /\ \A v \in uncertain'[e] : v.o = u.o => e = c /\ v = u
          /\ u.received => u.o \notin adrift'
    <3> SUFFICES ASSUME NEW c \in Conns, NEW u \in uncertain[c]
                 PROVE  /\ op[u.o].kind \in Kinds
                        /\ \A e \in Conns :
                              /\ u.o \notin pending[e] /\ holding'[e] # u.o
                              /\ \A v \in uncertain[e] : v.o = u.o => e = c /\ v = u
                        /\ u.received => u.o \notin adrift'
      BY <1>e
    <3>1. u.o \in Ops
      BY Places
    <3>2. u.o # 0
      BY <3>1
    <3>3. QED
      BY <1>e, <2>1, <3>2 DEF Booked
  <2>3. \A c \in Conns : holding'[c] = 0
    BY <1>e
  <2>4. QED
    BY <1>e, <2>2, <2>3 DEF Booked
<1>4. InOrder'
  <2> SUFFICES ASSUME NEW c \in Conns, NEW u \in uncertain[c], NEW o \in Ops, o \in pending[c],
                      u.received, op[u.o].to = peer[c], op[u.o].thread = op[o].thread,
                      u.o \in Listed(peer[c])'
               PROVE  answer[o] = "none" /\ Ahead(line'[peer[c]], u.o, o)
    BY <1>e DEF InOrder, Listed
  <2>1. op[u.o].to \in Daemons
    <3>1. u.o \in Ops /\ op[u.o].kind \in Kinds
      BY Places DEF Booked
    <3>2. QED
      BY <1>t, <3>1, RequestTypes
  <2> PICK d \in Daemons : d = peer[c]
    BY <2>1
  <2>2. LineMoves(d) /\ u.o \in Listed(d)
    BY <1>l, <1>e DEF Listed
  <2>3. answer[o] = "none" /\ Ahead(line[d], u.o, o)
    BY <2>2 DEF InOrder
  <2>4. QED
    BY <2>2, <2>3 DEF LineMoves
<1>5. QED
  BY <1>1, <1>2, <1>3, <1>4

-----------------------------------------------------------------------------
(* Places and books, when the relay moves *)

Kept1 == Alive' /\ Placed' /\ Booked' /\ InOrder'

\* A connection opens or waits, and nothing is asked.
LEMMA RelayWaits ==
    ASSUME CodexTypeOK, Alive, Placed, Booked, InOrder, RelayFrame,
           UNCHANGED <<op, peer, open, socket, holding, pending, uncertain, adrift, answer>>,
           \A c \in Conns : stat'[c] \in {"up", "end"} => stat[c] \in {"up", "end"}
    PROVE  Kept1
<1>f. UNCHANGED <<born, front, up, line, core, sup>>
  BY DEF RelayFrame
<1>1. Alive'
  BY <1>f DEF Alive
<1>2. \A o : Moves(o)' <=> Moves(o)
  BY <1>f DEF Moves, Written, Listed
<1>3. Lost' = Lost
  BY DEF Lost
<1>4. Placed'
  BY <1>f, <1>2, <1>3 DEF Placed, Written, Listed
<1>5. Booked'
  <2>1. ASSUME NEW c \in Conns, holding[c] # 0 PROVE ~Moves(holding[c])'
    <3>1. PICK h : h = holding[c]
      OBVIOUS
    <3>2. ~Moves(h)'
      BY <1>2, <2>1, <3>1 DEF Booked
    <3>3. QED
      BY <3>1, <3>2 DEF Moves
  <2>2. QED
    BY <1>f, <2>1 DEF Booked
<1>6. InOrder'
  BY <1>f DEF InOrder, Listed
<1>7. QED
  BY <1>1, <1>4, <1>5, <1>6 DEF Kept1

LEMMA RelayDials ==
    ASSUME CodexTypeOK, Alive, Placed, Booked, InOrder, Gated, RelayFrame,
           NEW c \in Conns, Dialled(c)
    PROVE  Kept1
<1> USE Numbers
<1>t. DaemonTypes /\ RelayTypes
  BY TypeParts
<1>f. UNCHANGED <<born, front, up, line, core, sup>>
  BY DEF RelayFrame
<1>0. /\ UNCHANGED <<op, socket, holding, pending, uncertain, adrift, answer>>
      /\ stat[c] = "dial" /\ front # 0
      /\ stat' = [stat EXCEPT ![c] = "up"] /\ peer' = [peer EXCEPT ![c] = front]
      /\ open' = [open EXCEPT ![c] = TRUE]
  BY DEF Dialled, workVars
<1>1. pending[c] = {} /\ holding[c] = 0
  BY <1>0 DEF Gated, GatedAt
<1>2. /\ peer'[c] = front /\ front \in up /\ front \in Daemons /\ front <= born
      /\ \A e \in Conns \ {c} : peer'[e] = peer[e] /\ open'[e] = open[e] /\ stat'[e] = stat[e]
  BY <1>t, <1>0 DEF Alive, RelayTypes, DaemonTypes
<1>3. Alive'
  <2>1. ASSUME NEW e \in Conns
        PROVE  /\ peer'[e] <= born /\ (open'[e] => peer'[e] \in up)
               /\ (stat'[e] \in {"up", "end"} => peer'[e] \in Daemons)
    <3>1. CASE e = c
      BY <1>2, <3>1
    <3>2. CASE e # c
      BY <1>2, <3>2 DEF Alive
    <3>3. QED
      BY <3>1, <3>2
  <2>2. QED
    BY <1>f, <1>0, <2>1 DEF Alive
<1>4. \A o : Moves(o)' <=> Moves(o)
  BY <1>f, <1>0 DEF Moves, Written, Listed
<1>5. Lost' = Lost
  BY <1>0 DEF Lost
<1>6. Placed'
  <2>1. \A e \in Conns : \A o \in Written(e)' : o \in pending'[e] /\ open'[e]
    BY <1>0, <1>1, <1>2 DEF Placed, Written
  <2>2. QED
    BY <1>f, <1>0, <1>4, <1>5, <2>1 DEF Placed, Written, Listed
<1>7. Booked'
  <2>1. ASSUME NEW e \in Conns, holding[e] # 0 PROVE ~Moves(holding[e])' /\ peer'[e] = peer[e]
    <3>1. PICK h : h = holding[e]
      OBVIOUS
    <3>2. ~Moves(h)'
      BY <1>4, <2>1, <3>1 DEF Booked
    <3>3. QED
      BY <1>0, <1>1, <1>2, <2>1, <3>1, <3>2 DEF Moves
  <2>2. \A e \in Conns : \A o \in pending[e] : peer'[e] = peer[e]
    BY <1>1, <1>2
  <2>3. QED
    BY <1>f, <1>0, <2>1, <2>2 DEF Booked
<1>8. InOrder'
  <2> SUFFICES ASSUME NEW e \in Conns, NEW u \in uncertain[e], NEW o \in Ops,
                      o \in pending[e] \/ o = holding[e],
                      u.received, op[u.o].to = peer'[e], op[u.o].thread = op[o].thread,
                      u.o \in Listed(peer[e])'
               PROVE  answer[o] = "none" /\ Ahead(line[peer'[e]], u.o, o)
    BY <1>f, <1>0 DEF InOrder, Listed
  <2>1. e # c
    BY <1>1
  <2>2. peer'[e] = peer[e]
    BY <1>2, <2>1
  <2>3. u.o \in Listed(peer[e])
    BY <1>f, <2>2 DEF Listed
  <2>4. QED
    BY <2>2, <2>3 DEF InOrder
<1>9. QED
  BY <1>3, <1>6, <1>7, <1>8 DEF Kept1

\* Nothing of o is on its way, held, waited for or lost.
Nowhere(o) ==
    /\ ~Moves(o) /\ answer[o] = "none"
    /\ \A c \in Conns : o \notin pending[c] /\ holding[c] # o /\ \A u \in uncertain[c] : u.o # o

\* Requests are over; the relay forgets them.
LEMMA RelayRetires ==
    ASSUME CodexTypeOK, Alive, Placed, Booked, InOrder, RelayFrame,
           UNCHANGED <<stat, peer, open, socket, adrift>>,
           NEW S \in SUBSET Ops, op' = Done(S), \A o \in S : Retired(o),
           \A c \in Conns : /\ pending'[c] \subseteq pending[c]
                            /\ uncertain'[c] \subseteq uncertain[c]
                            /\ holding'[c] \in {0, holding[c]},
           \A o \in Ops : /\ answer'[o] \in {"none", answer[o]}
                          /\ answer'[o] # "none" => \E c \in Conns : o \in pending'[c],
           \A c \in Conns : \A o \in pending[c] : Moves(o) => o \in pending'[c],
           \A c \in Conns : \A u \in uncertain[c] : Moves(u.o) => u \in uncertain'[c]
    PROVE  Kept1
<1> USE Numbers
<1>t. DaemonTypes /\ RelayTypes
  BY TypeParts
<1>f. UNCHANGED <<born, front, up, line, core, sup>>
  BY DEF RelayFrame
<1>1. /\ \A o \in Ops \ S : op'[o] = op[o]
      /\ \A o \in S : op'[o].kind = "over" /\ op'[o].to = 0
  BY DEF Done, Request
<1>2. /\ \A o \in S : ~Moves(o) /\ op[o].kind # "compact"
      /\ \A c \in Conns : \A o \in pending'[c] : o \in Ops \ S
      /\ \A c \in Conns : holding'[c] \notin S
      /\ \A c \in Conns : \A u \in uncertain'[c] : u.o \in Ops \ S
  <2>1. \A o \in S : ~Moves(o) /\ op[o].kind # "compact"
    BY DEF Retired
  <2>2. ASSUME NEW c \in Conns, NEW o \in pending'[c] PROVE o \in Ops \ S
    <3>1. o \in Ops
      BY Places
    <3>2. QED
      BY <2>2, <3>1 DEF Retired
  <2>3. \A c \in Conns : holding'[c] \notin S
    BY DEF Retired
  <2>4. ASSUME NEW c \in Conns, NEW u \in uncertain'[c] PROVE u.o \in Ops \ S
    <3>1. u.o \in Ops
      BY Places
    <3>2. QED
      BY <2>4, <3>1 DEF Retired
  <2>5. QED
    BY <2>1, <2>2, <2>3, <2>4
<1>3. \A o : Moves(o)' <=> Moves(o)
  BY <1>f DEF Moves, Written, Listed
<1>4. \A o \in Ops : Moves(o) => o \in Ops \ S
  BY <1>2
<1>5. Alive'
  <2>1. ASSUME NEW o \in Ops PROVE op'[o].to <= born
    <3>1. CASE o \in S
      BY <1>1, <1>t, <3>1 DEF DaemonTypes
    <3>2. CASE o \notin S
      BY <1>1, <3>2 DEF Alive
    <3>3. QED
      BY <3>1, <3>2
  <2>2. \A o \in adrift : op'[o].to \in up
    BY <1>1, <1>4, Places DEF Alive, Moves
  <2>3. QED
    BY <1>f, <2>1, <2>2 DEF Alive
<1>6. Placed'
  <2>1. \A c \in Conns : \A o \in Written(c) : o \in pending'[c] /\ open'[c]
    BY DEF Placed, Moves
  <2>2. \A d \in Daemons : \A o \in Listed(d) : op'[o].to = d
    BY <1>1, <1>4, Places DEF Placed, Moves
  <2>3. ASSUME NEW o \in Ops, Moves(o)
        PROVE  /\ op'[o].kind \in Kinds /\ answer'[o] = "none"
               /\ (\E c \in Conns : o \in pending'[c]) \/ \E u \in Lost' : u.o = o
    <3>1. /\ op[o].kind \in Kinds /\ answer[o] = "none"
          /\ (\E c \in Conns : o \in pending[c]) \/ \E u \in Lost : u.o = o
      BY <2>3 DEF Placed
    <3>2. op'[o] = op[o]
      BY <1>1, <1>4, <2>3
    <3>3. (\E c \in Conns : o \in pending'[c]) \/ \E u \in Lost' : u.o = o
      BY <2>3, <3>1 DEF Lost
    <3>4. QED
      BY <3>1, <3>2, <3>3
  <2>4. QED
    BY <1>f, <1>3, <2>1, <2>2, <2>3 DEF Placed, Written, Listed
<1>7. Booked'
  <2>1. ASSUME NEW c \in Conns, NEW o \in pending'[c]
        PROVE  /\ op'[o].kind \in Kinds /\ op'[o].to = peer[c]
               /\ o \in adrift => sup = "exited"
               /\ \A e \in Conns : o \in pending'[e] => e = c
    <3>1. op'[o] = op[o] /\ o \in pending[c]
      BY <1>1, <1>2
    <3>2. QED
      BY <3>1 DEF Booked
  <2>2. ASSUME NEW c \in Conns, holding'[c] # 0
        PROVE  /\ op'[holding'[c]].kind \in Prepared /\ op'[holding'[c]].to = peer[c]
               /\ ~Moves(holding[c])'
               /\ \A e \in Conns : /\ holding'[c] \notin pending'[e]
                                   /\ holding'[e] = holding'[c] => e = c
    <3>1. PICK h : h = holding[c]
      OBVIOUS
    <3>2. holding'[c] = h /\ h \in Ops /\ h # 0
      BY <2>2, <3>1, Places
    <3>3. op'[h] = op[h]
      BY <1>1, <1>2, <3>2
    <3>4. /\ op[h].kind \in Prepared /\ op[h].to = peer[c] /\ ~Moves(h)
          /\ \A e \in Conns : h \notin pending[e] /\ (holding[e] = h => e = c)
      BY <3>1, <3>2 DEF Booked
    <3>5. ~Moves(holding[c])'
      BY <1>3, <3>2, <3>4 DEF Moves
    <3>6. QED
      BY <3>2, <3>3, <3>4, <3>5
  <2>3. ASSUME NEW c \in Conns, NEW u \in uncertain'[c]
        PROVE  /\ op'[u.o].kind \in Kinds
               /\ \A e \in Conns : /\ u.o \notin pending'[e] /\ holding'[e] # u.o
                                   /\ \A v \in uncertain'[e] : v.o = u.o => e = c /\ v = u
               /\ u.received => u.o \notin adrift
    <3>1. op'[u.o] = op[u.o] /\ u \in uncertain[c] /\ u.o # 0
      BY <1>1, <1>2
    <3>2. QED
      BY <3>1 DEF Booked
  <2>4. \A o \in core : op'[o].kind = "compact"
    <3>1. core \subseteq Ops
      BY <1>t DEF DaemonTypes
    <3>2. QED
      BY <1>1, <1>2, <3>1 DEF Booked
  <2>5. QED
    BY <1>f, <2>1, <2>2, <2>3, <2>4 DEF Booked
<1>8. InOrder'
  <2> SUFFICES ASSUME NEW c \in Conns, NEW u \in uncertain'[c], NEW o \in Ops,
                      o \in pending'[c] \/ o = holding'[c],
                      u.received, op'[u.o].to = peer[c], op'[u.o].thread = op'[o].thread,
                      u.o \in Listed(peer[c])
               PROVE  answer'[o] = "none" /\ Ahead(line[peer[c]], u.o, o)
    BY <1>f DEF InOrder, Listed
  <2>1. /\ o \in Ops \ S /\ u.o \in Ops \ S /\ u \in uncertain[c]
        /\ o \in pending[c] \/ o = holding[c]
    BY <1>2
  <2>2. answer[o] = "none" /\ Ahead(line[peer[c]], u.o, o)
    BY <1>1, <2>1 DEF InOrder
  <2>3. QED
    BY <2>2
<1>9. QED
  BY <1>5, <1>6, <1>7, <1>8 DEF Kept1

LEMMA RelayHolds ==
    ASSUME CodexTypeOK, Alive, Placed, Booked, InOrder, RelayFrame,
           UNCHANGED <<stat, peer, open, socket, adrift, answer, pending, uncertain>>,
           NEW c \in Conns, NEW o \in Ops, Nowhere(o), op[o].kind = "unsent",
           NEW kind \in Prepared, NEW t \in Threads, op' = [op EXCEPT ![o] = Request(kind, t, peer[c])],
           holding[c] = 0, holding' = [holding EXCEPT ![c] = o]
    PROVE  Kept1
<1> USE Numbers
<1>t. DaemonTypes /\ RelayTypes
  BY TypeParts
<1>f. UNCHANGED <<born, front, up, line, core, sup>>
  BY DEF RelayFrame
<1>1. /\ \A p \in Ops \ {o} : op'[p] = op[p]
      /\ op'[o].kind = kind /\ op'[o].to = peer[c]
  BY <1>t DEF Request, RelayTypes
<1>2. holding'[c] = o /\ \A e \in Conns \ {c} : holding'[e] = holding[e]
  BY <1>t DEF RelayTypes
<1>3. \A p : Moves(p)' <=> Moves(p)
  BY <1>f DEF Moves, Written, Listed
<1>4. Lost' = Lost
  BY DEF Lost
<1>n. /\ ~Moves(o) /\ answer[o] = "none"
      /\ \A e \in Conns : o \notin pending[e] /\ holding[e] # o /\ \A u \in uncertain[e] : u.o # o
  BY DEF Nowhere
<1>5. Alive'
  <2>1. \A p \in Ops : op'[p].to <= born
    BY <1>1 DEF Alive
  <2>2. \A p \in adrift : op'[p].to \in up
    BY <1>1, <1>n, Places DEF Alive, Moves
  <2>3. QED
    BY <1>f, <2>1, <2>2 DEF Alive
<1>6. Placed'
  <2>1. \A d \in Daemons : \A p \in Listed(d) : op'[p].to = d
    BY <1>1, <1>n, Places DEF Placed, Moves
  <2>2. ASSUME NEW p \in Ops, Moves(p) PROVE op'[p] = op[p]
    BY <1>1, <1>n, <2>2
  <2>3. QED
    BY <1>f, <1>3, <1>4, <2>1, <2>2 DEF Placed, Written, Listed
<1>7. Booked'
  <2>1. ASSUME NEW e \in Conns, NEW p \in pending[e]
        PROVE  /\ op'[p].kind \in Kinds /\ op'[p].to = peer[e]
               /\ p \in adrift => sup = "exited"
               /\ \A g \in Conns : p \in pending[g] => g = e
    <3>1. p \in Ops \ {o}
      BY <1>n, Places
    <3>2. QED
      BY <1>1, <3>1 DEF Booked
  <2>2. ASSUME NEW e \in Conns, holding'[e] # 0
        PROVE  /\ op'[holding'[e]].kind \in Prepared /\ op'[holding'[e]].to = peer[e]
               /\ ~Moves(holding[e])'
               /\ \A g \in Conns : /\ holding'[e] \notin pending[g]
                                   /\ holding'[g] = holding'[e] => g = e
    <3>1. PICK h : h = holding'[e]
      OBVIOUS
    <3>2. CASE e = c
      <4>1. h = o
        BY <1>2, <3>1, <3>2
      <4>2. ~Moves(holding[e])'
        BY <1>3, <1>n, <3>1, <4>1 DEF Moves
      <4>3. QED
        BY <1>1, <1>2, <1>n, <3>1, <3>2, <4>1, <4>2
    <3>3. CASE e # c
      <4>1. h = holding[e] /\ h \in Ops /\ h # o
        BY <1>2, <1>n, <2>2, <3>1, <3>3, Places
      <4>2. /\ op[h].kind \in Prepared /\ op[h].to = peer[e] /\ ~Moves(h)
            /\ \A g \in Conns : h \notin pending[g] /\ (holding[g] = h => g = e)
        BY <2>2, <3>1, <4>1 DEF Booked
      <4>3. ~Moves(holding[e])'
        BY <1>3, <3>1, <4>2 DEF Moves
      <4>4. \A g \in Conns : holding'[g] = h => g = e
        BY <1>2, <4>1, <4>2
      <4>5. QED
        BY <1>1, <3>1, <4>1, <4>2, <4>3, <4>4
    <3>4. QED
      BY <3>2, <3>3
  <2>3. ASSUME NEW e \in Conns, NEW u \in uncertain[e]
        PROVE  /\ op'[u.o].kind \in Kinds
               /\ \A g \in Conns : /\ u.o \notin pending[g] /\ holding'[g] # u.o
                                   /\ \A v \in uncertain[g] : v.o = u.o => g = e /\ v = u
               /\ u.received => u.o \notin adrift
    <3>1. u.o \in Ops \ {o}
      BY <1>n, Places
    <3>2. \A g \in Conns : holding'[g] = o \/ holding'[g] = holding[g]
      BY <1>2
    <3>3. QED
      BY <1>1, <3>1, <3>2 DEF Booked
  <2>4. \A p \in core : op'[p].kind = "compact"
    <3>1. core \subseteq Ops
      BY <1>t DEF DaemonTypes
    <3>2. o \notin core
      BY <3>1 DEF Booked
    <3>3. QED
      BY <1>1, <3>1, <3>2 DEF Booked
  <2>5. QED
    BY <1>f, <2>1, <2>2, <2>3, <2>4 DEF Booked
<1>8. InOrder'
  <2> SUFFICES ASSUME NEW e \in Conns, NEW u \in uncertain[e], NEW p \in Ops,
                      p \in pending[e] \/ p = holding'[e],
                      u.received, op'[u.o].to = peer[e], op'[u.o].thread = op'[p].thread,
                      u.o \in Listed(peer[e])
               PROVE  answer[p] = "none" /\ Ahead(line[peer[e]], u.o, p)
    BY <1>f DEF InOrder, Listed
  <2>1. u.o \in Ops \ {o}
    BY <1>n, Places
  <2>2. CASE p # o
    <3>1. p \in pending[e] \/ p = holding[e]
      BY <1>2, <2>2
    <3>2. QED
      BY <1>1, <2>1, <2>2, <3>1 DEF InOrder
  <2>3. CASE p = o
    <3>1. PICK d \in Daemons : d = peer[e]
      <4>1. op[u.o].to \in Daemons
        BY <1>t, <2>1, RequestTypes DEF Booked
      <4>2. QED
        BY <1>1, <2>1, <4>1
    <3>2. o \notin ToSet(line[d])
      BY <1>n DEF Moves, Listed
    <3>3. \A i \in DOMAIN line[d] : line[d][i] # o
      BY <3>2 DEF ToSet
    <3>4. QED
      BY <1>n, <2>3, <3>1, <3>3 DEF Ahead
  <2>4. QED
    BY <2>2, <2>3
<1>9. QED
  BY <1>5, <1>6, <1>7, <1>8 DEF Kept1

LEMMA RelayWrites ==
    ASSUME CodexTypeOK, Alive, Placed, Booked, InOrder, RelayFrame,
           NEW c \in Conns, NEW o \in Ops, Write(c, o), stat[c] = "up",
           ~Moves(o), answer[o] = "none",
           \A e \in Conns : /\ o \notin pending[e] /\ \A u \in uncertain[e] : u.o # o
                            /\ holding'[e] # o /\ holding'[e] \in {0, holding[e]},
           \A p \in Ops \ {o} : op'[p] = op[p],
           op'[o].kind \in Kinds, op'[o].to = peer[c],
           op'[o] = op[o] \/ op[o].kind = "unsent"
    PROVE  Kept1
<1> USE Numbers
<1>t. DaemonTypes /\ RelayTypes
  BY TypeParts
<1>f. UNCHANGED <<born, front, up, line, core, sup>>
  BY DEF RelayFrame
<1>0. /\ UNCHANGED <<adrift, answer, peer, open, uncertain>>
      /\ pending' = [pending EXCEPT ![c] = @ \cup {o}]
      /\ \/ open[c] /\ socket' = [socket EXCEPT ![c] = Append(@, o)] /\ UNCHANGED stat
         \/ UNCHANGED socket /\ stat' \in {stat, [stat EXCEPT ![c] = "end"]}
  BY DEF Write, workVars
<1>1. /\ pending'[c] = pending[c] \cup {o}
      /\ \A e \in Conns \ {c} : pending'[e] = pending[e]
  BY <1>0, <1>t DEF RelayTypes
<1>2. \A e \in Conns : /\ Distinct(socket'[e])
                       /\ \/ Written(e)' = Written(e)
                          \/ e = c /\ open[c] /\ Written(e)' = Written(e) \cup {o}
  <2>1. CASE UNCHANGED socket
    BY <2>1 DEF Placed, Written
  <2>2. CASE open[c] /\ socket' = [socket EXCEPT ![c] = Append(@, o)]
    <3>1. socket[c] \in Seq(Ops) /\ Distinct(socket[c]) /\ o \notin ToSet(socket[c])
      BY Places DEF Placed, Moves, Written
    <3>2. socket'[c] = Append(socket[c], o) /\ \A e \in Conns \ {c} : socket'[e] = socket[e]
      BY <1>t, <2>2 DEF RelayTypes
    <3>3. Distinct(socket'[c]) /\ Written(c)' = Written(c) \cup {o}
      BY <3>1, <3>2, AppendFacts DEF Written
    <3>4. \A e \in Conns \ {c} : Distinct(socket'[e]) /\ Written(e)' = Written(e)
      BY <3>2 DEF Placed, Written
    <3>5. QED
      BY <2>2, <3>3, <3>4
  <2>3. QED
    BY <1>0, <2>1, <2>2
<1>3. \A p : Moves(p)' => Moves(p) \/ p = o
  BY <1>f, <1>0, <1>2 DEF Moves, Listed
<1>4. Lost' = Lost
  BY <1>0 DEF Lost
<1>n. /\ o \notin adrift /\ \A e \in Conns : o \notin Written(e)
      /\ \A d \in Daemons : o \notin Listed(d)
  BY DEF Moves
<1>k. \A e \in Conns : peer[e] \in Nat
  BY <1>t DEF RelayTypes
<1>5. Alive'
  <2>1. \A p \in Ops : op'[p].to <= born
    BY DEF Alive
  <2>2. \A p \in adrift : op'[p].to \in up
    BY <1>n, Places DEF Alive
  <2>3. \A e \in Conns : stat'[e] \in {"up", "end"} => stat[e] \in {"up", "end"}
    BY <1>0, <1>t DEF RelayTypes
  <2>4. QED
    BY <1>f, <1>0, <2>1, <2>2, <2>3 DEF Alive
<1>6. Placed'
  <2>1. \A d \in Daemons : \A p \in Listed(d) : op'[p].to = d
    BY <1>n, Places DEF Placed
  <2>2. \A e \in Conns : \A p \in Written(e)' : p \in pending'[e] /\ open[e]
    BY <1>1, <1>2 DEF Placed
  <2>3. \A e \in Conns : Written(e)' \cap adrift = {}
    BY <1>2, <1>n DEF Placed
  <2>4. \A d \in Daemons : \A e \in Conns : Listed(d) \cap Written(e)' = {}
    BY <1>2, <1>n DEF Placed
  <2>5. ASSUME NEW p \in Ops, Moves(p)'
        PROVE  /\ op'[p].kind \in Kinds /\ answer[p] = "none"
               /\ (\E e \in Conns : p \in pending'[e]) \/ \E u \in Lost : u.o = p
    <3>1. CASE p = o
      BY <1>1, <3>1
    <3>2. CASE p # o
      <4>1. Moves(p) /\ op'[p] = op[p]
        BY <1>3, <2>5, <3>2
      <4>2. /\ op[p].kind \in Kinds /\ answer[p] = "none"
            /\ (\E e \in Conns : p \in pending[e]) \/ \E u \in Lost : u.o = p
        BY <4>1 DEF Placed
      <4>3. \A e \in Conns : pending[e] \subseteq pending'[e]
        BY <1>1
      <4>4. QED
        BY <4>1, <4>2, <4>3
    <3>3. QED
      BY <3>1, <3>2
  <2>6. \A d \in Daemons : Distinct(line[d]) /\ Listed(d) \cap adrift = {}
    BY DEF Placed
  <2>7. /\ \A d \in Daemons : Listed(d)' = Listed(d) /\ Distinct(line'[d])
        /\ adrift' = adrift /\ open' = open /\ answer' = answer
    BY <1>f, <1>0, <2>6 DEF Listed
  <2>8. QED
    BY <1>2, <1>4, <2>1, <2>2, <2>3, <2>4, <2>5, <2>6, <2>7 DEF Placed
<1>7. Booked'
  <2>1. ASSUME NEW e \in Conns, NEW p \in pending'[e]
        PROVE  /\ op'[p].kind \in Kinds /\ op'[p].to = peer[e]
               /\ p \in adrift => sup = "exited"
               /\ \A g \in Conns : p \in pending'[g] => g = e
    <3>1. CASE p = o
      BY <1>1, <1>n, <2>1, <3>1
    <3>2. CASE p # o
      <4>1. p \in pending[e] /\ p \in Ops
        BY <1>1, <2>1, <3>2, Places
      <4>2. \A g \in Conns : p \in pending'[g] => p \in pending[g]
        BY <1>1, <3>2
      <4>3. QED
        BY <3>2, <4>1, <4>2 DEF Booked
    <3>3. QED
      BY <3>1, <3>2
  <2>2. ASSUME NEW e \in Conns, holding'[e] # 0
        PROVE  /\ op'[holding'[e]].kind \in Prepared /\ op'[holding'[e]].to = peer[e]
               /\ ~Moves(holding[e])'
               /\ \A g \in Conns : /\ holding'[e] \notin pending'[g]
                                   /\ holding'[g] = holding'[e] => g = e
    <3>1. PICK h : h = holding[e]
      OBVIOUS
    <3>2. holding'[e] = h /\ h \in Ops \ {o} /\ h # 0
      BY <2>2, <3>1, Places
    <3>3. /\ op[h].kind \in Prepared /\ op[h].to = peer[e] /\ ~Moves(h)
          /\ \A g \in Conns : h \notin pending[g] /\ (holding[g] = h => g = e)
      BY <3>1, <3>2 DEF Booked
    <3>4. ~Moves(h)'
      BY <1>3, <3>2, <3>3
    <3>5. ~Moves(holding[e])'
      BY <3>2, <3>4 DEF Moves
    <3>6. \A g \in Conns : h \notin pending'[g] /\ (holding'[g] = h => g = e)
      BY <1>1, <3>2, <3>3
    <3>7. QED
      BY <3>2, <3>3, <3>5, <3>6
  <2>3. ASSUME NEW e \in Conns, NEW u \in uncertain[e]
        PROVE  /\ op'[u.o].kind \in Kinds
               /\ \A g \in Conns : /\ u.o \notin pending'[g] /\ holding'[g] # u.o
                                   /\ \A v \in uncertain[g] : v.o = u.o => g = e /\ v = u
               /\ u.received => u.o \notin adrift
    <3>1. u.o \in Ops \ {o} /\ u.o # 0
      BY Places
    <3>2. \A g \in Conns : u.o \in pending'[g] => u.o \in pending[g]
      BY <1>1, <3>1
    <3>3. QED
      BY <3>1, <3>2 DEF Booked
  <2>4. \A p \in core : op'[p].kind = "compact"
    <3>1. core \subseteq Ops
      BY <1>t DEF DaemonTypes
    <3>2. ASSUME NEW p \in core PROVE op'[p] = op[p]
      <4>1. p = o => op[o].kind # "unsent"
        BY DEF Booked
      <4>2. QED
        BY <3>1, <4>1
    <3>3. QED
      BY <3>2 DEF Booked
  <2>5. \A p \in Ops : answer[p] # "none" => \E e \in Conns : p \in pending'[e]
    BY <1>1 DEF Booked
  <2>6. QED
    BY <1>f, <1>0, <2>1, <2>2, <2>3, <2>4, <2>5 DEF Booked
<1>8. InOrder'
  <2> SUFFICES ASSUME NEW e \in Conns, NEW u \in uncertain[e], NEW p \in Ops,
                      p \in pending'[e] \/ p = holding'[e],
                      u.received, op'[u.o].to = peer[e], op'[u.o].thread = op'[p].thread,
                      u.o \in Listed(peer[e])
               PROVE  answer[p] = "none" /\ Ahead(line[peer[e]], u.o, p)
    BY <1>f, <1>0 DEF InOrder, Listed
  <2>1. u.o \in Ops \ {o}
    BY Places
  <2>2. CASE p # o
    <3>1. p \in pending[e] \/ p = holding[e]
      BY <1>1, <2>2, Numbers
    <3>2. QED
      BY <2>1, <2>2, <3>1 DEF InOrder
  <2>3. CASE p = o
    <3>1. PICK d \in Daemons : d = peer[e]
      <4>1. op[u.o].to \in Daemons
        BY <1>t, <2>1, RequestTypes DEF Booked
      <4>2. QED
        BY <2>1, <4>1
    <3>2. o \notin ToSet(line[d])
      BY <1>n DEF Listed
    <3>3. \A i \in DOMAIN line[d] : line[d][i] # o
      BY <3>2 DEF ToSet
    <3>4. QED
      BY <2>3, <3>1, <3>3 DEF Ahead
  <2>4. QED
    BY <2>2, <2>3
<1>9. QED
  BY <1>5, <1>6, <1>7, <1>8 DEF Kept1

\* What a connection that ends has not been answered is lost, and adrift if it is unread.
LEMMA RelayEnds ==
    ASSUME CodexTypeOK, Alive, Placed, Booked, InOrder, RelayFrame, sup # "exited",
           NEW c \in Conns, NEW received \in BOOLEAN, Finish(c, received),
           received => Written(c) = {}, holding[c] = 0
    PROVE  Kept1
<1> USE Numbers
<1>t. DaemonTypes /\ RelayTypes
  BY TypeParts
<1>f. UNCHANGED <<born, front, up, line, core, sup>>
  BY DEF RelayFrame
<1> DEFINE lost == {[o |-> o, received |-> received] : o \in pending[c]}
<1>0. /\ UNCHANGED <<op, holding>>
      /\ uncertain' = [uncertain EXCEPT ![c] = @ \cup lost]
      /\ pending' = [pending EXCEPT ![c] = {}]
      /\ stat' = [stat EXCEPT ![c] = Over(c)]
      /\ open' = [open EXCEPT ![c] = FALSE] /\ peer' = [peer EXCEPT ![c] = 0]
      /\ socket' = [socket EXCEPT ![c] = <<>>]
      /\ adrift' = adrift \cup Written(c)
      /\ answer' = Unanswered({c})
  BY DEF Finish, Written
<1>1. /\ uncertain'[c] = uncertain[c] \cup lost /\ pending'[c] = {} /\ stat'[c] \in {"off", "gone"}
      /\ ~open'[c] /\ peer'[c] = 0 /\ socket'[c] = <<>>
      /\ \A e \in Conns \ {c} :
            /\ uncertain'[e] = uncertain[e] /\ pending'[e] = pending[e] /\ stat'[e] = stat[e]
            /\ open'[e] = open[e] /\ peer'[e] = peer[e] /\ socket'[e] = socket[e]
  BY <1>0, <1>t DEF RelayTypes, Over
<1>l. /\ \A u \in lost : u.o \in pending[c] /\ u.received = received
      /\ \A o \in pending[c] : \E u \in lost : u.o = o
      /\ \A u, v \in lost : u.o = v.o => u = v
  <2>1. \A u \in lost : u.o \in pending[c] /\ u.received = received
    OBVIOUS
  <2>2. ASSUME NEW o \in pending[c] PROVE \E u \in lost : u.o = o
    <3>1. [o |-> o, received |-> received] \in lost
      OBVIOUS
    <3>2. QED
      BY <3>1
  <2>3. ASSUME NEW u \in lost, NEW v \in lost, u.o = v.o PROVE u = v
    BY <2>3
  <2>4. QED
    BY <2>1, <2>2, <2>3
<1> HIDE DEF lost
<1>s. UNCHANGED <<op, holding>>
  BY <1>0
<1>2. /\ Written(c)' = {} /\ Distinct(socket'[c])
      /\ \A e \in Conns \ {c} : Written(e)' = Written(e)
  BY <1>1, SocketEmptied DEF SocketMoves, Written
<1>3. \A o : Moves(o)' => Moves(o)
  BY <1>f, <1>0, <1>2 DEF Moves, Listed
<1>4. \A o \in Ops : /\ answer'[o] \in {"none", answer[o]}
                     /\ answer'[o] # "none" => o \notin pending[c]
  BY <1>0 DEF Unanswered
<1>w. \A o \in Written(c) : o \in Ops /\ o \in pending[c] /\ open[c] /\ op[o].to = peer[c]
  BY Places DEF Placed, Booked
<1>5. Alive'
  <2>1. \A o \in adrift' : op[o].to \in up
    BY <1>0, <1>w DEF Alive
  <2>2. ASSUME NEW e \in Conns
        PROVE  /\ peer'[e] <= born /\ (open'[e] => peer'[e] \in up)
               /\ (stat'[e] \in {"up", "end"} => peer'[e] \in Daemons)
    <3>1. CASE e = c
      BY <1>1, <1>t, <3>1 DEF DaemonTypes
    <3>2. CASE e # c
      BY <1>1, <3>2 DEF Alive
    <3>3. QED
      BY <3>1, <3>2
  <2>3. QED
    BY <1>f, <1>0, <2>1, <2>2 DEF Alive
<1>6. Placed'
  <2>1. \A e \in Conns : Distinct(socket'[e])
    BY <1>1, <1>2 DEF Placed
  <2>2. ASSUME NEW e \in Conns PROVE Written(e)' \cap adrift' = {}
    <3>1. e # c => Written(e) \cap Written(c) = {}
      BY DEF Placed, Booked
    <3>2. QED
      BY <1>0, <1>2, <3>1 DEF Placed
  <2>3. \A d \in Daemons : /\ Listed(d) \cap adrift' = {}
                           /\ \A e \in Conns : Listed(d) \cap Written(e)' = {}
    BY <1>0, <1>2 DEF Placed
  <2>4. \A e \in Conns : \A o \in Written(e)' : o \in pending'[e] /\ open'[e]
    BY <1>1, <1>2 DEF Placed
  <2>5. ASSUME NEW o \in Ops, Moves(o)'
        PROVE  /\ op[o].kind \in Kinds /\ answer'[o] = "none"
               /\ (\E e \in Conns : o \in pending'[e]) \/ \E u \in Lost' : u.o = o
    <3>1. /\ op[o].kind \in Kinds /\ answer[o] = "none"
          /\ (\E e \in Conns : o \in pending[e]) \/ \E u \in Lost : u.o = o
      BY <1>3, <2>5 DEF Placed
    <3>2. ASSUME NEW e \in Conns, o \in pending[e]
          PROVE  (\E g \in Conns : o \in pending'[g]) \/ \E u \in Lost' : u.o = o
      <4>1. CASE e = c
        <5>1. \E u \in uncertain'[c] : u.o = o
          BY <1>1, <1>l, <3>2, <4>1
        <5>2. QED
          BY <5>1 DEF Lost
      <4>2. CASE e # c
        BY <1>1, <3>2, <4>2
      <4>3. QED
        BY <4>1, <4>2
    <3>3. ASSUME NEW u \in Lost, u.o = o PROVE \E v \in Lost' : v.o = o
      <4>1. \A e \in Conns : uncertain[e] \subseteq uncertain'[e]
        BY <1>1
      <4>2. QED
        BY <3>3, <4>1 DEF Lost
    <3>4. answer'[o] = "none"
      BY <1>4, <3>1
    <3>5. QED
      BY <3>1, <3>2, <3>3, <3>4
  <2>6. \A d \in Daemons : Distinct(line[d]) /\ \A o \in Listed(d) : op[o].to = d
    BY DEF Placed
  <2>7. \A d \in Daemons : Listed(d)' = Listed(d) /\ Distinct(line'[d])
    BY <1>f, <2>6 DEF Listed
  <2>8. QED
    BY <1>s, <2>1, <2>2, <2>3, <2>4, <2>5, <2>6, <2>7 DEF Placed
<1>7. Booked'
  <2>1. ASSUME NEW e \in Conns, NEW o \in pending'[e]
        PROVE  /\ op[o].kind \in Kinds /\ op[o].to = peer'[e]
               /\ o \in adrift' => sup = "exited"
               /\ \A g \in Conns : o \in pending'[g] => g = e
    <3>1. e # c /\ o \in pending[e] /\ peer'[e] = peer[e]
      BY <1>1, <2>1
    <3>2. o \notin Written(c)
      BY <1>w, <3>1 DEF Booked
    <3>3. QED
      BY <1>0, <1>1, <3>1, <3>2 DEF Booked
  <2>2. ASSUME NEW e \in Conns, holding[e] # 0
        PROVE  /\ op[holding[e]].kind \in Prepared /\ op[holding[e]].to = peer'[e]
               /\ ~Moves(holding[e])'
               /\ \A g \in Conns : /\ holding[e] \notin pending'[g]
                                   /\ holding[g] = holding[e] => g = e
    <3>1. PICK h : h = holding[e]
      OBVIOUS
    <3>2. /\ op[h].kind \in Prepared /\ op[h].to = peer[e] /\ ~Moves(h)
          /\ \A g \in Conns : h \notin pending[g] /\ (holding[g] = h => g = e)
      BY <2>2, <3>1 DEF Booked
    <3>3. ~Moves(holding[e])'
      BY <1>0, <1>3, <3>1, <3>2 DEF Moves
    <3>4. peer'[e] = peer[e] /\ \A g \in Conns : h \notin pending'[g]
      BY <1>1, <2>2, <3>2
    <3>5. QED
      BY <3>1, <3>2, <3>3, <3>4
  <2>3. ASSUME NEW e \in Conns, NEW u \in uncertain'[e]
        PROVE  /\ op[u.o].kind \in Kinds
               /\ \A g \in Conns : /\ u.o \notin pending'[g] /\ holding[g] # u.o
                                   /\ \A v \in uncertain'[g] : v.o = u.o => g = e /\ v = u
               /\ u.received => u.o \notin adrift'
    <3> DEFINE old(g, v) == v \in uncertain[g]
               new(g, v) == g = c /\ v \in lost
    <3>1. \A g \in Conns : \A v \in uncertain'[g] : old(g, v) \/ new(g, v)
      BY <1>1
    <3>2. \A g \in Conns : \A o \in pending'[g] : g # c /\ o \in pending[g]
      BY <1>1
    <3>3. ASSUME old(e, u)
          PROVE  /\ op[u.o].kind \in Kinds
                 /\ \A g \in Conns : /\ u.o \notin pending'[g] /\ holding[g] # u.o
                                     /\ \A v \in uncertain'[g] : v.o = u.o => g = e /\ v = u
                 /\ u.received => u.o \notin adrift'
      <4>1. /\ op[u.o].kind \in Kinds
            /\ \A g \in Conns : /\ u.o \notin pending[g] /\ holding[g] # u.o
                                /\ \A v \in uncertain[g] : v.o = u.o => g = e /\ v = u
            /\ u.received => u.o \notin adrift
        BY <3>3 DEF Booked
      <4>2. u.o \notin Written(c) /\ \A v \in lost : v.o # u.o
        BY <1>w, <1>l, <4>1
      <4>3. QED
        BY <1>0, <3>1, <3>2, <4>1, <4>2
    <3>4. ASSUME new(e, u)
          PROVE  /\ op[u.o].kind \in Kinds
                 /\ \A g \in Conns : /\ u.o \notin pending'[g] /\ holding[g] # u.o
                                     /\ \A v \in uncertain'[g] : v.o = u.o => g = e /\ v = u
                 /\ u.received => u.o \notin adrift'
      <4>1. u.o \in pending[c] /\ u.received = received /\ u.o # 0
        BY <1>l, <3>4, Places
      <4>2. /\ op[u.o].kind \in Kinds /\ u.o \notin adrift
            /\ \A g \in Conns : u.o \in pending[g] => g = c
        BY <4>1 DEF Booked
      <4>3. \A g \in Conns : holding[g] # u.o /\ \A v \in uncertain[g] : v.o # u.o
        BY <4>1 DEF Booked
      <4>4. received => u.o \notin adrift'
        BY <1>0, <4>2
      <4>5. \A g \in Conns : u.o \notin pending'[g]
        BY <3>2, <4>2
      <4>6. \A g \in Conns : \A v \in uncertain'[g] : v.o = u.o => g = e /\ v = u
        BY <1>l, <3>1, <3>4, <4>3
      <4>7. QED
        BY <4>1, <4>2, <4>3, <4>4, <4>5, <4>6
    <3>5. QED
      BY <2>3, <3>1, <3>3, <3>4
  <2>4. ASSUME NEW o \in Ops, answer'[o] # "none" PROVE \E e \in Conns : o \in pending'[e]
    <3>1. answer[o] # "none" /\ o \notin pending[c]
      BY <1>4, <2>4
    <3>2. PICK e \in Conns : o \in pending[e]
      BY <3>1 DEF Booked
    <3>3. QED
      BY <1>1, <3>1, <3>2
  <2>5. \A o \in core : op[o].kind = "compact"
    BY DEF Booked
  <2>6. QED
    BY <1>f, <1>s, <2>1, <2>2, <2>3, <2>4, <2>5 DEF Booked
<1>8. InOrder'
  <2> SUFFICES ASSUME NEW e \in Conns, NEW u \in uncertain'[e], NEW o \in Ops,
                      o \in pending'[e] \/ o = holding[e],
                      u.received, op[u.o].to = peer'[e], op[u.o].thread = op[o].thread,
                      u.o \in Listed(peer[e])'
               PROVE  answer'[o] = "none" /\ Ahead(line[peer'[e]], u.o, o)
    BY <1>f, <1>s DEF InOrder, Listed
  <2>1. e # c
    BY <1>1
  <2>2. peer'[e] = peer[e] /\ u \in uncertain[e] /\ (o \in pending[e] \/ o = holding[e])
    BY <1>1, <2>1
  <2>3. u.o \in Listed(peer[e])
    BY <1>f, <2>2 DEF Listed
  <2>4. answer[o] = "none" /\ Ahead(line[peer[e]], u.o, o)
    BY <2>2, <2>3 DEF InOrder
  <2>5. QED
    BY <1>4, <2>2, <2>4
<1>9. QED
  BY <1>5, <1>6, <1>7, <1>8 DEF Kept1

LEMMA TakeIsNew ==
    ASSUME CodexTypeOK, Placed, Booked, NEW o \in Ops, op[o].kind = "unsent"
    PROVE  Nowhere(o) /\ o \notin core
<1> USE Numbers
<1>0. "unsent" \notin Kinds
  BY DEF Kinds, Lifecycle, Creates, Known
<1>p. "unsent" \notin Prepared
  BY DEF Prepared
<1>1. ~Moves(o)
  BY <1>0 DEF Placed
<1>2. \A c \in Conns : o \notin pending[c]
  BY <1>0 DEF Booked
<1>3. \A c \in Conns : holding[c] # o
  BY <1>p DEF Booked
<1>4. \A c \in Conns : \A u \in uncertain[c] : u.o # o
  BY <1>0 DEF Booked
<1>5. answer[o] = "none"
  BY <1>2 DEF Booked
<1>6. o \notin core
  BY DEF Booked
<1>7. QED
  BY <1>1, <1>2, <1>3, <1>4, <1>5, <1>6 DEF Nowhere

\* What is held is nowhere else.
LEMMA HeldIsNowhere ==
    ASSUME CodexTypeOK, Booked, NEW c \in Conns, holding[c] # 0
    PROVE  /\ holding[c] \in Ops /\ ~Moves(holding[c]) /\ answer[holding[c]] = "none"
           /\ op[holding[c]].kind \in Prepared /\ op[holding[c]].to = peer[c]
           /\ \A e \in Conns : /\ holding[c] \notin pending[e]
                               /\ \A u \in uncertain[e] : u.o # holding[c]
                               /\ e # c => holding[e] # holding[c]
<1>1. holding[c] \in Ops
  BY Places
<1>2. \A e \in Conns : \A u \in uncertain[e] : u.o # holding[c]
  BY DEF Booked
<1>3. answer[holding[c]] = "none"
  BY <1>1 DEF Booked
<1>4. QED
  BY <1>1, <1>2, <1>3 DEF Booked

LEMMA RelayKeeps ==
    ASSUME CodexTypeOK, Alive, Gated, Placed, Booked, InOrder, RelayStep
    PROVE  Kept1
<1> USE Numbers
<1>t. RelayTypes
  BY TypeParts
<1>f. RelayFrame
  BY Frames
<1>g. Phased /\ \A c \in Conns : GatedAt(c)
  BY DEF Gated
<1>1. ASSUME Accept PROVE Kept1
  <2>1. /\ UNCHANGED <<op, peer, open, socket, holding, pending, uncertain, adrift, answer>>
        /\ stat' = [stat EXCEPT ![Main] = "dial"]
    BY <1>1 DEF Accept, workVars, gateVars
  <2>2. \A c \in Conns : stat'[c] \in {"up", "end"} => stat[c] \in {"up", "end"}
    BY <1>t, <2>1 DEF RelayTypes
  <2>3. QED
    BY <1>f, <2>1, <2>2, RelayWaits
<1>2. ASSUME NEW c \in Extras, AcceptExtra(c) PROVE Kept1
  <2>1. /\ UNCHANGED <<op, peer, open, socket, holding, pending, uncertain, adrift, answer>>
        /\ stat' = [stat EXCEPT ![c] = "dial"]
    BY <1>2 DEF AcceptExtra, workVars
  <2>2. \A e \in Conns : stat'[e] \in {"up", "end"} => stat[e] \in {"up", "end"}
    BY <1>t, <2>1 DEF RelayTypes
  <2>3. QED
    BY <1>f, <2>1, <2>2, RelayWaits
<1>3. ASSUME NEW c \in Conns, Acknowledge(c) PROVE Kept1
  <2>1. UNCHANGED <<op, stat, peer, open, socket, holding, pending, uncertain, adrift, answer>>
    BY <1>3 DEF Acknowledge, workVars, linkVars
  <2>2. QED
    BY <1>f, <2>1, RelayWaits
<1>4. ASSUME NEW c \in Conns, Dialled(c) PROVE Kept1
  BY <1>f, <1>4, RelayDials
<1>5. ASSUME NEW c \in Conns, DialFails(c) PROVE Kept1
  <2>1. /\ UNCHANGED <<op, peer, open, socket, holding, pending, uncertain, adrift, answer>>
        /\ stat' = [stat EXCEPT ![c] = Over(c)]
    BY <1>5 DEF DialFails, workVars
  <2>2. \A e \in Conns : stat'[e] \in {"up", "end"} => stat[e] \in {"up", "end"}
    BY <1>t, <2>1 DEF RelayTypes, Over
  <2>3. QED
    BY <1>f, <2>1, <2>2, RelayWaits
<1>6. ASSUME NEW c \in Conns, Take(c) PROVE Kept1
  <2>1. PICK o \in Ops, kind \in Kinds, t \in Threads :
           /\ op[o].kind = "unsent"
           /\ op' = [op EXCEPT ![o] = Request(kind, t, peer[c])]
           /\ IF kind \in Prepared
              THEN /\ holding' = [holding EXCEPT ![c] = o]
                   /\ UNCHANGED <<relayAlone, workVars, stat, peer, open, socket, gateVars,
                                  pauseVars>>
              ELSE Write(c, o) /\ UNCHANGED holding
    BY <1>6 DEF Take
  <2>2. stat[c] = "up" /\ holding[c] = 0
    BY <1>6 DEF Take
  <2>3. Nowhere(o)
    BY <2>1, TakeIsNew
  <2>4. CASE kind \in Prepared
    <3>1. /\ UNCHANGED <<stat, peer, open, socket, adrift, answer, pending, uncertain>>
          /\ holding' = [holding EXCEPT ![c] = o]
      BY <2>1, <2>4 DEF workVars, gateVars
    <3>2. QED
      BY <1>f, <2>1, <2>2, <2>3, <2>4, <3>1, RelayHolds
  <2>5. CASE kind \notin Prepared
    <3>1. Write(c, o) /\ UNCHANGED holding
      BY <2>1, <2>5
    <3>2. /\ \A p \in Ops \ {o} : op'[p] = op[p]
          /\ op'[o].kind \in Kinds /\ op'[o].to = peer[c]
      BY <1>t, <2>1 DEF RelayTypes, Request
    <3>3. /\ ~Moves(o) /\ answer[o] = "none"
          /\ \A e \in Conns : /\ o \notin pending[e] /\ \A u \in uncertain[e] : u.o # o
                              /\ holding'[e] # o /\ holding'[e] \in {0, holding[e]}
      BY <2>3, <3>1 DEF Nowhere
    <3>4. QED
      BY <1>f, <2>1, <2>2, <3>1, <3>2, <3>3, RelayWrites
  <2>6. QED
    BY <2>4, <2>5
<1>7. ASSUME NEW c \in Conns, Refuse(c) PROVE Kept1
  <2>1. PICK S \in SUBSET Ops : op' = Done(S) /\ \A o \in S : Retired(o)
    BY <1>7, RefusedRetires
  <2>2. /\ UNCHANGED <<stat, peer, open, socket, adrift, answer, pending, uncertain>>
        /\ holding' = [holding EXCEPT ![c] = 0]
    BY <1>7 DEF Refuse, workVars
  <2>3. \A e \in Conns : holding'[e] \in {0, holding[e]}
    BY <1>t, <2>2 DEF RelayTypes
  <2>4. \A o \in Ops : answer[o] # "none" => \E e \in Conns : o \in pending[e]
    BY DEF Booked
  <2>5. QED
    BY <1>f, <2>1, <2>2, <2>3, <2>4, RelayRetires
<1>8. ASSUME NEW c \in Conns, Forward(c) PROVE Kept1
  <2>1. /\ Write(c, holding[c]) /\ UNCHANGED op /\ holding[c] # 0
        /\ holding' = [holding EXCEPT ![c] = 0]
    BY <1>8 DEF Forward
  <2> PICK h : h = holding[c]
    OBVIOUS
  <2>2. /\ h \in Ops /\ ~Moves(h) /\ answer[h] = "none" /\ op[h].kind \in Prepared
        /\ op[h].to = peer[c] /\ stat[c] = "up"
        /\ \A e \in Conns : /\ h \notin pending[e] /\ \A u \in uncertain[e] : u.o # h
                            /\ e # c => holding[e] # h
    <3>1. stat[c] = "up"
      BY <1>g, <2>1 DEF GatedAt
    <3>2. QED
      BY <2>1, <3>1, HeldIsNowhere
  <2>3. \A e \in Conns : holding'[e] # h /\ holding'[e] \in {0, holding[e]}
    BY <1>t, <2>1, <2>2 DEF RelayTypes
  <2>4. op[h].kind \in Kinds
    BY <2>2 DEF Prepared, Kinds, Lifecycle, Creates
  <2>5. QED
    BY <1>f, <2>1, <2>2, <2>3, <2>4, RelayWrites
<1>9. ASSUME NEW c \in Conns, Break(c) \/ Receipt(c) \/ NoReceipt(c) PROVE Kept1
  <2>0. holding[c] = 0 /\ sup # "exited"
    BY <1>9, <1>g, Endings
  <2>1. ASSUME NEW received \in BOOLEAN, Finish(c, received), received => Written(c) = {} PROVE Kept1
    BY <1>f, <2>0, <2>1, RelayEnds
  <2>2. ~open[c] \/ pending[c] = {} \/ socket[c] = <<>> => Written(c) = {}
    BY DEF Placed, Written, ToSet
  <2>3. CASE Break(c)
    <3>1. CASE (~open[c] \/ pending[c] = {}) /\ Finish(c, TRUE)
      BY <2>1, <2>2, <3>1
    <3>2. CASE stat' = [stat EXCEPT ![c] = "end"]
               /\ UNCHANGED <<relayAlone, workVars, op, peer, open, socket, holding, gateVars,
                              pauseVars>>
      <4>1. UNCHANGED <<op, peer, open, socket, holding, pending, uncertain, adrift, answer>>
            /\ stat[c] = "up"
        BY <2>3, <3>2 DEF Break, workVars, gateVars
      <4>2. \A e \in Conns : stat'[e] \in {"up", "end"} => stat[e] \in {"up", "end"}
        BY <1>t, <3>2, <4>1 DEF RelayTypes
      <4>3. QED
        BY <1>f, <4>1, <4>2, RelayWaits
    <3>3. QED
      BY <2>3, <3>1, <3>2 DEF Break
  <2>4. CASE Receipt(c)
    BY <2>1, <2>2, <2>4 DEF Receipt
  <2>5. CASE NoReceipt(c)
    BY <2>1, <2>5 DEF NoReceipt
  <2>6. QED
    BY <1>9, <2>3, <2>4, <2>5
<1>10. ASSUME NEW c \in Conns, NEW o \in Ops, Replied(c, o) PROVE Kept1
  <2>1. PICK S \in SUBSET Ops : op' = Done(S) /\ \A p \in S : Retired(p)
    BY <1>10, RepliedRetires
  <2>2. /\ UNCHANGED <<stat, peer, open, socket, adrift, holding>>
        /\ pending' = [pending EXCEPT ![c] = @ \ {o}] /\ answer' = [answer EXCEPT ![o] = "none"]
        /\ o \in pending[c] /\ answer[o] # "none"
    BY <1>10 DEF Replied, linkVars
  <2>3. \A e \in Conns : uncertain'[e] \subseteq uncertain[e]
    BY <1>10, <1>t DEF Replied, RelayTypes
  <2>4. ~Moves(o)
    BY <2>2 DEF Placed
  <2>5. \A e \in Conns : /\ pending'[e] \subseteq pending[e]
                         /\ \A p \in pending[e] : Moves(p) => p \in pending'[e]
    BY <1>t, <2>2, <2>4 DEF RelayTypes
  <2>6. \A p \in Ops : /\ answer'[p] \in {"none", answer[p]}
                       /\ answer'[p] # "none" => \E e \in Conns : p \in pending'[e]
    <3>1. answer \in [Ops -> {"none", "ok", "err"}]
      BY TypeParts DEF DaemonTypes
    <3>2. \A p \in Ops : answer'[p] = IF p = o THEN "none" ELSE answer[p]
      BY <2>2, <3>1
    <3>3. \A p \in Ops \ {o} : answer[p] # "none" => \E e \in Conns : p \in pending'[e]
      BY <1>t, <2>2 DEF Booked, RelayTypes
    <3>4. QED
      BY <3>2, <3>3
  <2>7. ASSUME NEW e \in Conns, NEW u \in uncertain[e], Moves(u.o) PROVE u \in uncertain'[e]
    <3>1. SUFFICES ASSUME u \notin uncertain'[e] PROVE FALSE
      OBVIOUS
    <3>2. /\ e = c /\ u \in uncertain[c] \ uncertain'[c] /\ op[u.o].kind \in Known
          /\ op' = Done({p \in {o} \cup {v.o : v \in uncertain[c] \ uncertain'[c]} :
                            op[p].kind # "compact"})
      BY <1>10, <1>t, <3>1 DEF Replied, RelayTypes
    <3>3. u.o \in Ops /\ op'[u.o].kind = "over"
      BY <3>2, Places DEF Done, Request, Known
    <3>4. op[u.o].kind # "over"
      BY <3>2 DEF Known
    <3>5. u.o \in S
      BY <2>1, <3>3, <3>4 DEF Done
    <3>6. QED
      BY <2>1, <2>7, <3>5 DEF Retired
  <2>8. QED
    BY <1>f, <2>1, <2>2, <2>3, <2>5, <2>6, <2>7, RelayRetires
<1>11. QED
  BY <1>1, <1>2, <1>3, <1>4, <1>5, <1>6, <1>7, <1>8, <1>9, <1>10 DEF RelayStep

LEMMA MarkedRelay ==
    ASSUME Marked, RelayStep
    PROVE  Marked'
BY Frames DEF RelayFrame, Marked

LEMMA BooksKept ==
    ASSUME CodexTypeOK, Alive, Gated, Placed, Booked, InOrder, Marked,
           DaemonStep \/ RelayStep \/ LaunchStep
    PROVE  Kept1 /\ Marked'
<1>g. Phased
  BY DEF Gated
<1>1. CASE DaemonStep
  <2>1. Moved /\ Untouched
    BY <1>1, DaemonsMove, DaemonsTouch
  <2>2. Alive' /\ Placed' /\ Booked' /\ InOrder'
    BY <1>1, <2>1, AliveMoves, PlacedMoves, BookedMoves, InOrderMoves
  <2>3. QED
    BY <1>1, <1>g, <2>2, MarkedMoves DEF Kept1
<1>2. CASE RelayStep
  BY <1>2, RelayKeeps, MarkedRelay
<1>3. CASE LaunchStep
  <2>0. Marked'
    BY <1>3, <1>g, MarkedMoves
  <2>1. CASE Exits
    BY <2>0, <2>1, ExitsKeep DEF Kept1
  <2>2. CASE ~Exits
    <3>1. Moved /\ UNCHANGED answer /\ Untouched
      BY <1>3, <1>g, <2>2, LauncherMoves, LauncherTouches
    <3>2. Alive' /\ Placed' /\ Booked' /\ InOrder'
      BY <1>3, <2>2, <3>1, AliveMoves, PlacedMoves, BookedMoves, InOrderMoves
    <3>3. QED
      BY <2>0, <3>2 DEF Kept1
  <2>3. QED
    BY <2>1, <2>2
<1>4. QED
  BY <1>1, <1>2, <1>3

-----------------------------------------------------------------------------
(* The threads of creations underway *)

OnWay(o) == Moves(o) \/ \E c \in Conns : holding[c] = o

LEMMA OnWayKept ==
    ASSUME CodexTypeOK, Alive, Placed, Booked, Marked, Phased, DaemonStep \/ LaunchStep,
           NEW o \in Ops, OnWay(o)'
    PROVE  OnWay(o)
<1> USE Numbers
<1>1. CASE Exits
  <2>1. \A c \in Conns : holding'[c] = 0 /\ socket'[c] = <<>>
    BY <1>1 DEF Exits
  <2>2. \A c \in Conns : Written(c)' = {}
    BY <2>1, SocketEmptied
  <2>3. \A d \in Daemons : Distinct(line[d]) /\ line'[d] = Unmarked(line[d])
    BY <1>1 DEF Exits, Placed
  <2>4. \A d \in Daemons : (line[d] # <<>> => d \in up') /\ Listed(d)' = Listed(d)
    <3>1. \A d \in Daemons : line[d] # <<>> => d \in up'
      BY <1>1 DEF Exits, LaunchFrame, Alive
    <3>2. QED
      BY <2>3, <3>1, LineUnmarked
  <2>5. adrift' = adrift \cup UNION {Written(c) : c \in Conns}
    BY <1>1 DEF Exits
  <2>6. QED
    BY <2>1, <2>2, <2>4, <2>5 DEF OnWay, Moves
<1>2. CASE ~Exits
  <2>1. Moved /\ Untouched
    BY <1>2, DaemonsMove, DaemonsTouch, LauncherMoves, LauncherTouches
  <2>2. Moves(o)' => Moves(o)
    BY <2>1, MovesBefore DEF Moved
  <2>3. QED
    BY <2>1, <2>2 DEF OnWay, Untouched
<1>3. QED
  BY <1>1, <1>2

LEMMA WriteOnWay ==
    ASSUME CodexTypeOK, NEW c \in Conns, NEW x \in Ops, Write(c, x),
           \A e \in Conns : holding'[e] \in {0, holding[e]}, NEW o \in Ops, OnWay(o)'
    PROVE  OnWay(o) \/ o = x
<1> USE Numbers
<1>t. RelayTypes
  BY TypeParts
<1>1. /\ UNCHANGED <<line, adrift>>
      /\ UNCHANGED socket \/ socket' = [socket EXCEPT ![c] = Append(@, x)]
  BY DEF Write, workVars
<1>2. \A e \in Conns : Written(e)' \subseteq Written(e) \cup {x}
  <2>1. CASE UNCHANGED socket
    BY <2>1 DEF Written
  <2>2. CASE socket' = [socket EXCEPT ![c] = Append(@, x)]
    <3>1. socket[c] \in Seq(Ops)
      BY <1>t DEF RelayTypes
    <3>2. ToSet(Append(socket[c], x)) = ToSet(socket[c]) \cup {x}
      BY <3>1, AppendFacts
    <3>3. socket'[c] = Append(socket[c], x) /\ \A e \in Conns \ {c} : socket'[e] = socket[e]
      BY <1>t, <2>2 DEF RelayTypes
    <3>4. QED
      BY <3>2, <3>3 DEF Written
  <2>3. QED
    BY <1>1, <2>1, <2>2
<1>3. Moves(o)' => Moves(o) \/ o = x
  BY <1>1, <1>2 DEF Moves, Listed
<1>4. QED
  BY <1>3 DEF OnWay

\* What the relay's steps do to what is on its way, but for what they take or retire.
LEMMA RelayOnWay ==
    ASSUME CodexTypeOK, Alive, Gated, Placed, Booked, RelayStep, NEW o \in Ops, OnWay(o)'
    PROVE  OnWay(o) \/ op[o].kind = "unsent"
<1> USE Numbers
<1>t. RelayTypes
  BY TypeParts
<1>g. Phased /\ \A c \in Conns : GatedAt(c)
  BY DEF Gated
<1> DEFINE Goal == OnWay(o) \/ op[o].kind = "unsent"
<1>s. ASSUME UNCHANGED <<line, adrift, socket>>, \A e \in Conns : holding'[e] \in {0, holding[e]}
      PROVE  Goal
  BY <1>s DEF OnWay, Moves, Written, Listed
<1>1. ASSUME NEW c, Accept \/ AcceptExtra(c) \/ Dialled(c) \/ DialFails(c) PROVE Goal
  BY <1>1, <1>s DEF Accept, AcceptExtra, Dialled, DialFails, workVars
<1>2. ASSUME NEW c, Acknowledge(c) PROVE Goal
  BY <1>2, <1>s DEF Acknowledge, workVars, linkVars
<1>3. ASSUME NEW c \in Conns, Take(c) PROVE Goal
  <2>1. PICK x \in Ops : /\ op[x].kind = "unsent"
                         /\ \/ /\ holding' = [holding EXCEPT ![c] = x]
                               /\ UNCHANGED <<workVars, socket>>
                            \/ Write(c, x) /\ UNCHANGED holding
    BY <1>3 DEF Take
  <2>2. CASE Write(c, x) /\ UNCHANGED holding
    BY <2>1, <2>2, WriteOnWay
  <2>3. CASE holding' = [holding EXCEPT ![c] = x] /\ UNCHANGED <<workVars, socket>>
    <3>1. UNCHANGED <<line, adrift, socket>>
      BY <2>3 DEF workVars
    <3>2. \A e \in Conns : holding'[e] = x \/ holding'[e] = holding[e]
      BY <1>t, <2>3 DEF RelayTypes
    <3>3. QED
      BY <2>1, <3>1, <3>2 DEF OnWay, Moves, Written, Listed
  <2>4. QED
    BY <2>1, <2>2, <2>3
<1>4. ASSUME NEW c \in Conns, Refuse(c) PROVE Goal
  <2>1. UNCHANGED <<line, adrift, socket>> /\ holding' = [holding EXCEPT ![c] = 0]
    BY <1>4 DEF Refuse, workVars
  <2>2. \A e \in Conns : holding'[e] \in {0, holding[e]}
    BY <1>t, <2>1 DEF RelayTypes
  <2>3. QED
    BY <1>s, <2>1, <2>2
<1>5. ASSUME NEW c \in Conns, Forward(c) PROVE Goal
  <2>1. /\ Write(c, holding[c]) /\ holding[c] # 0 /\ holding' = [holding EXCEPT ![c] = 0]
    BY <1>5 DEF Forward
  <2>2. \A e \in Conns : holding'[e] \in {0, holding[e]}
    BY <1>t, <2>1 DEF RelayTypes
  <2> PICK h : h = holding[c]
    OBVIOUS
  <2>3. h \in Ops
    BY <2>1, Places
  <2>4. OnWay(o) \/ o = h
    BY <2>1, <2>2, <2>3, WriteOnWay
  <2>5. QED
    BY <2>4 DEF OnWay
<1>6. ASSUME NEW c \in Conns, Break(c) \/ Receipt(c) \/ NoReceipt(c) PROVE Goal
  <2>1. CASE Ends(c)
    <3>1. /\ UNCHANGED <<line, holding>> /\ socket' = [socket EXCEPT ![c] = <<>>]
          /\ adrift' = adrift \cup Written(c)
      BY <2>1 DEF Ends, Finish, Written
    <3>2. socket'[c] = <<>> /\ \A e \in Conns \ {c} : socket'[e] = socket[e]
      BY <1>t, <3>1 DEF RelayTypes
    <3>3. \A e \in Conns : Written(e)' \subseteq Written(e)
      BY <3>2, SocketEmptied DEF Written
    <3>4. QED
      BY <3>1, <3>3 DEF OnWay, Moves, Listed
  <2>2. CASE UNCHANGED <<workVars, socket, holding>>
    BY <1>s, <2>2 DEF workVars
  <2>3. QED
    BY <1>6, <1>g, <2>1, <2>2, Endings
<1>7. ASSUME NEW c \in Conns, NEW p \in Ops, Replied(c, p) PROVE Goal
  BY <1>7, <1>s DEF Replied, linkVars
<1> HIDE DEF Goal
<1>8. Goal
  BY <1>1, <1>2, <1>3, <1>4, <1>5, <1>6, <1>7 DEF RelayStep
<1>9. QED
  BY <1>8 DEF Goal

\* What becomes of the requests: one is new, or some are over.
LEMMA RelayOps ==
    ASSUME CodexTypeOK, Placed, Booked, InOrder, RelayStep
    PROVE  \/ UNCHANGED <<op, shown>>
           \/ /\ UNCHANGED shown
              /\ \E c \in Conns, o \in Ops, kind \in Kinds, t \in Threads :
                    /\ op[o].kind = "unsent" /\ op' = [op EXCEPT ![o] = Request(kind, t, peer[c])]
                    /\ kind \in Creates => Unheard(t)
                    /\ kind \in {"turn", "compact"} => t = shown
                    /\ kind = "resume" => t \notin Unborn
           \/ /\ \E S \in SUBSET Ops : op' = Done(S)
              /\ \/ UNCHANGED shown
                 \/ \E x \in Ops : ~OnWay(x) /\ shown' = op[x].thread
<1> USE Numbers
<1> DEFINE Same == UNCHANGED <<op, shown>>
           New == /\ UNCHANGED shown
                  /\ \E c \in Conns, o \in Ops, kind \in Kinds, t \in Threads :
                        /\ op[o].kind = "unsent"
                        /\ op' = [op EXCEPT ![o] = Request(kind, t, peer[c])]
                        /\ kind \in Creates => Unheard(t)
                        /\ kind \in {"turn", "compact"} => t = shown
                        /\ kind = "resume" => t \notin Unborn
           Fewer == /\ \E S \in SUBSET Ops : op' = Done(S)
                    /\ \/ UNCHANGED shown
                       \/ \E x \in Ops : ~OnWay(x) /\ shown' = op[x].thread
<1> USE DEF relayAlone, rowVars
<1>1. ASSUME NEW c, Accept \/ AcceptExtra(c) \/ Dialled(c) \/ DialFails(c) PROVE Same
  BY <1>1 DEF Accept, AcceptExtra, Dialled, DialFails
<1>2. ASSUME NEW c, Acknowledge(c) \/ Forward(c) PROVE Same
  BY <1>2 DEF Acknowledge, Forward, Write
<1>3. ASSUME NEW c \in Conns, Take(c) PROVE New
  <2>1. UNCHANGED shown
    BY <1>3 DEF Take, Write
  <2>2. QED
    BY <1>3, <2>1 DEF Take
<1>4. ASSUME NEW c \in Conns, Refuse(c) PROVE Fewer
  <2>1. \E S \in SUBSET Ops : op' = Done(S)
    BY <1>4, RefusedRetires
  <2>2. QED
    BY <1>4, <2>1 DEF Refuse
<1>5. ASSUME NEW c, Break(c) \/ Receipt(c) \/ NoReceipt(c) PROVE Same
  BY <1>5 DEF Break, Receipt, NoReceipt, Finish
<1>6. ASSUME NEW c \in Conns, NEW x \in Ops, Replied(c, x) PROVE Fewer
  <2>1. \E S \in SUBSET Ops : op' = Done(S)
    BY <1>6, RepliedRetires
  <2>2. x \in pending[c] /\ answer[x] # "none" /\ (UNCHANGED shown \/ shown' = op[x].thread)
    BY <1>6 DEF Replied
  <2>3. ~OnWay(x)
    <3>1. ~Moves(x)
      BY <2>2 DEF Placed
    <3>2. \A e \in Conns : holding[e] # x
      BY <2>2 DEF Booked
    <3>3. QED
      BY <3>1, <3>2 DEF OnWay
  <2>4. QED
    BY <2>1, <2>2, <2>3
<1> HIDE DEF Same, New, Fewer
<1>7. Same \/ New \/ Fewer
  BY <1>1, <1>2, <1>3, <1>4, <1>5, <1>6 DEF RelayStep
<1>8. QED
  BY <1>7 DEF Same, New, Fewer

LEMMA Underways ==
    ASSUME NEW o \in Ops, OnWay(o)
    PROVE  o \in Underway /\ (op[o].kind \in Creates => op[o].thread \in Unborn)
<1>1. o \in Underway
  <2>1. CASE o \in adrift
    BY <2>1 DEF Underway
  <2>2. CASE \E c \in Conns : o \in ToSet(socket[c]) \cup {holding[c]}
    BY <2>2 DEF Underway
  <2>3. CASE \E d \in Daemons : o \in ToSet(line[d])
    <3>1. o \in UNION {ToSet(line[d]) : d \in Daemons}
      BY <2>3, Zenon
    <3>2. QED
      BY <3>1 DEF Underway
  <2>4. QED
    BY <2>1, <2>2, <2>3 DEF OnWay, Moves, Written, Listed
<1>2. QED
  BY <1>1 DEF Unborn

LEMMA UnsharedKept ==
    ASSUME CodexTypeOK, Alive, Gated, Placed, Booked, InOrder, Marked, Unshared,
           DaemonStep \/ RelayStep \/ LaunchStep
    PROVE  Unshared'
<1> USE Numbers
<1>t. RelayTypes
  BY TypeParts
<1>u. \A o \in Ops : op[o].kind \in Creates /\ OnWay(o) =>
         op[o].thread # shown /\ \A p \in Ops \ {o} : op[p].thread # op[o].thread
  BY DEF Unshared, OnWay
<1>c. Creates \subseteq Kinds /\ "unsent" \notin Creates /\ "over" \notin Creates
      /\ Kinds = Creates \cup {"resume", "turn", "compact"}
  BY DEF Creates, Kinds, Lifecycle, Known
<1> SUFFICES ASSUME NEW o \in Ops, op'[o].kind \in Creates, OnWay(o)'
             PROVE  /\ op'[o].thread # shown'
                    /\ \A p \in Ops \ {o} : op'[p].thread # op'[o].thread
  BY DEF Unshared, OnWay
<1>1. CASE DaemonStep \/ LaunchStep
  <2>1. OnWay(o)
    BY <1>1, OnWayKept DEF Gated
  <2>2. UNCHANGED <<op, shown>>
    <3>1. DaemonStep => UNCHANGED <<op, shown>>
      BY Frames DEF DaemonFrame
    <3>2. LaunchStep => UNCHANGED <<op, shown>>
      BY DEF LaunchStep, Watches, Begins, Fences, GivesUp, Connects, Asks, Hears, Works, Frees,
             Exits, Idles, Cleaning, LaunchFrame
    <3>3. QED
      BY <1>1, <3>1, <3>2
  <2>3. QED
    BY <1>u, <2>1, <2>2
<1>2. CASE RelayStep
  <2>w. OnWay(o) \/ op[o].kind = "unsent"
    BY <1>2, RelayOnWay
  <2>1. CASE UNCHANGED <<op, shown>>
    BY <1>u, <1>c, <2>w, <2>1
  <2>2. ASSUME UNCHANGED shown,
               NEW c \in Conns, NEW x \in Ops, NEW kind \in Kinds, NEW t \in Threads,
               op[x].kind = "unsent", op' = [op EXCEPT ![x] = Request(kind, t, peer[c])],
               kind \in Creates => Unheard(t), kind \in {"turn", "compact"} => t = shown,
               kind = "resume" => t \notin Unborn
        PROVE  /\ op'[o].thread # shown'
               /\ \A p \in Ops \ {o} : op'[p].thread # op'[o].thread
    <3>1. /\ op'[x].kind = kind /\ op'[x].thread = t
          /\ \A p \in Ops \ {x} : op'[p] = op[p]
      BY <1>t, <2>2 DEF RelayTypes, Request
    <3>2. CASE o = x
      <4>1. Unheard(t)
        BY <2>2, <3>1, <3>2
      <4>2. t # shown /\ \A p \in Ops : op[p].thread # t
        BY <4>1 DEF Unheard
      <4>3. QED
        BY <2>2, <3>1, <3>2, <4>2
    <3>3. CASE o # x
      <4>1. op'[o] = op[o] /\ OnWay(o) /\ op[o].kind \in Creates
        BY <1>c, <2>w, <3>1, <3>3
      <4>2. op[o].thread # shown /\ \A p \in Ops \ {o} : op[p].thread # op[o].thread
        BY <1>u, <4>1
      <4>3. op[o].thread \in Unborn
        BY <4>1, Underways
      <4>4. t # op[o].thread
        BY <1>c, <2>2, <4>2, <4>3 DEF Unheard
      <4>5. QED
        BY <2>2, <3>1, <3>3, <4>1, <4>2, <4>4
    <3>4. QED
      BY <3>2, <3>3
  <2>3. ASSUME NEW S \in SUBSET Ops, op' = Done(S),
               UNCHANGED shown \/ \E x \in Ops : ~OnWay(x) /\ shown' = op[x].thread
        PROVE  /\ op'[o].thread # shown'
               /\ \A p \in Ops \ {o} : op'[p].thread # op'[o].thread
    <3>1. \A p \in Ops : op'[p] = op[p] \/ (op'[p].kind = "over" /\ op'[p].thread = None)
      BY <2>3 DEF Done, Request
    <3>2. op'[o] = op[o] /\ op[o].kind \in Creates
      BY <1>c, <3>1
    <3>3. OnWay(o) /\ op[o].thread \in Threads
      BY <1>c, <1>t, <2>w, <3>2, RequestTypes
    <3>4. op[o].thread # shown /\ \A p \in Ops \ {o} : op[p].thread # op[o].thread
      BY <1>u, <3>2, <3>3
    <3>5. op[o].thread # shown'
      BY <2>3, <3>3, <3>4
    <3>6. \A p \in Ops \ {o} : op'[p].thread # op[o].thread
      BY <3>1, <3>3, <3>4
    <3>7. QED
      BY <3>2, <3>5, <3>6
  <2>4. QED
    BY <1>2, <2>1, <2>2, <2>3, RelayOps
<1>3. QED
  BY <1>1, <1>2

-----------------------------------------------------------------------------
(* What the fence settles stays settled *)

\* What was lost stays lost, and does not join a line once it was received.
Fixed == /\ UNCHANGED <<op, uncertain>>
         /\ \A o \in Ops : op[o].to \notin up => op[o].to \notin up'
         /\ \A u \in Lost : u.received => \A d \in Daemons : u.o \in Listed(d)' => u.o \in Listed(d)

LEMMA LostJoinsNot ==
    ASSUME CodexTypeOK, Placed, Booked, Moved
    PROVE  \A u \in Lost : u.received => \A d \in Daemons : u.o \in Listed(d)' => u.o \in Listed(d)
<1> SUFFICES ASSUME NEW u \in Lost, u.received, NEW d \in Daemons, u.o \in Listed(d)'
             PROVE  u.o \in Listed(d)
  OBVIOUS
<1>1. PICK c \in Conns : u \in uncertain[c]
  BY DEF Lost
<1>2. u.o \notin adrift /\ \A e \in Conns : u.o \notin pending[e]
  BY <1>1 DEF Booked
<1>3. \A e \in Conns : u.o \notin Written(e)
  BY <1>2 DEF Placed
<1>4. QED
  BY <1>2, <1>3 DEF Moved, LineMoves

LEMMA DaemonsFix ==
    ASSUME CodexTypeOK, Alive, Placed, Booked, DaemonStep
    PROVE  Fixed
<1> USE Numbers
<1>t. DaemonTypes /\ RelayTypes
  BY TypeParts
<1>1. UNCHANGED <<op, uncertain>>
  BY Frames DEF DaemonFrame
<1>2. up' \subseteq up \cup {born + 1}
  <2>1. ASSUME NEW c, Admit(c) \/ Closes(c) PROVE up' = up
    BY <2>1 DEF Admit, Closes, daemonVars
  <2>2. ASSUME NEW o, AdmitAdrift(o) \/ CoreRuns(o) PROVE up' = up
    BY <2>2 DEF AdmitAdrift, CoreRuns, daemonVars
  <2>3. ASSUME NEW d, NEW i, NEW done \in BOOLEAN, Handle(d, i, done) PROVE up' = up
    BY <2>3 DEF Handle
  <2>4. ASSUME NEW d, Dies(d) PROVE up' \subseteq up
    BY <2>4 DEF Dies
  <2>5. ASSUME Starts PROVE up' = up \cup {born + 1}
    BY <2>5 DEF Starts
  <2>6. ASSUME NEW dt, ThreadMoves(dt) PROVE up' = up
    BY <2>6 DEF ThreadMoves
  <2>7. QED
    BY <2>1, <2>2, <2>3, <2>4, <2>5, <2>6 DEF DaemonStep
<1>3. ASSUME NEW o \in Ops, op[o].to \notin up PROVE op[o].to \notin up'
  <2>1. op[o].to \in Nat
    BY <1>t, RequestTypes
  <2>2. op[o].to <= born /\ born \in Nat
    BY <1>t DEF Alive, DaemonTypes
  <2>3. op[o].to # born + 1
    BY <2>1, <2>2
  <2>4. QED
    BY <1>2, <1>3, <2>3
<1>4. QED
  BY <1>1, <1>3, LostJoinsNot, DaemonsMove DEF Fixed

LEMMA LauncherFixes ==
    ASSUME CodexTypeOK, Alive, Placed, Booked, Marked, LaunchStep
    PROVE  Fixed /\ \A d \in Daemons : Listed(d)' = Listed(d)
<1>1. UNCHANGED <<op, uncertain, up>>
  BY DEF LaunchStep, Watches, Begins, Fences, GivesUp, Connects, Asks, Hears, Works, Frees, Exits,
         Idles, Cleaning, LaunchFrame
<1>2. \A d \in Daemons : Listed(d)' = Listed(d)
  <2>1. CASE Exits
    <3>1. \A d \in Daemons : /\ Distinct(line[d]) /\ (line[d] # <<>> => d \in up')
                             /\ line'[d] = Unmarked(line[d])
      BY <1>1, <2>1 DEF Exits, Placed, Alive
    <3>2. QED
      BY <3>1, LineUnmarked
  <2>2. CASE ~Exits
    BY <2>2, LauncherMoves
  <2>3. QED
    BY <2>1, <2>2
<1>3. QED
  BY <1>1, <1>2 DEF Fixed

\* Input is paused, and nothing is left to wait for.
LEMMA RelayFixes ==
    ASSUME CodexTypeOK, Gated, RelayStep, sup = "cleaning" \/ how = "clean"
    PROVE  UNCHANGED <<op, uncertain>> /\ Fixed /\ \A d \in Daemons : Listed(d)' = Listed(d)
<1> USE Numbers
<1>t. RelayTypes
  BY TypeParts
<1>g. Phased /\ \A c \in Conns : GatedAt(c)
  BY DEF Gated
<1>f. UNCHANGED <<up, line>>
  BY Frames DEF RelayFrame
<1>0. \A c \in Conns : pending[c] = {} /\ holding[c] = 0
  BY <1>g DEF Phased
<1>p. paused \/ sup = "exited"
  BY <1>g DEF Phased
<1> DEFINE Same == UNCHANGED <<op, uncertain>>
<1>1. ASSUME NEW c, Accept \/ AcceptExtra(c) \/ Dialled(c) \/ DialFails(c) \/ Acknowledge(c) PROVE Same
  BY <1>1 DEF Accept, AcceptExtra, Dialled, DialFails, Acknowledge, gateVars
<1>2. ASSUME NEW c \in Conns PROVE ~Take(c) /\ ~Refuse(c) /\ ~Forward(c)
  <2>1. sup = "exited" => stat[c] = "gone"
    BY <1>g DEF Phased
  <2>2. QED
    BY <1>0, <1>p, <2>1 DEF Take, Refuse, Forward
<1>3. ASSUME NEW c \in Conns, Break(c) \/ Receipt(c) \/ NoReceipt(c) PROVE Same
  <2>1. ASSUME NEW received \in BOOLEAN, Finish(c, received) PROVE Same
    <3>1. /\ op' = op
          /\ uncertain' = [uncertain EXCEPT ![c] =
                             @ \cup {[o |-> o, received |-> received] : o \in pending[c]}]
      BY <2>1 DEF Finish
    <3>2. {[o |-> o, received |-> received] : o \in pending[c]} = {}
      BY <1>0
    <3>3. uncertain' = [uncertain EXCEPT ![c] = @ \cup {}]
      BY <3>1, <3>2
    <3>4. uncertain' = uncertain
      BY <1>t, <3>3 DEF RelayTypes
    <3>5. QED
      BY <3>1, <3>4
  <2>2. CASE Ends(c)
    BY <2>1, <2>2 DEF Ends
  <2>3. CASE UNCHANGED <<op, gateVars>>
    BY <2>3 DEF gateVars
  <2>4. QED
    BY <1>3, <1>g, <2>2, <2>3, Endings
<1>4. ASSUME NEW c \in Conns, NEW o \in Ops PROVE ~Replied(c, o)
  BY <1>0 DEF Replied
<1>5. Same
  BY <1>1, <1>2, <1>3, <1>4 DEF RelayStep
<1>6. \A d \in Daemons : Listed(d)' = Listed(d)
  BY <1>f DEF Listed
<1>7. QED
  BY <1>f, <1>5, <1>6 DEF Fixed

LEMMA SettledStays ==
    ASSUME CodexTypeOK, Booked, Fixed, NEW u \in Lost
    PROVE  /\ Settled(u) => Settled(u)'
           /\ Fencing(u) /\ cpeer' = cpeer /\ unread' = unread => Fencing(u)'
<1>t. RelayTypes
  BY TypeParts
<1>1. UNCHANGED op
  BY DEF Fixed
<1>2. u.o \in Ops /\ op[u.o].kind \in Kinds
  <2>1. PICK c \in Conns : u \in uncertain[c]
    BY DEF Lost
  <2>2. QED
    BY <2>1, Places DEF Booked
<1>3. op[u.o].to \in Daemons
  BY <1>t, <1>2, RequestTypes
<1> PICK d \in Daemons : d = op[u.o].to
  BY <1>3
<1>4. d \notin up => d \notin up'
  BY <1>2 DEF Fixed
<1>5. u.received /\ u.o \notin Listed(d) => u.o \notin Listed(d)'
  BY DEF Fixed
<1>6. Settled(u) => Settled(u)'
  BY <1>1, <1>4, <1>5 DEF Settled, Listed
<1>7. ASSUME Fencing(u), cpeer' = cpeer, unread' = unread PROVE Fencing(u)'
  <2>1. CASE d \notin up
    BY <1>1, <1>4, <2>1 DEF Fencing
  <2>2. CASE d \in up
    <3>1. /\ op[u.o].kind \in Known /\ u.received /\ d = cpeer
          /\ op[u.o].thread \in unread \/ u.o \notin Listed(d)
      BY <1>7, <2>2 DEF Fencing
    <3>2. op[u.o].thread \in unread \/ u.o \notin Listed(d)'
      BY <1>5, <3>1
    <3>3. QED
      BY <1>1, <1>7, <3>1, <3>2 DEF Fencing, Listed
  <2>3. QED
    BY <2>1, <2>2
<1>8. QED
  BY <1>6, <1>7

LEMMA AfterIs == /\ {"fence", "fencing", "connect", "none"} \cap After = {}
                 /\ {"internal"} \cap After = {} /\ Either \cap After = {}
BY DEF After, Either

\* Steps that leave the cleanup where it is.
LEMMA ClearedStays ==
    ASSUME CodexTypeOK, Booked, Placed, Cleared, Fixed, Alive', Placed',
           UNCHANGED <<sup, how, fence, client, step, cpeer, unread, asks>>,
           \A d \in Daemons : \A x \in Listed(d) :
              Ahead(line[d], x, Mark) => Ahead(line'[d], x, Mark)
    PROVE  Cleared'
<1> USE Numbers
<1>t. RelayTypes
  BY TypeParts
<1>1. UNCHANGED <<op, uncertain>>
  BY DEF Fixed
<1>2. Lost' = Lost /\ Excused' = Excused
  BY <1>1 DEF Lost, Excused, Explicit, OnlyInternal
<1>3. \A u \in Lost : /\ Settled(u) => Settled(u)'
                      /\ Fencing(u) => Fencing(u)'
  BY SettledStays
<1>4. ASSUME sup = "cleaning", step = "fencing", NEW u \in Lost, op[u.o].thread = asks
      PROVE  Ahead(line'[cpeer], u.o, Mark)
  <2>1. cpeer \in Daemons /\ Fencing(u) /\ Ahead(line[cpeer], u.o, Mark)
    BY <1>4 DEF Cleared
  <2> PICK d \in Daemons : d = cpeer
    BY <2>1
  <2>2. CASE u.o \in Listed(d)
    BY <2>1, <2>2
  <2>3. CASE u.o \notin Listed(d)
    <3>1. u.o \notin Listed(d)'
      <4>1. CASE u.received
        BY <2>3, <4>1 DEF Fixed
      <4>2. CASE ~u.received
        <5>1. u.o \in Ops /\ op[u.o].to \notin up
          BY <2>1, <4>2, Places DEF Fencing
        <5>2. op'[u.o].to \notin up'
          BY <1>1, <5>1 DEF Fixed
        <5>3. u.o \in Listed(d)' => op'[u.o].to = d /\ line'[d] # <<>>
          <6>1. line'[d] = <<>> => DOMAIN line'[d] = {}
            OBVIOUS
          <6>2. u.o \in Listed(d)' => line'[d] # <<>>
            BY <6>1 DEF Listed, ToSet
          <6>3. QED
            BY <6>2 DEF Placed
        <5>4. line'[d] # <<>> => d \in up'
          BY DEF Alive
        <5>5. QED
          BY <5>2, <5>3, <5>4
      <4>3. u.received \in BOOLEAN
        BY Places
      <4>4. QED
        BY <4>1, <4>2, <4>3
    <3>2. u.o # Mark
      BY Places
    <3>3. \A i \in DOMAIN line'[d] : line'[d][i] # u.o
      BY <3>1, <3>2 DEF Listed, ToSet
    <3>4. QED
      BY <3>3 DEF Ahead
  <2>4. QED
    BY <2>2, <2>3
<1>5. QED
  <2>1. sup' = "cleaning" => (fence' = "ok" <=> Lost' = {})
    BY <1>2 DEF Cleared
  <2>2. (sup' = "cleaning" /\ step' \in After) \/ how' = "clean" =>
           Excused' \/ \A u \in Lost' : Settled(u)'
    BY <1>2, <1>3 DEF Cleared
  <2>3. sup' = "cleaning" /\ step' \in {"fence", "fencing"} =>
           cpeer' \in Daemons /\ \A u \in Lost' : Fencing(u)'
    BY <1>2, <1>3 DEF Cleared
  <2>4. sup' = "cleaning" /\ step' = "fencing" =>
           /\ asks' \in unread'
           /\ \A u \in Lost' : op'[u.o].thread = asks' => Ahead(line'[cpeer'], u.o, Mark)
    BY <1>1, <1>2, <1>4 DEF Cleared
  <2>5. QED
    BY <2>1, <2>2, <2>3, <2>4 DEF Cleared

\* No cleanup runs afterwards, and none has ended well.
LEMMA ClearedNot ==
    ASSUME sup' # "cleaning", how' # "clean"
    PROVE  Cleared'
BY DEF Cleared

\* The fence is behind.
LEMMA ClearedAfter ==
    ASSUME CodexTypeOK, Booked, Cleared, Fixed, UNCHANGED <<fence, client>>,
           sup = "cleaning", step \in After,
           \/ sup' = "cleaning" /\ step' \in After
           \/ sup' # "cleaning"
    PROVE  Cleared'
<1>1. UNCHANGED <<op, uncertain>>
  BY DEF Fixed
<1>2. Lost' = Lost /\ Excused' = Excused
  BY <1>1 DEF Lost, Excused, Explicit, OnlyInternal
<1>3. Excused \/ \A u \in Lost : Settled(u)
  BY DEF Cleared
<1>4. Excused' \/ \A u \in Lost' : Settled(u)'
  BY <1>2, <1>3, SettledStays
<1>5. sup' = "cleaning" => step' \notin {"fence", "fencing"}
  BY AfterIs
<1>6. sup' = "cleaning" => (fence' = "ok" <=> Lost' = {})
  BY <1>2 DEF Cleared
<1>7. QED
  BY <1>4, <1>5, <1>6 DEF Cleared

\* The cleanup's read has been reached: what was lost on its thread has been handled.
LEMMA ReadIsReached ==
    ASSUME CodexTypeOK, Cleared, sup = "cleaning", step = "fencing",
           NEW i \in DOMAIN line[cpeer], line[cpeer][i] = Mark, Turn(cpeer, i),
           NEW u \in Lost, op[u.o].thread = asks
    PROVE  u.o \notin Listed(cpeer)
<1> USE Numbers
<1>1. cpeer \in Daemons /\ Ahead(line[cpeer], u.o, Mark)
  BY DEF Cleared
<1> PICK d \in Daemons : d = cpeer
  BY <1>1
<1>2. SUFFICES ASSUME u.o \in Listed(d) PROVE FALSE
  OBVIOUS
<1>3. PICK j \in DOMAIN line[d] : line[d][j] = u.o
  BY <1>2 DEF Listed, ToSet
<1>4. j < i
  BY <1>1, <1>3 DEF Ahead
<1>5. j \in 1..(i - 1)
  <2>1. line[d] \in Seq(Ops \cup {Mark})
    BY Places
  <2>2. QED
    BY <1>4, <2>1
<1>6. ThreadOf(line[d][j]) # ThreadOf(line[d][i])
  BY <1>5 DEF Turn
<1>7. u.o # Mark
  BY <1>2 DEF Listed
<1>8. QED
  BY <1>3, <1>6, <1>7 DEF ThreadOf

LEMMA ClearedKept ==
    ASSUME CodexTypeOK, Alive, Gated, Placed, Booked, InOrder, Marked, Cleared, Alive', Placed', Gated',
           DaemonStep \/ RelayStep \/ LaunchStep
    PROVE  Cleared'
<1> USE Numbers
<1>t. DaemonTypes /\ RelayTypes /\ LauncherTypes
  BY TypeParts
<1>g. Phased /\ Phased'
  BY DEF Gated
<1>1. CASE DaemonStep
  <2>1. Fixed /\ Moved
    BY <1>1, DaemonsFix, DaemonsMove
  <2>2. UNCHANGED <<sup, how, fence, client, step, cpeer, unread, asks>>
    BY <1>1, Frames DEF DaemonFrame
  <2>3. \A d \in Daemons : \A x \in Listed(d) :
           Ahead(line[d], x, Mark) => Ahead(line'[d], x, Mark)
    BY <2>1 DEF Moved, LineMoves
  <2>4. QED
    BY <2>1, <2>2, <2>3, ClearedStays
<1>2. CASE RelayStep
  <2>1. UNCHANGED <<sup, how, fence, client, step, cpeer, unread, asks, line>>
    BY <1>2, Frames DEF RelayFrame
  <2>2. CASE sup = "cleaning" \/ how = "clean"
    <3>1. Fixed
      BY <1>2, <2>2, RelayFixes
    <3>2. QED
      BY <2>1, <3>1, ClearedStays
  <2>3. CASE ~(sup = "cleaning" \/ how = "clean")
    BY <2>1, <2>3, ClearedNot
  <2>4. QED
    BY <2>2, <2>3
<1>3. CASE LaunchStep
  <2>f. Fixed /\ \A d \in Daemons : Listed(d)' = Listed(d)
    BY <1>3, LauncherFixes
  <2>u. UNCHANGED <<op, uncertain, up>>
    BY <1>3 DEF LaunchStep, Watches, Begins, Fences, GivesUp, Connects, Asks, Hears, Works, Frees,
                Exits, Idles, Cleaning, LaunchFrame
  <2>l. Lost' = Lost
    BY <2>u DEF Lost
  <2>1. CASE Watches \/ Idles
    <3>1. UNCHANGED <<sup, how, fence, client, step, cpeer, unread, asks, line>>
      BY <2>1 DEF Watches, Idles, SameWork
    <3>2. QED
      BY <2>f, <3>1, ClearedStays
  <2>2. CASE Begins
    <3>1. sup' = "pausing"
      BY <2>2 DEF Begins
    <3>2. how' = "not"
      BY <1>g, <3>1 DEF Phased
    <3>3. QED
      BY <3>1, <3>2, ClearedNot
  <2>3. CASE Frees
    <3>1. sup' = "run"
      BY <2>3 DEF Frees
    <3>2. how' = "not"
      BY <1>g, <3>1 DEF Phased
    <3>3. QED
      BY <3>1, <3>2, ClearedNot
  <2>4. CASE GivesUp
    <3>1. sup' \in {"run", "unpausing"}
      BY <2>4 DEF GivesUp
    <3>2. how' = "not"
      BY <1>g, <3>1 DEF Phased
    <3>3. QED
      BY <3>1, <3>2, ClearedNot
  <2>5. CASE Fences
    <3>1. /\ sup' = "cleaning" /\ fence' = IF Lost = {} THEN "ok" ELSE "unsettled"
          /\ step' = IF Drained = None /\ Lost = {} THEN "done" ELSE "connect"
      BY <2>5 DEF Fences
    <3>2. how' = "not"
      BY <1>g, <3>1 DEF Phased
    <3>3. step' \in After => Lost = {}
      BY <3>1, AfterIs
    <3>4. QED
      BY <2>l, <3>1, <3>2, <3>3 DEF Cleared
  <2>6. CASE Connects
    <3>1. /\ sup = "cleaning" /\ UNCHANGED <<sup, how, fence, target, client>>
          /\ front # 0 /\ cpeer' = front /\ unread' = Reads /\ step' = ToFence(Reads)
          /\ fence = "ok" \/ (fence = "unsettled" /\ Excused) \/ Fencible(front)
      BY <2>6 DEF Connects, Cleaning
    <3>2. fence = "ok" <=> Lost = {}
      BY <3>1 DEF Cleared
    <3>3. how' = "not" /\ Excused' = Excused
      BY <1>g, <2>u, <2>l, <3>1 DEF Phased, Excused, Explicit, OnlyInternal
    <3>4. front \in Daemons
      BY <1>t, <3>1 DEF DaemonTypes
    <3>5. CASE fence = "ok" \/ (fence = "unsettled" /\ Excused)
      <4>1. Reads = {}
        BY <3>5 DEF Reads
      <4>2. step' \in {"done", "goal"}
        BY <3>1, <4>1 DEF ToFence
      <4>3. Excused' \/ \A u \in Lost' : Settled(u)'
        BY <2>l, <3>2, <3>3, <3>5
      <4>4. QED
        BY <2>l, <3>1, <3>2, <3>3, <4>2, <4>3 DEF Cleared
    <3>6. CASE ~(fence = "ok" \/ (fence = "unsettled" /\ Excused))
      <4>1. Reads = ThreadsToFence
        BY <3>6 DEF Reads
      <4>2. \A u \in Lost : op[u.o].to \in up =>
               /\ u.received /\ op[u.o].to = front /\ op[u.o].kind \in Known
               /\ op[u.o].thread \in Reads
        BY <3>1, <3>6, <4>1 DEF Fencible, Unfinished, ThreadsToFence
      <4>3. CASE Reads # {}
        <5>1. step' = "fence"
          BY <3>1, <4>3 DEF ToFence
        <5>2. \A u \in Lost' : Fencing(u)'
          BY <2>u, <2>l, <3>1, <4>2 DEF Fencing
        <5>3. QED
          BY <2>l, <3>1, <3>2, <3>3, <3>4, <5>1, <5>2, AfterIs DEF Cleared
      <4>4. CASE Reads = {}
        <5>1. step' \in {"done", "goal"}
          BY <3>1, <4>4 DEF ToFence
        <5>2. \A u \in Lost' : Settled(u)'
          BY <2>u, <2>l, <4>2, <4>4 DEF Settled
        <5>3. QED
          BY <2>l, <3>1, <3>2, <3>3, <5>1, <5>2 DEF Cleared
      <4>5. QED
        BY <4>3, <4>4
    <3>7. QED
      BY <3>5, <3>6
  <2>7. CASE Asks
    <3>1. /\ sup = "cleaning" /\ UNCHANGED <<sup, how, fence, target, client, cpeer, unread>>
          /\ line' = [line EXCEPT ![cpeer] = Append(@, Mark)]
          /\ \/ step = "fence" /\ step' = "fencing" /\ asks' \in unread
             \/ step = "verify" /\ step' = "verifying"
      BY <2>7 DEF Asks, Cleaning
    <3>2. CASE step = "verify"
      BY <2>f, <3>1, <3>2, ClearedAfter DEF After
    <3>3. CASE step = "fence"
      <4>1. cpeer \in Daemons /\ (fence = "ok" <=> Lost = {}) /\ \A u \in Lost : Fencing(u)
        BY <3>1, <3>3 DEF Cleared
      <4> PICK d \in Daemons : d = cpeer
        BY <4>1
      <4>2. \A u \in Lost : Fencing(u)'
        BY <2>f, <3>1, <4>1, SettledStays
      <4>3. ASSUME NEW u \in Lost PROVE Ahead(line'[d], u.o, Mark)
        <5>1. line[d] \in Seq(Ops \cup {Mark}) /\ u.o \in Ops /\ line'[d] = Append(line[d], Mark)
          BY <1>t, <3>1, Places DEF DaemonTypes
        <5>2. Mark \notin ToSet(line[d])
          BY <3>3 DEF Marked
        <5>3. QED
          BY <5>1, <5>2, AppendAhead
      <4>4. how' = "not"
        BY <1>g, <3>1 DEF Phased
      <4>5. QED
        BY <2>l, <3>1, <3>3, <4>1, <4>2, <4>3, <4>4, AfterIs DEF Cleared
    <3>4. QED
      BY <3>1, <3>2, <3>3
  <2>8. ASSUME NEW i \in DOMAIN line[cpeer], Hears(i) PROVE Cleared'
    <3>1. /\ sup = "cleaning" /\ UNCHANGED <<sup, how, fence, target, client, cpeer>>
          /\ line[cpeer][i] = Mark /\ Turn(cpeer, i)
          /\ \/ step = "fencing" /\ unread' = unread \ {asks} /\ step' = ToFence(unread')
             \/ step = "verifying" /\ step' \in {"list", "done"}
      BY <2>8 DEF Hears, Cleaning
    <3>2. CASE step = "verifying"
      BY <2>f, <3>1, <3>2, ClearedAfter DEF After
    <3>3. CASE step = "fencing"
      <4>1. /\ cpeer \in Daemons /\ (fence = "ok" <=> Lost = {}) /\ asks \in unread
            /\ \A u \in Lost : Fencing(u)
        BY <3>1, <3>3 DEF Cleared
      <4> PICK d \in Daemons : d = cpeer
        BY <4>1
      <4>2. \A u \in Lost : op[u.o].thread = asks => u.o \notin Listed(d)
        BY <2>8, <3>1, <3>3, ReadIsReached
      <4>3. ASSUME NEW u \in Lost
            PROVE  \/ op[u.o].to \notin up
                   \/ /\ op[u.o].kind \in Known /\ u.received /\ op[u.o].to = d
                      /\ op[u.o].thread \in unread' \/ u.o \notin Listed(d)
        <5>1. \/ op[u.o].to \notin up
              \/ /\ op[u.o].kind \in Known /\ u.received /\ op[u.o].to = d
                 /\ op[u.o].thread \in unread \/ u.o \notin Listed(d)
          BY <4>1 DEF Fencing
        <5>2. QED
          BY <3>1, <3>3, <4>2, <5>1
      <4>4. how' = "not"
        BY <1>g, <3>1 DEF Phased
      <4>5. CASE unread' # {}
        <5>1. step' = "fence"
          BY <3>1, <3>3, <4>5 DEF ToFence
        <5>2. \A u \in Lost : Fencing(u)'
          BY <2>f, <2>u, <3>1, <4>3 DEF Fencing, Listed
        <5>3. QED
          BY <2>l, <3>1, <4>1, <4>4, <5>1, <5>2, AfterIs DEF Cleared
      <4>6. CASE unread' = {}
        <5>1. step' \in {"done", "goal"}
          BY <3>1, <3>3, <4>6 DEF ToFence
        <5>2. ASSUME NEW u \in Lost PROVE Settled(u)'
          <6>1. CASE op[u.o].to \notin up
            BY <2>u, <6>1 DEF Settled
          <6>2. CASE op[u.o].to \in up
            <7>1. op[u.o].kind \in Known /\ u.received /\ op[u.o].to = d /\ u.o \notin Listed(d)'
              BY <2>f, <4>3, <4>6, <6>2
            <7>2. QED
              BY <2>u, <7>1 DEF Settled, Listed
          <6>3. QED
            BY <6>1, <6>2
        <5>3. QED
          BY <2>l, <3>1, <4>1, <4>4, <5>1, <5>2 DEF Cleared
      <4>7. QED
        BY <4>5, <4>6
    <3>4. QED
      BY <3>1, <3>2, <3>3
  <2>9. CASE Works
    <3>1. UNCHANGED <<sup, fence, client>> /\ sup = "cleaning"
      BY <2>9 DEF Works, Cleaning
    <3>2. step \in After /\ step' \in After
      BY <2>9 DEF Works, After
    <3>3. QED
      BY <2>f, <3>1, <3>2, ClearedAfter
  <2>10. CASE Exits
    <3>1. /\ sup' = "exited" /\ UNCHANGED <<fence, client>>
          /\ \/ how' = "clean" /\ sup = "cleaning" /\ step = "done"
             \/ how' = "forced"
      BY <2>10 DEF Exits
    <3>2. CASE how' = "forced"
      BY <3>1, <3>2, ClearedNot
    <3>3. CASE how' = "clean" /\ sup = "cleaning" /\ step = "done"
      <4>1. step \in After
        BY <3>3 DEF After
      <4>2. QED
        BY <2>f, <3>1, <3>3, <4>1, ClearedAfter
    <3>4. QED
      BY <3>1, <3>2, <3>3
  <2>11. QED
    BY <1>3, <2>1, <2>2, <2>3, <2>4, <2>5, <2>6, <2>7, <2>8, <2>9, <2>10 DEF LaunchStep
<1>4. QED
  BY <1>1, <1>2, <1>3

-----------------------------------------------------------------------------
(* What the thread comes to *)

Behind == (sup = "cleaning" /\ step \in After) \/ how = "clean"

\* What may come to Here without a request: a goal starts a turn, a turn leaves a terminal.
Eases == /\ Here \in goals' => Here \in goals
         /\ Here \in active' => Here \in active \/ (Here \in goals /\ Here \in loaded)
         /\ Here \in terms' => Here \in terms \cup active
         /\ Here \in loaded' => Here \in loaded

LEMMA StagedStays ==
    ASSUME Staged, UNCHANGED <<op, sup, how, step, fault, cpeer, target>>,
           Behind /\ target # None /\ ~Compacted => Eases
    PROVE  Staged'
<1>1. Here' = Here /\ Compacted' = Compacted
  BY DEF Here, Compacted
<1> PICK h : h = Here
  OBVIOUS
<1>2. SUFFICES ASSUME target # None, ~Compacted
               PROVE  /\ sup = "cleaning" =>
                            /\ step \in {"turns", "interrupt", "terminals"} /\ ~fault => h \notin goals'
                            /\ step = "terminals" /\ ~fault => h \notin active'
                            /\ step \in {"verify", "verifying", "list"} =>
                                  h \notin goals' \cup active' \cup terms'
                            /\ step = "done" => Rest'
                      /\ how = "clean" => Rest'
  BY <1>1 DEF Staged
<1>3. CASE ~Behind
  BY <1>3 DEF Behind, After
<1>4. CASE Behind
  <2>1. /\ h \in goals' => h \in goals
        /\ h \in active' => h \in active \/ (h \in goals /\ h \in loaded)
        /\ h \in terms' => h \in terms \cup active
        /\ h \in loaded' => h \in loaded
    BY <1>2, <1>4 DEF Eases
  <2>2. Rest => Rest'
    BY <1>1, <2>1 DEF Rest
  <2>3. /\ sup = "cleaning" =>
              /\ step \in {"turns", "interrupt", "terminals"} /\ ~fault => h \notin goals
              /\ step = "terminals" /\ ~fault => h \notin active
              /\ step \in {"verify", "verifying", "list"} => h \notin goals \cup active \cup terms
              /\ step = "done" => Rest
        /\ how = "clean" => Rest
    BY <1>2 DEF Staged
  <2>4. QED
    BY <2>1, <2>2, <2>3
<1>5. QED
  BY <1>3, <1>4

LEMMA StagedNot ==
    ASSUME how' # "clean", sup' = "cleaning" => target' = None \/ step' \in {"connect", "fence", "fencing", "goal"}
    PROVE  Staged'
BY DEF Staged

\* Once the fence is behind, no request in the line of the daemon is one of the thread.
LEMMA NothingQueued ==
    ASSUME CodexTypeOK, Alive, Gated, Followed, Placed, Booked, Unshared, Cleared, Behind,
           NEW d \in Daemons, NEW o \in Listed(d)
    PROVE  op[o].thread # target
<1> USE Numbers
<1>1. o \in Ops /\ Moves(o) /\ op[o].to = d /\ d \in up
  <2>1. line[d] # <<>>
    <3>1. line[d] = <<>> => DOMAIN line[d] = {}
      OBVIOUS
    <3>2. QED
      BY <3>1 DEF Listed, ToSet
  <2>2. QED
    BY <2>1, Places DEF Moves, Placed, Alive
<1>2. \A c \in Conns : pending[c] = {}
  BY DEF Behind, Gated, Phased
<1>3. PICK u \in Lost : u.o = o
  BY <1>1, <1>2 DEF Placed
<1>4. Excused \/ Settled(u)
  BY DEF Cleared, Behind
<1>5. CASE Settled(u)
  BY <1>1, <1>3, <1>5 DEF Settled
<1>6. CASE Excused
  <2>1. op[o].kind \in Creates
    BY <1>3, <1>6 DEF Excused, OnlyInternal, Creates
  <2>2. op[o].thread # shown
    BY <1>1, <2>1 DEF Unshared
  <2>3. target = shown
    BY DEF Followed, Behind
  <2>4. QED
    BY <2>2, <2>3
<1>7. QED
  BY <1>4, <1>5, <1>6

LEMMA DaemonsEase ==
    ASSUME CodexTypeOK, Alive, Gated, Followed, Placed, Booked, Unshared, Cleared, DaemonStep,
           Behind, ~Compacted
    PROVE  Eases
<1> USE Numbers
<1>t. DaemonTypes
  BY TypeParts
<1>s. UNCHANGED <<loaded, active, goals, terms>> => Eases
  BY DEF Eases
<1>1. ASSUME NEW c, Admit(c) \/ Closes(c) PROVE Eases
  BY <1>s, <1>1 DEF Admit, Closes, daemonVars
<1>2. ASSUME NEW o, AdmitAdrift(o) PROVE Eases
  BY <1>s, <1>2 DEF AdmitAdrift, daemonVars
<1>3. ASSUME NEW o \in Ops, CoreRuns(o) PROVE Eases
  <2>1. op[o].kind = "compact"
    BY <1>3 DEF CoreRuns, Booked
  <2>2. <<op[o].to, op[o].thread>> # Here
    BY <2>1 DEF Compacted, Here
  <2>3. QED
    BY <1>3, <2>2 DEF CoreRuns, Eases
<1>4. ASSUME NEW d \in Daemons, NEW i \in DOMAIN line[d], NEW done \in BOOLEAN, Handle(d, i, done)
      PROVE  Eases
  <2>1. line[d][i] \in Listed(d)
    BY <1>4 DEF Handle, Listed, ToSet
  <2>2. op[line[d][i]].thread # target
    BY <2>1, NothingQueued
  <2> PICK dt : dt = <<d, op[line[d][i]].thread>>
    OBVIOUS
  <2>3. dt # Here
    BY <2>2 DEF Here
  <2>4. /\ loaded' = loaded \/ loaded' = loaded \cup {dt}
        /\ active' = active \/ active' = active \cup {dt}
        /\ goals' = goals \/ goals' = goals \cup {dt}
        /\ terms' = terms
    BY <1>4 DEF Handle
  <2>5. QED
    BY <2>3, <2>4 DEF Eases
<1>5. ASSUME NEW d, Dies(d) PROVE Eases
  BY <1>5 DEF Dies, Eases
<1>6. ASSUME Starts PROVE Eases
  BY <1>s, <1>6 DEF Starts
<1>7. ASSUME NEW dt, ThreadMoves(dt) PROVE Eases
  BY <1>7 DEF ThreadMoves, Eases
<1>8. QED
  BY <1>1, <1>2, <1>3, <1>4, <1>5, <1>6, <1>7 DEF DaemonStep

LEMMA WorksStage ==
    ASSUME CodexTypeOK, Staged, Works, how = "not"
    PROVE  Staged'
<1>t. DaemonTypes
  BY TypeParts
<1>1. /\ sup = "cleaning" /\ UNCHANGED <<op, sup, how, target, cpeer, loaded>>
  BY DEF Works, Cleaning, LaunchFrame
<1>2. Here' = Here /\ Compacted' = Compacted
  BY <1>1 DEF Here, Compacted
<1> PICK h : h = Here
  OBVIOUS
<1>3. SUFFICES ASSUME target # None, ~Compacted
               PROVE  /\ step' \in {"turns", "interrupt", "terminals"} /\ ~fault' => h \notin goals'
                      /\ step' = "terminals" /\ ~fault' => h \notin active'
                      /\ step' \in {"verify", "verifying", "list"} =>
                            h \notin goals' \cup active' \cup terms'
                      /\ step' = "done" => Rest'
  BY <1>1, <1>2 DEF Staged
<1>4. /\ step \in {"turns", "interrupt", "terminals"} /\ ~fault => h \notin goals
      /\ step = "terminals" /\ ~fault => h \notin active
      /\ step \in {"verify", "verifying", "list"} => h \notin goals \cup active \cup terms
  BY <1>1, <1>3 DEF Staged
<1>5. active \subseteq loaded /\ terms \subseteq loaded
  BY <1>t DEF DaemonTypes
<1>6. h \notin active' /\ (h \notin goals' \/ h \notin loaded) /\ (cpeer \in Ordered => h \notin terms')
         => Rest'
  BY <1>1, <1>2 DEF Rest
<1>7. CASE /\ step = "goal" /\ step' = "turns"
           /\ (goals' = goals \ {Here} /\ UNCHANGED fault) \/ fault' = TRUE
  BY <1>7
<1>8. CASE /\ step = "turns" /\ step' \in {"interrupt", "terminals"} /\ SameRuns
           /\ (UNCHANGED fault /\ (step' = "terminals" => Here \notin active)) \/ fault' = TRUE
  BY <1>4, <1>8 DEF SameRuns
<1>9. CASE /\ step = "interrupt" /\ step' = "terminals" /\ UNCHANGED <<goals, terms>>
           /\ (active' = active \ {Here} /\ UNCHANGED fault) \/ fault' = TRUE
  BY <1>4, <1>9
<1>10. CASE /\ step = "terminals" /\ UNCHANGED <<active, goals, fault>>
            /\ terms' = terms \ {Here} \/ (terms' = terms /\ cpeer \notin Ordered)
            /\ step' = IF fault THEN "absent" ELSE IF cpeer \in Ordered THEN "verify" ELSE "done"
  <2>1. CASE fault
    BY <1>10, <2>1
  <2>2. CASE ~fault
    <3>1. h \notin goals' /\ h \notin active'
      BY <1>4, <1>10, <2>2
    <3>2. cpeer \in Ordered => h \notin terms'
      BY <1>10
    <3>3. step' = IF cpeer \in Ordered THEN "verify" ELSE "done"
      BY <1>10, <2>2
    <3>4. QED
      BY <1>6, <3>1, <3>2, <3>3
  <2>3. QED
    BY <2>1, <2>2
<1>11. CASE step' = "absent"
  BY <1>11
<1>12. CASE step' = "done" /\ Here \notin loaded /\ SameRuns
  BY <1>5, <1>6, <1>12 DEF SameRuns
<1>13. CASE /\ step = "list" /\ SameRuns
            /\ step' = IF Here \in terms THEN "verify" ELSE "done"
  <2>1. h \notin goals' \cup active' \cup terms'
    BY <1>4, <1>13 DEF SameRuns
  <2>2. step' \in {"verify", "done"}
    BY <1>13
  <2>3. QED
    BY <1>6, <2>1, <2>2
<1>14. QED
  BY <1>7, <1>8, <1>9, <1>10, <1>11, <1>12, <1>13 DEF Works

LEMMA StagedKept ==
    ASSUME CodexTypeOK, Alive, Gated, Followed, Placed, Booked, Marked, Unshared, Cleared, Staged, Gated',
           DaemonStep \/ RelayStep \/ LaunchStep
    PROVE  Staged'
<1> USE Numbers
<1>t. DaemonTypes /\ LauncherTypes
  BY TypeParts
<1>g. Phased /\ Phased'
  BY DEF Gated
<1>1. CASE DaemonStep
  <2>1. UNCHANGED <<op, sup, how, step, fault, cpeer, target>>
    BY <1>1, Frames DEF DaemonFrame
  <2>2. QED
    BY <1>1, <2>1, DaemonsEase, StagedStays
<1>2. CASE RelayStep
  <2>1. UNCHANGED <<sup, how, step, fault, cpeer, target, loaded, active, goals, terms>>
    BY <1>2, Frames DEF RelayFrame
  <2>2. Eases
    BY <2>1 DEF Eases
  <2>3. CASE sup = "cleaning" \/ how = "clean"
    <3>1. UNCHANGED op
      BY <1>2, <2>3, RelayFixes
    <3>2. QED
      BY <2>1, <2>2, <3>1, StagedStays
  <2>4. CASE ~(sup = "cleaning" \/ how = "clean")
    BY <2>1, <2>4, StagedNot
  <2>5. QED
    BY <2>3, <2>4
<1>3. CASE LaunchStep
  <2>1. CASE Watches \/ Idles
    <3>1. UNCHANGED <<op, sup, how, step, fault, cpeer, target, loaded, active, goals, terms>>
      BY <2>1 DEF Watches, Idles, LaunchFrame, SameRuns
    <3>2. Eases
      BY <3>1 DEF Eases
    <3>3. QED
      BY <3>1, <3>2, StagedStays
  <2>2. CASE Begins \/ Frees \/ GivesUp
    <3>1. sup' \in {"pausing", "run", "unpausing"}
      BY <2>2 DEF Begins, Frees, GivesUp
    <3>2. how' = "not"
      BY <1>g, <3>1 DEF Phased
    <3>3. QED
      BY <3>1, <3>2, StagedNot
  <2>3. CASE Fences
    <3>1. /\ sup' = "cleaning" /\ target' = Drained
          /\ step' = IF Drained = None /\ Lost = {} THEN "done" ELSE "connect"
      BY <2>3 DEF Fences
    <3>2. how' = "not"
      BY <1>g, <3>1 DEF Phased
    <3>3. target' = None \/ step' = "connect"
      BY <3>1
    <3>4. QED
      BY <3>2, <3>3, StagedNot
  <2>4. CASE Connects
    <3>1. /\ sup' = "cleaning" /\ target' = target /\ step' = ToFence(Reads)
      BY <2>4 DEF Connects, Cleaning
    <3>2. how' = "not"
      BY <1>g, <3>1 DEF Phased
    <3>3. target' = None \/ step' \in {"fence", "goal"}
      BY <3>1 DEF ToFence
    <3>4. QED
      BY <3>2, <3>3, StagedNot
  <2>5. CASE Asks
    <3>1. /\ sup = "cleaning" /\ sup' = "cleaning" /\ how' = how
          /\ UNCHANGED <<op, fault, cpeer, target, loaded, active, goals, terms>>
          /\ \/ step = "fence" /\ step' = "fencing"
             \/ step = "verify" /\ step' = "verifying"
      BY <2>5 DEF Asks, Cleaning, LaunchFrame, SameRuns
    <3>2. how' = "not"
      BY <1>g, <3>1 DEF Phased
    <3>3. CASE step' = "fencing"
      BY <3>2, <3>3, StagedNot
    <3>4. CASE step = "verify" /\ step' = "verifying"
      <4>1. Here' = Here /\ Compacted' = Compacted
        BY <3>1 DEF Here, Compacted
      <4>2. target # None /\ ~Compacted => Here \notin goals \cup active \cup terms
        BY <3>1, <3>4 DEF Staged
      <4>3. target' # None /\ ~Compacted' => Here' \notin goals' \cup active' \cup terms'
        BY <3>1, <4>1, <4>2
      <4>4. QED
        BY <3>2, <3>4, <4>3 DEF Staged
    <3>5. QED
      BY <3>1, <3>3, <3>4
  <2>6. ASSUME NEW i \in DOMAIN line[cpeer], Hears(i) PROVE Staged'
    <3>1. /\ sup = "cleaning" /\ sup' = "cleaning" /\ how' = how
          /\ UNCHANGED <<op, fault, cpeer, target, loaded, active, goals, terms>>
          /\ \/ step = "fencing" /\ \E reads : step' = ToFence(reads)
             \/ /\ step = "verifying" /\ Here \notin active
                /\ step' = IF Here \in loaded THEN "list" ELSE "done"
      BY <2>6 DEF Hears, Cleaning, LaunchFrame, SameRuns
    <3>2. how' = "not"
      BY <1>g, <3>1 DEF Phased
    <3>3. CASE \E reads : step' = ToFence(reads)
      <4>1. target' = None \/ step' \in {"fence", "goal"}
        BY <3>1, <3>3 DEF ToFence
      <4>2. QED
        BY <3>2, <4>1, StagedNot
    <3>4. CASE /\ step = "verifying" /\ Here \notin active
               /\ step' = IF Here \in loaded THEN "list" ELSE "done"
      <4>1. Here' = Here /\ Compacted' = Compacted
        BY <3>1 DEF Here, Compacted
      <4>2. target # None /\ ~Compacted => Here \notin goals \cup active \cup terms
        BY <3>1, <3>4 DEF Staged
      <4>3. target' # None /\ ~Compacted' => Here' \notin goals' \cup active' \cup terms'
        BY <3>1, <4>1, <4>2
      <4>4. target' # None /\ ~Compacted' => Rest'
        BY <4>3 DEF Rest
      <4>5. step' \in {"list", "done"}
        BY <3>4
      <4>6. QED
        BY <3>2, <4>3, <4>4, <4>5 DEF Staged
    <3>5. QED
      BY <3>1, <3>3, <3>4
  <2>7. CASE Works
    <3>1. sup = "cleaning"
      BY <2>7 DEF Works, Cleaning
    <3>2. how = "not"
      BY <1>g, <3>1 DEF Phased
    <3>3. QED
      BY <2>7, <3>2, WorksStage
  <2>8. CASE Exits
    <3>1. /\ sup' = "exited"
          /\ UNCHANGED <<op, fault, cpeer, target, loaded, active, goals, terms>>
          /\ \/ how' = "clean" /\ sup = "cleaning" /\ step = "done"
             \/ how' = "forced"
      BY <2>8 DEF Exits, LaunchFrame, SameRuns
    <3>2. CASE how' = "forced"
      BY <3>1, <3>2, StagedNot
    <3>3. CASE how' = "clean" /\ sup = "cleaning" /\ step = "done"
      <4>1. Here' = Here /\ Compacted' = Compacted
        BY <3>1 DEF Here, Compacted
      <4>2. target # None /\ ~Compacted => Rest
        BY <3>3 DEF Staged
      <4>3. Rest' = Rest
        BY <3>1, <4>1 DEF Rest
      <4>4. QED
        BY <3>1, <4>1, <4>2, <4>3 DEF Staged
    <3>4. QED
      BY <3>1, <3>2, <3>3
  <2>9. QED
    BY <1>3, <2>1, <2>2, <2>3, <2>4, <2>5, <2>6, <2>7, <2>8 DEF LaunchStep
<1>4. QED
  BY <1>1, <1>2, <1>3

-----------------------------------------------------------------------------
(* The backends, and the invariant *)

SameBackends == UNCHANGED <<child, inbox, killer>>

LEMMA DaemonsAlone ==
    ASSUME DaemonStep \/ RelayStep
    PROVE  SameBackends
<1> USE DEF SameBackends, askVars, relayAlone
<1>1. ASSUME NEW c, Admit(c) \/ Closes(c) PROVE SameBackends
  BY <1>1 DEF Admit, Closes
<1>2. ASSUME NEW o, AdmitAdrift(o) \/ CoreRuns(o) PROVE SameBackends
  BY <1>2 DEF AdmitAdrift, CoreRuns
<1>3. ASSUME NEW d, NEW i, NEW done \in BOOLEAN, Handle(d, i, done) PROVE SameBackends
  BY <1>3 DEF Handle
<1>4. ASSUME NEW d, Dies(d) \/ Starts \/ ThreadMoves(d) PROVE SameBackends
  BY <1>4 DEF Dies, Starts, ThreadMoves
<1>5. ASSUME NEW c, Accept \/ AcceptExtra(c) \/ Acknowledge(c) \/ Dialled(c) \/ DialFails(c)
      PROVE  SameBackends
  BY <1>5 DEF Accept, AcceptExtra, Acknowledge, Dialled, DialFails
<1>6. ASSUME NEW c, Take(c) PROVE SameBackends
  BY <1>6 DEF Take, Write
<1>7. ASSUME NEW c, Refuse(c) \/ Forward(c) PROVE SameBackends
  BY <1>7 DEF Refuse, Forward, Write
<1>8. ASSUME NEW c, Break(c) \/ Receipt(c) \/ NoReceipt(c) PROVE SameBackends
  BY <1>8 DEF Break, Receipt, NoReceipt, Finish
<1>9. ASSUME NEW c, NEW o, Replied(c, o) PROVE SameBackends
  BY <1>9 DEF Replied
<1> HIDE DEF SameBackends
<1>10. QED
  BY <1>1, <1>2, <1>3, <1>4, <1>5, <1>6, <1>7, <1>8, <1>9 DEF DaemonStep, RelayStep

LEMMA CleanupAlone ==
    ASSUME \/ Observe \/ Fenced \/ Cleanup \/ FenceTimesOut \/ CleanupFails
           \/ PauseGoalFails \/ ListTurnsFails \/ InterruptFails \/ TerminalsFail
    PROVE  SameBackends
<1> USE DEF SameBackends, askVars, launchAlone, cleanAlone
<1>1. ASSUME Observe \/ Fenced PROVE SameBackends
  BY <1>1 DEF Observe, Fenced
<1>2. ASSUME NEW hints, Fail(hints) PROVE SameBackends
  BY <1>2 DEF Fail
<1>3. ASSUME NEW t, Read(t) PROVE SameBackends
  BY <1>3 DEF Read
<1>4. ASSUME NEW i, Answered(i) PROVE SameBackends
  BY <1>4 DEF Answered
<1>5. ASSUME NEW from, NEW to, CleanStep(from, to) PROVE SameBackends
  BY <1>5 DEF CleanStep
<1> HIDE DEF SameBackends
<1>6. ASSUME FenceTimesOut \/ CleanupFails PROVE SameBackends
  BY <1>2, <1>6 DEF FenceTimesOut, CleanupFails
<1>7. ASSUME Connect PROVE SameBackends
  BY <1>2, <1>7 DEF Connect, SameBackends, askVars, cleanAlone
<1>8. ASSUME ReadLost \/ Verify PROVE SameBackends
  BY <1>3, <1>8 DEF ReadLost, Verify
<1>9. ASSUME FenceAnswered \/ VerifyAnswered PROVE SameBackends
  BY <1>2, <1>4, <1>9 DEF FenceAnswered, VerifyAnswered
<1>10. ASSUME PauseGoal \/ PauseGoalFails \/ ListTurns \/ ListTurnsFails \/ Interrupt \/ InterruptFails
       PROVE  SameBackends
  BY <1>5, <1>10 DEF PauseGoal, PauseGoalFails, ListTurns, ListTurnsFails, Interrupt, InterruptFails
<1>11. ASSUME EndTerminals \/ TerminalsFail \/ InventoryRead \/ TerminalsListed PROVE SameBackends
  BY <1>5, <1>11 DEF EndTerminals, TerminalsFail, InventoryRead, TerminalsListed
<1>12. QED
  BY <1>1, <1>6, <1>7, <1>8, <1>9, <1>10, <1>11 DEF Cleanup

LEMMA BackendsKeepTypes ==
    ASSUME CodexTypeOK, Phased, [Next]_vars
    PROVE  BackendTypes'
<1> USE Numbers
<1>t. BackendTypes /\ LauncherTypes
  BY TypeParts
<1> DEFINE Outcomes == {"idle", "stop", "kill", "force", "signalled", "forced", "failed"}
           Asked == Killers \X {"stop", "kill", "force"}
           Goal == /\ child' \in {"live", "reaped"} /\ inbox' \subseteq Asked
                   /\ killer' \in [Killers -> Outcomes]
<1>0. child \in {"live", "reaped"} /\ inbox \subseteq Asked /\ killer \in [Killers -> Outcomes]
  BY <1>t DEF BackendTypes
<1>s. ASSUME SameBackends PROVE Goal
  BY <1>0, <1>s DEF SameBackends
<1>1. ASSUME NEW request \in Killers \X {"stop", "kill", "force"}, NEW hint, Tell(request, hint),
             UNCHANGED child
      PROVE  Goal
  <2>1. PICK k \in Killers : k = request[1]
    OBVIOUS
  <2> DEFINE next == Retry(k, request[2], hint)
  <2>2. next \in {"kill", "force", "failed"}
    BY DEF Retry
  <2>3. /\ killer' = [killer EXCEPT ![k] = next]
        /\ inbox' = (inbox \ {request}) \cup ({<<k, next>>} \cap (Killers \X {"kill", "force"}))
    BY <1>1, <2>1 DEF Tell
  <2> HIDE DEF next
  <2>4. Killers \X {"kill", "force"} \subseteq Asked
    OBVIOUS
  <2>5. inbox' \subseteq Asked
    BY <1>0, <2>3, <2>4
  <2>6. killer' \in [Killers -> Outcomes]
    BY <1>0, <2>2, <2>3
  <2>7. QED
    BY <1>0, <1>1, <2>5, <2>6
<1>2. ASSUME NEW h, NEW told, NEW outcome \in {"signalled", "forced"}, Exit(h, told, outcome) PROVE Goal
  <2>1. /\ child' = "reaped" /\ inbox' = {}
        /\ killer' = [k \in Killers |->
                         IF k = told THEN outcome
                         ELSE CASE killer[k] \in {"stop", "kill"} -> "failed"
                                [] killer[k] = "force"           -> "forced"
                                [] OTHER                         -> killer[k]]
    BY <1>2 DEF Exit
  <2>2. \A k \in Killers : killer'[k] \in {outcome, "failed", "forced", killer[k]}
    BY <2>1
  <2>3. \A k \in Killers : killer'[k] \in Outcomes
    BY <1>0, <2>2
  <2>4. killer' \in [Killers -> Outcomes]
    BY <2>1, <2>3
  <2>5. QED
    BY <2>1, <2>4
<1>3. ASSUME NEW k \in Killers, Ask(k) PROVE Goal
  <2>1. /\ killer' = [killer EXCEPT ![k] = "stop"] /\ inbox' = inbox \cup {<<k, "stop">>}
        /\ UNCHANGED child
    BY <1>3 DEF Ask
  <2>2. QED
    BY <1>0, <2>1
<1>4. ASSUME NEW request \in inbox, StopAsked(request) PROVE Goal
  BY <1>0, <1>4 DEF StopAsked
<1>5. ASSUME NEW request \in inbox, Busy(request) PROVE Goal
  <2>1. Tell(request, "denied") /\ UNCHANGED child
    BY <1>5 DEF Busy
  <2>2. request \in Asked
    BY <1>0
  <2>3. QED
    BY <1>1, <2>1, <2>2
<1>6. ASSUME ChildExits PROVE Goal
  BY <1>0, <1>6 DEF ChildExits, launchAlone, askVars
<1>7. ASSUME Rejected PROVE Goal
  <2>1. Tell(client, step) /\ UNCHANGED child /\ sup = "unpausing"
    BY <1>7 DEF Rejected
  <2>2. client \in Killers \X {"stop", "kill"}
    BY <1>t, <2>1 DEF LauncherTypes, Phased
  <2>3. client \in Asked
    BY <2>2
  <2>4. QED
    BY <1>1, <2>1, <2>3
<1>8. ASSUME Succeeded \/ \E k \in Killers : ForceStopped(k) PROVE Goal
  BY <1>2, <1>8 DEF Succeeded, ForceStopped
<1> HIDE DEF Goal
<1>9. troubles' \in Nat /\ Goal
  <2>0. troubles \in Nat
    BY <1>t DEF BackendTypes
  <2>1. CASE UNCHANGED vars
    BY <1>s, <2>0, <2>1 DEF vars, askVars, SameBackends
  <2>2. CASE Trouble /\ troubles' = troubles + 1
    <3>1. \/ DaemonStep \/ RelayStep \/ FenceTimesOut \/ CleanupFails
          \/ PauseGoalFails \/ ListTurnsFails \/ InterruptFails \/ TerminalsFail
      BY <2>2 DEF Trouble, DaemonStep, RelayStep
    <3>2. SameBackends
      BY <3>1, DaemonsAlone, CleanupAlone
    <3>3. QED
      BY <1>s, <2>0, <2>2, <3>2
  <2>3. CASE /\ Daemon \/ Relay \/ Launcher \/ ChildExits \/ (\E k \in Killers : Ask(k))
             /\ UNCHANGED troubles
    <3>1. CASE Daemon \/ Relay
      <4>1. DaemonStep \/ RelayStep
        BY <3>1 DEF Daemon, Relay, DaemonStep, RelayStep, Able
      <4>2. QED
        BY <1>s, <2>0, <2>3, <4>1, DaemonsAlone
    <3>2. CASE Launcher
      BY <1>s, <1>4, <1>5, <1>7, <1>8, <2>0, <2>3, <3>2, CleanupAlone DEF Launcher
    <3>3. CASE ChildExits \/ \E k \in Killers : Ask(k)
      BY <1>3, <1>6, <2>0, <2>3, <3>3
    <3>4. QED
      BY <2>3, <3>1, <3>2, <3>3
  <2>4. QED
    BY <2>1, <2>2, <2>3 DEF Next
<1>10. QED
  BY <1>9 DEF BackendTypes, Goal

-----------------------------------------------------------------------------
(* The invariant *)

LEMMA InitHolds ==
    ASSUME Init
    PROVE  Inv
<1> USE Numbers
<1>1. /\ \A o \in Ops : op[o] = Request("unsent", None, 0) /\ answer[o] = "none"
      /\ \A c \in Conns : /\ socket[c] = <<>> /\ holding[c] = 0
                          /\ pending[c] = {} /\ uncertain[c] = {}
      /\ \A d \in Daemons : line[d] = <<>>
      /\ adrift = {} /\ core = {}
  BY DEF Init
<1>2. Lost = {}
  BY <1>1 DEF Lost
<1>3. /\ \A c \in Conns : Written(c) = {} /\ Distinct(socket[c])
      /\ \A d \in Daemons : /\ ToSet(line[d]) = {} /\ Distinct(line[d]) /\ Listed(d) = {}
  BY <1>1 DEF Written, Listed, ToSet, Distinct
<1>4. \A o \in Ops : ~Moves(o) /\ op[o].kind = "unsent" /\ op[o].to = 0
  BY <1>1, <1>3 DEF Moves, Request
<1>5. "unsent" \notin Kinds /\ "unsent" \notin Creates
  BY DEF Kinds, Lifecycle, Creates, Known
<1>6. CodexTypeOK
  <2>1. DaemonTypes
    BY DEF Init, DaemonTypes
  <2>2. op \in [Ops -> Requests]
    BY DEF Init, Request, Requests
  <2>3. /\ stat \in [Conns -> {"off", "dial", "up", "end", "gone"}]
        /\ peer \in [Conns -> 0..MaxPid] /\ open \in [Conns -> BOOLEAN]
    BY DEF Init
  <2>4. /\ socket \in [Conns -> Seq(Ops)]
        /\ holding \in [Conns -> 0..MaxOps] /\ pending \in [Conns -> SUBSET Ops]
    BY DEF Init
  <2>5. /\ uncertain \in [Conns -> SUBSET [o : Ops, received : BOOLEAN]]
        /\ ack \in [Conns -> {"none", "running", "paused"}]
    BY DEF Init
  <2>6. paused \in BOOLEAN /\ fresh \in [Conns -> BOOLEAN]
    BY Zenon DEF Init
  <2>7. LauncherTypes
    <3>1. {selected, shown, target, asks} \subseteq Threads \cup {None} /\ events \in Seq(Threads)
      BY DEF Init
    <3>2. fault \in BOOLEAN
      BY Zenon DEF Init
    <3>3. /\ sup = "run" /\ how = "not" /\ fence = "ok" /\ cpeer = 0 /\ unread = {} /\ client = None
          /\ step = "none"
      BY DEF Init
    <3>4. QED
      BY <3>1, <3>2, <3>3 DEF LauncherTypes
  <2>8. BackendTypes
    BY DEF Init, BackendTypes
  <2>9. QED
    BY <2>1, <2>2, <2>3, <2>4, <2>5, <2>6, <2>7, <2>8, TypeParts DEF RelayTypes
<1>7. Alive
  <2>1. born = 1 /\ front = 1 /\ up = {1} /\ 1 \in Daemons
    BY DEF Init
  <2>2. \A c \in Conns : /\ peer[c] \in {0, 1} /\ (open[c] => peer[c] = 1)
                         /\ (stat[c] \in {"up", "end"} => peer[c] = 1)
    BY DEF Init
  <2>3. QED
    BY <1>1, <1>4, <2>1, <2>2 DEF Alive
<1>8. Gated
  <2>1. /\ paused = FALSE /\ sup = "run" /\ how = "not" /\ step = "none" /\ fault = FALSE
    BY DEF Init
  <2>2. Phased
    BY <2>1 DEF Phased
  <2>3. \A c \in Conns : (c = Main \/ stat[c] \in {"dial", "up", "end"}) => ack[c] = "running"
    BY DEF Init
  <2>4. QED
    BY <1>1, <2>2, <2>3 DEF Gated, GatedAt
<1>9. Followed
  BY DEF Init, Followed, Drained
<1>10. Placed
  BY <1>1, <1>3, <1>4 DEF Placed
<1>11. Booked
  BY <1>1 DEF Booked
<1>12. InOrder
  BY <1>1 DEF InOrder
<1>13. Marked
  BY <1>3 DEF Marked
<1>14. Unshared
  BY <1>4, <1>5 DEF Unshared
<1>15. Cleared
  BY DEF Init, Cleared
<1>16. Staged
  BY DEF Init, Staged
<1>17. QED
  BY <1>6, <1>7, <1>8, <1>9, <1>10, <1>11, <1>12, <1>13, <1>14, <1>15, <1>16 DEF Inv

LEMMA InvKept ==
    ASSUME Inv, [Next]_vars
    PROVE  Inv'
<1>1. /\ CodexTypeOK /\ Alive /\ Gated /\ Followed /\ Placed /\ Booked /\ InOrder /\ Marked
      /\ Unshared /\ Cleared /\ Staged
  BY DEF Inv
<1>2. DaemonStep \/ RelayStep \/ LaunchStep
  BY StepIs
<1>3. CodexTypeOK'
  <2>1. BackendTypes'
    BY <1>1, BackendsKeepTypes DEF Gated
  <2>2. DaemonTypes' /\ RelayTypes' /\ LauncherTypes'
    BY <1>1, <1>2, DaemonsKeepTypes, RelayKeepsTypes, LauncherKeepsTypes
  <2>3. QED
    BY <2>1, <2>2, TypeParts, PTL
<1>4. Gated'
  BY <1>1, <1>2, GatedKept
<1>5. Followed'
  BY <1>1, <1>2, FollowedKept
<1>6. Alive' /\ Placed' /\ Booked' /\ InOrder' /\ Marked'
  BY <1>1, <1>2, BooksKept DEF Kept1
<1>7. Unshared'
  BY <1>1, <1>2, UnsharedKept
<1>8. Cleared'
  BY <1>1, <1>2, <1>4, <1>6, ClearedKept
<1>9. Staged'
  BY <1>1, <1>2, <1>4, StagedKept
<1>10. QED
  BY <1>3, <1>4, <1>5, <1>6, <1>7, <1>8, <1>9 DEF Inv

\* What the relay, the launcher and the daemons keep together, at every step.
THEOREM Invariant == Spec => []Inv
<1>1. Init => Inv
  BY InitHolds
<1>2. Inv /\ [Next]_vars => Inv'
  BY InvKept
<1>3. QED
  BY <1>1, <1>2, PTL DEF Spec

-----------------------------------------------------------------------------
(* What it shows *)

\* Every variable of the daemons, the relay, the launcher and the backends keeps its type;
\* a request that is named has a thread and a daemon, one that is over has neither.
THEOREM CodexTypeCorrect == Spec => []CodexTypeOK
<1>1. Inv => CodexTypeOK
  BY DEF Inv
<1>2. QED
  BY <1>1, Invariant, PTL

\* After a clean exit, what a lost connection left uncertain is over on its daemon, however
\* many daemons and connections there have been: the fence of stop_after_quiescence covers
\* every request that may still be handled, but for the creations an explicit Kill accepts.
THEOREM NothingComesLate == Spec => []NothingIsLate
<1>1. ASSUME Inv PROVE NothingIsLate
  <2> SUFFICES ASSUME how = "clean", NEW o \in Ops, Late(o)
               PROVE  Explicit /\ op[o].kind = "internal"
    BY DEF NothingIsLate
  <2> USE Numbers
  <2>1. /\ DaemonTypes /\ Phased /\ Placed /\ Booked /\ Cleared
    BY <1>1, TypeParts DEF Inv, Gated
  <2>2. /\ \A c \in Conns : pending[c] = {}
        /\ Excused \/ \A u \in Lost : Settled(u)
    BY <2>1 DEF Phased, Cleared
  <2>3. op[o].to \in up /\ op[o].to \in Daemons
    <3>1. op[o].to \in up
      BY DEF Late
    <3>2. born \in 1..MaxPid /\ up \subseteq 1..born
      BY <2>1 DEF DaemonTypes
    <3>3. ASSUME NEW d \in up PROVE d \in Daemons
      BY <3>2
    <3>4. QED
      BY <3>1, <3>3
  <2>4. \/ Moves(o)
        \/ o \in core /\ \E u \in Lost : u.o = o
    BY <2>3 DEF Late, Moves, Written, Listed
  <2>5. PICK u \in Lost : u.o = o
    BY <2>1, <2>2, <2>4 DEF Placed
  <2>6. CASE Excused
    BY <2>5, <2>6 DEF Excused, OnlyInternal
  <2>7. CASE Settled(u)
    <3>1. op[o].kind \in Known /\ u.received /\ o \notin Listed(op[o].to)
      BY <2>3, <2>5, <2>7 DEF Settled
    <3>2. PICK c \in Conns : u \in uncertain[c]
      BY <2>5 DEF Lost
    <3>3. o \notin adrift
      BY <2>1, <2>5, <3>1, <3>2 DEF Booked
    <3>4. /\ \A e \in Conns : o \notin Written(e)
          /\ \A d \in Daemons : o \notin Listed(d)
      BY <2>1, <2>2, <3>1 DEF Placed
    <3>5. o \in core
      BY <2>4, <3>3, <3>4 DEF Moves
    <3>6. QED
      BY <2>1, <3>1, <3>5 DEF Booked, Known
  <2>8. QED
    BY <2>2, <2>5, <2>6, <2>7
<1>2. QED
  BY <1>1, Invariant, PTL

\* The clean exit of the launcher leaves the thread it showed at rest on the daemon it
\* cleaned, whatever steps of the cleanup failed and whatever turn began meanwhile.
THEOREM TheThreadRests == Spec => []ThreadIsAtRest
<1>1. Inv => ThreadIsAtRest
  BY DEF Inv, Staged, Rest, ThreadIsAtRest
<1>2. QED
  BY <1>1, Invariant, PTL

\* The cleanup is for the thread the last reply selected, however late the launcher hears
\* of the selections before it.
THEOREM TheShownIsCleaned == Spec => []CleansSelected
<1>1. Inv => CleansSelected
  BY DEF Inv, Followed, CleansSelected
<1>2. QED
  BY <1>1, Invariant, PTL
=============================================================================
