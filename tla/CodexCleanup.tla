---------------------------- MODULE CodexCleanup ----------------------------
(***************************************************************************)
(* How a Codex session in app-server mode is ended                         *)
(* (cm-core/src/agents/codex/app_server): the relay between the TUI and    *)
(* the host's shared daemon (relay.rs), the launcher that supervises both  *)
(* (lifecycle.rs), the cleanup it runs on the daemon (mod.rs), and the     *)
(* backends that ask for it (kill.rs, control.rs).  The daemon is shared   *)
(* and is never signalled: what ends is one thread's work.                 *)
(*                                                                         *)
(* The TUI is the relay's main connection, its resume picker an extra one. *)
(* A request is a number; where it is says how far it is: held by the      *)
(* relay, in a socket, adrift in the socket of a closed connection, in the *)
(* daemon's line, queued in its core, or answered.                         *)
(***************************************************************************)
EXTENDS Naturals, Sequences, FiniteSets, SequencesExt

CONSTANTS
    Threads,  \* conversations
    MaxOps,   \* bound: requests the TUI and its picker send
    MaxPid,   \* bound: daemons, one after another on the socket's path
    MaxEvents,\* bound: requests, pickers, successors, and what goes wrong
    Ordered,  \* those new enough for ordered thread reads
    Main,     \* the TUI's connection
    Extras,   \* connections of the resume picker
    Killers,  \* requests to remove the session
    Forcing,  \* those that may end it though the cleanup is refused
    None

ASSUME CodexCleanupAssumption ==
    /\ MaxOps \in Nat /\ MaxPid \in Nat \ {0} /\ MaxEvents \in Nat
    /\ Ordered \subseteq 1..MaxPid
    /\ Main \notin Extras /\ Forcing \subseteq Killers
    /\ None \notin Threads \cup Killers

Conns   == {Main} \cup Extras
Daemons == 1..MaxPid
Ops     == 1..MaxOps
Mark    == 0   \* the cleanup's own read in a daemon's line

VARIABLES
    \* the daemons
    born,      \* how many there have been
    front,     \* the one at the socket's path, 0 if none
    up,        \* those that run
    loaded, active, goals, terms,  \* <<daemon, thread>>: its runtime, its turn,
               \* its goal that starts turns, its background terminals
    line,      \* requests admitted and not yet handled, in order
    core,      \* handled requests whose work is only enqueued
    answer,    \* the reply to a request on its way: "none", "ok" or "err"
    adrift,    \* unread in the socket of a connection the relay closed
    \* the relay
    op,        \* [kind, thread, to]: the requests; "unsent" and "over" are kinds
    stat,      \* a connection: "off", "dial", "up", "end" or "gone"
    peer,      \* its daemon
    open,      \* the daemon's side of it is open
    socket,    \* written and unread
    holding,   \* read from the client and not yet written
    pending,   \* InputGate::pending
    uncertain, \* InputGate::uncertain: [o |-> request, received |-> BOOLEAN]
    ack,       \* its InputState: "none", "running" or "paused"
    paused,    \* input_paused
    fresh,     \* it has not seen that change
    \* the launcher
    sup,       \* "run", "pausing", "cleaning", "unpausing" or "exited"
    child,     \* the TUI: "live" or "reaped"
    events,    \* threads selected, not yet observed
    selected,  \* state.session_id
    shown,     \* the last thread a reply to the TUI selected
    fence,     \* what the pause gave: "ok" or "unsettled"
    target,    \* the thread the cleanup was started for
    client,    \* the request the cleanup answers
    step,      \* where the cleanup is, or why it failed
    cpeer,     \* the daemon it speaks to
    unread,    \* threads still to be read
    asks,      \* the thread of the outstanding read
    fault,     \* a step failed that does not stop the cleanup
    how,       \* how the launcher exited: "not", "clean" or "forced"
    \* the backends
    inbox,     \* <<killer, request>>: not yet taken by the launcher
    killer,    \* where a removal is: "idle", its last request, or what it came to
    troubles   \* how often something went wrong

daemonVars == <<born, front, up, loaded, active, goals, terms>>
workVars   == <<line, core, answer, adrift>>
linkVars   == <<stat, peer, open, socket, holding>>
gateVars   == <<pending, uncertain, ack>>
pauseVars  == <<paused, fresh>>
rowVars    == <<events, selected, shown>>
cleanVars  == <<fence, target, client, step, cpeer, unread, asks, fault>>
askVars    == <<inbox, killer>>
vars == <<daemonVars, workVars, op, linkVars, gateVars, pauseVars, rowVars, cleanVars,
          sup, child, how, askVars, troubles>>

(* One budget for what makes behaviours differ.                             *)
Sent      == {o \in Ops : op[o].kind # "unsent"}
Events    == troubles + (born - 1) + Cardinality(Sent) + Cardinality({c \in Extras : stat[c] # "off"})
Eventful  == Events < MaxEvents

Request(kind, t, d) == [kind |-> kind, thread |-> t, to |-> d]

(* The TUI starts, or has just resumed its first thread.                    *)
Init ==
    /\ born = 1 /\ front = 1 /\ up = {1}
    /\ selected \in Threads \cup {None} /\ shown = selected
    /\ loaded = {<<1, t>> : t \in {selected} \cap Threads}
    /\ active = {} /\ goals = {} /\ terms = {}
    /\ line = [d \in Daemons |-> <<>>] /\ core = {} /\ adrift = {}
    /\ answer = [o \in Ops |-> "none"]
    /\ op = [o \in Ops |-> Request("unsent", None, 0)]
    /\ LET begun == selected # None
       IN  /\ stat = [c \in Conns |-> IF c = Main /\ begun THEN "up" ELSE "off"]
           /\ peer = [c \in Conns |-> IF c = Main /\ begun THEN 1 ELSE 0]
           /\ open = [c \in Conns |-> c = Main /\ begun]
    /\ socket = [c \in Conns |-> <<>>] /\ holding = [c \in Conns |-> 0]
    /\ pending = [c \in Conns |-> {}] /\ uncertain = [c \in Conns |-> {}]
    /\ ack = [c \in Conns |-> IF c = Main THEN "running" ELSE "none"]
    /\ paused = FALSE /\ fresh = [c \in Conns |-> FALSE]
    /\ events = <<>>
    /\ fence = "ok" /\ target = None /\ client = None /\ step = "none" /\ cpeer = 0
    /\ unread = {} /\ asks = None /\ fault = FALSE
    /\ sup = "run" /\ child = "live" /\ how = "not"
    /\ inbox = {} /\ killer = [k \in Killers |-> "idle"]
    /\ troubles = 0
-----------------------------------------------------------------------------
(* Requests.                                                                *)

Creates   == {"create", "internal"}        \* thread/start of a user, of a helper
Lifecycle == Creates \cup {"resume"}       \* their replies select a thread
Known     == {"resume", "turn"}            \* name their thread, done when answered
Kinds     == Lifecycle \cup Known \cup {"compact"}

Lost == UNION {uncertain[c] : c \in Conns}

(* only_internal_creations                                                  *)
OnlyInternal == Lost # {} /\ \A u \in Lost : op[u.o].kind = "internal"

(* threads_to_fence: what a dead daemon was asked is over; an ordered read  *)
(* settles what daemon d has received, if the thread is named.              *)
Unfinished     == {u \in Lost : op[u.o].to \in up}
Fencible_Unreceived(d) == \A u \in Unfinished : op[u.o].to = d /\ op[u.o].kind \in Known
Fencible(d)    == \A u \in Unfinished : u.received /\ op[u.o].to = d /\ op[u.o].kind \in Known
ThreadsToFence == {op[u.o].thread : u \in Unfinished}
-----------------------------------------------------------------------------
(* The daemons: external.  A request waits for those admitted before it on  *)
(* its thread, from whatever connection.                                    *)

ThreadOf(x)   == IF x = Mark THEN asks ELSE op[x].thread
Turn(d, i)    == \A j \in 1..(i - 1) : ThreadOf(line[d][j]) # ThreadOf(line[d][i])
Without(d, i) == [line EXCEPT ![d] = RemoveAt(@, i)]

(* The cleanup's read is withdrawn: there is one at a time.                 *)
Unmarked(s) ==
    IF \E i \in DOMAIN s : s[i] = Mark
    THEN RemoveAt(s, CHOOSE i \in DOMAIN s : s[i] = Mark) ELSE s

(* The replies on its way to C are lost.                                    *)
Unanswered(C) == [o \in Ops |-> IF \E c \in C : o \in pending[c] THEN "none" ELSE answer[o]]

Admit(c) ==
    /\ open[c] /\ socket[c] # <<>>
    /\ line' = [line EXCEPT ![peer[c]] = Append(@, Head(socket[c]))]
    /\ socket' = [socket EXCEPT ![c] = Tail(@)]
    /\ UNCHANGED <<daemonVars, core, answer, adrift, op, stat, peer, open, holding, gateVars,
                   pauseVars, rowVars, cleanVars, sup, child, how, askVars>>

AdmitAdrift(o) ==
    /\ o \in adrift
    /\ line' = [line EXCEPT ![op[o].to] = Append(@, o)]
    /\ adrift' = adrift \ {o}
    /\ UNCHANGED <<daemonVars, core, answer, op, linkVars, gateVars, pauseVars, rowVars,
                   cleanVars, sup, child, how, askVars>>

Able(d, o) == op[o].kind \in Lifecycle \/ <<d, op[o].thread>> \in loaded

Handle(d, i, done) ==
    LET o == line[d][i]
        dt == <<d, op[o].thread>>
        kind == op[o].kind
    IN  /\ o # Mark /\ Turn(d, i)
        /\ line' = Without(d, i)
        /\ answer' = IF \E c \in Conns : open[c] /\ o \in pending[c]
                     THEN [answer EXCEPT ![o] = IF done THEN "ok" ELSE "err"] ELSE answer
        /\ loaded' = IF done /\ kind \in Lifecycle THEN loaded \cup {dt} ELSE loaded
        /\ IF done /\ kind = "turn"
           THEN \/ active' = active \cup {dt} /\ UNCHANGED goals
                \/ goals' = goals \cup {dt} /\ UNCHANGED active
           ELSE UNCHANGED <<active, goals>>
        /\ core'   = IF done /\ kind = "compact" THEN core \cup {o} ELSE core
        /\ UNCHANGED <<born, front, up, terms, adrift, op, linkVars, gateVars, pauseVars, rowVars,
                       cleanVars, sup, child, how, askVars>>

CoreRuns(o) ==
    /\ o \in core
    /\ core' = core \ {o}
    /\ active' = active \cup ({<<op[o].to, op[o].thread>>} \cap loaded)
    /\ UNCHANGED <<born, front, up, loaded, goals, terms, line, answer, adrift, op, linkVars,
                   gateVars, pauseVars, rowVars, cleanVars, sup, child, how, askVars>>

(* A turn ends, a goal starts the next, a turn leaves a terminal running,   *)
(* an idle thread is unloaded.                                              *)
ThreadMoves(dt) ==
    /\ dt \in loaded
    /\ \/ dt \in active /\ active' = active \ {dt} /\ UNCHANGED <<loaded, terms>>
       \/ dt \in goals \ active /\ active' = active \cup {dt} /\ UNCHANGED <<loaded, terms>>
       \/ dt \in active \ terms /\ terms' = terms \cup {dt} /\ UNCHANGED <<loaded, active>>
       \/ /\ dt \notin active \cup goals \cup terms
          /\ loaded' = loaded \ {dt} /\ UNCHANGED <<active, terms>>
    /\ UNCHANGED <<born, front, up, goals, workVars, op, linkVars, gateVars, pauseVars, rowVars,
                   cleanVars, sup, child, how, askVars>>

Of(d) == {d} \X Threads

Dies(d) ==
    /\ d \in up
    /\ up' = up \ {d}
    /\ front' = IF front = d THEN 0 ELSE front
    /\ loaded' = loaded \ Of(d) /\ active' = active \ Of(d)
    /\ goals' = goals \ Of(d) /\ terms' = terms \ Of(d)
    /\ line' = [line EXCEPT ![d] = <<>>]
    /\ core' = {o \in core : op[o].to # d} /\ adrift' = {o \in adrift : op[o].to # d}
    /\ open' = [c \in Conns |-> open[c] /\ peer[c] # d]
    /\ socket' = [c \in Conns |-> IF peer[c] = d THEN <<>> ELSE socket[c]]
    /\ answer' = Unanswered({c \in Conns : peer[c] = d})
    /\ UNCHANGED <<born, op, stat, peer, holding, gateVars, pauseVars, rowVars, cleanVars,
                   sup, child, how, askVars>>

(* A successor takes the path; the one before it may still run.             *)
Starts ==
    /\ born < MaxPid /\ Eventful
    /\ born' = born + 1 /\ up' = up \cup {born'} /\ front' = born'
    /\ UNCHANGED <<loaded, active, goals, terms, workVars, op, linkVars, gateVars, pauseVars,
                   rowVars, cleanVars, sup, child, how, askVars>>

(* It closes one connection: what it has not read is dropped.               *)
Closes(c) ==
    /\ open[c]
    /\ open' = [open EXCEPT ![c] = FALSE]
    /\ socket' = [socket EXCEPT ![c] = <<>>]
    /\ answer' = Unanswered({c})
    /\ UNCHANGED <<daemonVars, line, core, adrift, op, stat, peer, holding, gateVars, pauseVars,
                   rowVars, cleanVars, sup, child, how, askVars>>
-----------------------------------------------------------------------------
(* The relay.                                                               *)

relayAlone == <<daemonVars, rowVars, cleanVars, sup, child, how, askVars>>

InputState(p) == IF ~paused \/ p # {} THEN "running" ELSE "paused"

(* What pause_input waits for: every connection that still has an entry.    *)
Running == \E c \in Conns : ack[c] = "running"

(* A change of input_paused is taken before anything else is.               *)
Acknowledge(c) ==
    /\ fresh[c] /\ holding[c] = 0
    /\ stat[c] = "up" \/ (c = Main /\ stat[c] = "off")
    /\ fresh' = [fresh EXCEPT ![c] = FALSE]
    /\ ack' = [ack EXCEPT ![c] = InputState(pending[c])]
    /\ UNCHANGED <<relayAlone, workVars, op, linkVars, pending, uncertain, paused>>

(* The main connection is whoever comes when there is none.                 *)
Accept ==
    /\ stat[Main] = "off" /\ child = "live" /\ ~fresh[Main]
    /\ stat' = [stat EXCEPT ![Main] = "dial"]
    /\ UNCHANGED <<relayAlone, workVars, op, peer, open, socket, holding, gateVars, pauseVars>>

AcceptExtra(c) ==
    /\ stat[c] = "off" /\ child = "live" /\ Eventful
    /\ stat[Main] = "up" /\ ~fresh[Main] /\ holding[Main] = 0
    /\ stat' = [stat EXCEPT ![c] = "dial"]
    /\ ack' = [ack EXCEPT ![c] = "running"]
    /\ UNCHANGED <<relayAlone, workVars, op, peer, open, socket, holding, pending, uncertain,
                   pauseVars>>

Dialled(c) ==
    /\ stat[c] = "dial" /\ front # 0
    /\ stat' = [stat EXCEPT ![c] = "up"]
    /\ peer' = [peer EXCEPT ![c] = front]
    /\ open' = [open EXCEPT ![c] = TRUE]
    /\ ack' = IF c = Main THEN ack ELSE [ack EXCEPT ![c] = InputState({})]
    /\ UNCHANGED <<relayAlone, workVars, op, socket, holding, pending, uncertain, pauseVars>>

(* The TUI's retry is a connection of its own; an extra one is over.        *)
Over(c) == IF c = Main THEN "off" ELSE "gone"

DialFails(c) ==
    /\ stat[c] = "dial"
    /\ stat' = [stat EXCEPT ![c] = Over(c)]
    /\ ack' = [ack EXCEPT ![c] = IF c = Main THEN InputState({}) ELSE "none"]
    /\ UNCHANGED <<relayAlone, workVars, op, peer, open, socket, holding, pending, uncertain,
                   pauseVars>>

(* A thread that may be created.                                            *)
Unheard(t) == /\ t \notin {selected, shown} /\ \A o \in Ops : op[o].thread # t
              /\ \A d \in Daemons : <<d, t>> \notin loaded

(* A thread is named once its creation has been handled.                    *)
Underway == adrift \cup (UNION {ToSet(socket[c]) \cup {holding[c]} : c \in Conns})
                   \cup (UNION {ToSet(line[d]) : d \in Daemons})
Unborn   == {op[o].thread : o \in {p \in Ops \cap Underway : op[p].kind \in Creates}}

(* The gate counts a request before it is written.                          *)
Write(c, o) ==
    /\ pending' = [pending EXCEPT ![c] = @ \cup {o}]
    /\ IF open[c]
       THEN socket' = [socket EXCEPT ![c] = Append(@, o)] /\ UNCHANGED stat
       ELSE /\ stat' \in {stat, [stat EXCEPT ![c] = "end"]}
            /\ UNCHANGED socket
    /\ UNCHANGED <<relayAlone, workVars, peer, open, uncertain, ack, pauseVars>>

(* These wait for the environment before they are written.                  *)
Prepared == {"create", "resume"}

(* A frame is read while input is not paused, though its writer may be dead. *)
Take(c) ==
    /\ stat[c] = "up" /\ holding[c] = 0
    /\ ~fresh[c] /\ ~paused /\ Eventful
    /\ \E o \in Ops, kind \in Kinds, t \in Threads :
          /\ op[o].kind = "unsent" /\ \A p \in 1..(o - 1) : op[p].kind # "unsent"
          /\ kind \in Creates => Unheard(t)
          /\ kind \in {"turn", "compact"} => t = shown
          /\ kind = "resume" => t \notin Unborn
          /\ op' = [op EXCEPT ![o] = Request(kind, t, peer[c])]
          /\ IF kind \in Prepared
             THEN /\ holding' = [holding EXCEPT ![c] = o]
                  /\ UNCHANGED <<relayAlone, workVars, stat, peer, open, socket, gateVars,
                                 pauseVars>>
             ELSE Write(c, o) /\ UNCHANGED holding

Done(O) == [o \in Ops |-> IF o \in O THEN Request("over", None, 0) ELSE op[o]]

(* prepare_environment gives up when cleanup begins, and so has seen that.  *)
Refuse(c) ==
    /\ holding[c] # 0 /\ paused
    /\ holding' = [holding EXCEPT ![c] = 0]
    /\ fresh' = [fresh EXCEPT ![c] = FALSE]
    /\ ack' = IF c = Main THEN [ack EXCEPT ![c] = InputState(pending[c])] ELSE ack
    /\ op' = Done({holding[c]})
    /\ UNCHANGED <<relayAlone, workVars, stat, peer, open, socket, pending, uncertain, paused>>

Forward(c) ==
    /\ holding[c] # 0
    /\ Write(c, holding[c])
    /\ holding' = [holding EXCEPT ![c] = 0]
    /\ UNCHANGED op

(* The observation is sent before the gate is told.                         *)
Replied(c, o) ==
    LET selects == answer[o] = "ok" /\ op[o].kind \in Lifecycle
        settled == {u \in uncertain[c] : /\ u.received /\ op[u.o].to = peer[c]
                                         /\ op[u.o].kind \in Known
                                         /\ op[u.o].thread = op[o].thread}
    IN  /\ stat[c] \in {"up", "end"} /\ holding[c] = 0 /\ open[c]
        /\ o \in pending[c] /\ answer[o] # "none"
        /\ pending' = [pending EXCEPT ![c] = @ \ {o}]
        /\ uncertain' = IF selects THEN [uncertain EXCEPT ![c] = @ \ settled] ELSE uncertain
        /\ op' = Done({p \in {o} \cup {u.o : u \in uncertain[c] \ uncertain'[c]} :
                            op[p].kind # "compact"})
        /\ answer' = [answer EXCEPT ![o] = "none"]
        /\ ack' = [ack EXCEPT ![c] = InputState(pending'[c])]
        /\ IF c = Main /\ selects /\ op[o].kind # "internal"
           THEN events' = Append(events, op[o].thread) /\ shown' = op[o].thread
           ELSE UNCHANGED <<events, shown>>
        /\ UNCHANGED <<daemonVars, line, core, adrift, linkVars, pauseVars, selected, cleanVars,
                       sup, child, how, askVars>>

(* The end of a connection: requests without a reply are uncertain.  Bytes  *)
(* the relay has written stay where the daemon can read them.               *)
Finish(c, received) ==
    /\ uncertain' = [uncertain EXCEPT ![c] =
                        @ \cup {[o |-> o, received |-> received] : o \in pending[c]}]
    /\ pending' = [pending EXCEPT ![c] = {}]
    /\ ack' = [ack EXCEPT ![c] = IF c = Main THEN InputState({})
                                 ELSE IF uncertain'[c] = {} THEN "none" ELSE "paused"]
    /\ stat' = [stat EXCEPT ![c] = Over(c)]
    /\ open' = [open EXCEPT ![c] = FALSE] /\ peer' = [peer EXCEPT ![c] = 0]
    /\ socket' = [socket EXCEPT ![c] = <<>>]
    /\ adrift' = adrift \cup ToSet(socket[c])
    /\ answer' = Unanswered({c})
    /\ UNCHANGED <<relayAlone, line, core, op, holding, pauseVars>>

(* The client leaves, or the daemon has closed.                             *)
Break(c) ==
    /\ stat[c] = "up" /\ holding[c] = 0
    /\ \/ (~open[c] \/ pending[c] = {}) /\ Finish(c, TRUE)
       \/ /\ pending[c] # {}
          /\ stat' = [stat EXCEPT ![c] = "end"]
          /\ UNCHANGED <<relayAlone, workVars, op, peer, open, socket, holding, gateVars, pauseVars>>

(* receive_pending: the Pong follows all that was written.                  *)
Receipt(c) ==
    /\ stat[c] = "end"
    /\ socket[c] = <<>>
    /\ Finish(c, TRUE)

NoReceipt(c) ==
    /\ stat[c] = "end"
    /\ Finish(c, FALSE)
-----------------------------------------------------------------------------
(* The launcher.                                                            *)

launchAlone == <<daemonVars, workVars, op, linkVars, gateVars, askVars>>

Drained_Queued == selected
Drained == IF events = <<>> THEN selected ELSE Last(events)

Observe ==
    /\ events # <<>> /\ sup # "exited"
    /\ selected' = Head(events) /\ events' = Tail(events)
    /\ UNCHANGED <<launchAlone, pauseVars, shown, cleanVars, sup, child, how>>

Pause(p) ==
    /\ paused' = p
    /\ fresh' = [c \in Conns |-> c = Main \/ stat[c] \in {"dial", "up", "end"}]

BeginStop(request) ==
    /\ sup = "run"
    /\ sup' = "pausing" /\ client' = request
    /\ Pause(TRUE)
    /\ UNCHANGED <<daemonVars, workVars, op, linkVars, gateVars, rowVars, fence, target, step,
                   cpeer, unread, asks, fault, how>>

(* The TUI ends by itself; while input is fenced nothing tells when.        *)
ChildExits ==
    /\ child = "live" /\ child' = "reaped"
    /\ \/ BeginStop(None) /\ UNCHANGED askVars
       \/ sup = "cleaning" /\ UNCHANGED <<launchAlone, pauseVars, rowVars, cleanVars, sup, how>>

StopAsked(request) ==
    /\ request \in inbox /\ request[2] # "force"
    /\ inbox' = inbox \ {request}
    /\ BeginStop(request)
    /\ UNCHANGED <<child, killer>>

(* quiesce(true) ends: what the relay has observed is adopted first.        *)
Adopt == selected' = Drained /\ events' = <<>>

Fenced ==
    /\ sup = "pausing" /\ ~Running
    /\ fence' = IF Lost = {} THEN "ok" ELSE "unsettled"
    /\ Adopt /\ target' = Drained
    /\ sup' = "cleaning"
    /\ step' = IF Drained = None /\ Lost = {} THEN "done" ELSE "connect"
    /\ UNCHANGED <<launchAlone, pauseVars, shown, client, cpeer, unread, asks, fault,
                   child, how>>
-----------------------------------------------------------------------------
(* stop_after_quiescence, one step per answer of the daemon it speaks to.   *)

cleanAlone == <<op, linkVars, gateVars, pauseVars, rowVars, askVars, child, how>>

Explicit == client # None /\ client[2] = "kill"
Here == <<cpeer, target>>

(* force_removal_reason: what a failure says of the daemon.                 *)
Either    == {"denied", "unreachable"}
Unsettled == IF OnlyInternal THEN {"internal"} ELSE Either

Forgotten ==
    /\ fence' = "ok" /\ target' = None /\ cpeer' = 0
    /\ unread' = {} /\ asks' = None /\ fault' = FALSE

(* The fence is given up before anybody is told, if anybody asked.          *)
Fail(hints) ==
    /\ IF client = None THEN sup' = "run" /\ step' = "none"
                        ELSE sup' = "unpausing" /\ step' \in hints
    /\ line' = [d \in Daemons |-> Unmarked(line[d])]
    /\ Pause(FALSE) /\ Forgotten
    /\ UNCHANGED <<daemonVars, core, answer, adrift, op, linkVars, gateVars, client, child, how,
                   askVars>>

(* Not fenced in time: nothing is cleaned.                                  *)
FenceTimesOut ==
    /\ sup = "pausing" /\ Running
    /\ Fail(Either)
    /\ Adopt /\ UNCHANGED shown

ToFence(reads) == IF reads # {} THEN "fence" ELSE IF target = None THEN "done" ELSE "goal"

Connect ==
    /\ sup = "cleaning" /\ step = "connect" /\ front # 0
    /\ LET excused == fence = "ok" \/ (fence = "unsettled" /\ Explicit /\ OnlyInternal)
           reads == IF excused THEN {} ELSE ThreadsToFence
       IN  IF ~excused /\ (~Fencible(front) \/ (reads # {} /\ front \notin Ordered))
           THEN Fail(Unsettled) /\ UNCHANGED rowVars
           ELSE /\ cpeer' = front /\ unread' = reads
                /\ step' = ToFence(reads)
                /\ UNCHANGED <<daemonVars, workVars, cleanAlone, fence, target, client, asks,
                               fault, sup>>

(* An ordered read joins the line of its thread.                            *)
Read(t) ==
    /\ asks' = t
    /\ line' = [line EXCEPT ![cpeer] = Append(@, Mark)]
    /\ UNCHANGED <<daemonVars, core, answer, adrift, cleanAlone, fence, target, client, cpeer,
                   unread, fault, sup>>

ReadLost ==
    /\ sup = "cleaning" /\ step = "fence" /\ cpeer \in up
    /\ \E t \in unread : Read(t)
    /\ step' = "fencing"

Reached(i) == sup = "cleaning" /\ cpeer \in up /\ line[cpeer][i] = Mark /\ Turn(cpeer, i)

Answered(i) ==
    /\ asks' = None
    /\ line' = Without(cpeer, i)
    /\ UNCHANGED <<daemonVars, core, answer, adrift, cleanAlone, fence, target, client, cpeer,
                   fault, sup>>

(* A lost request may have left a turn on a thread that is not cleaned.     *)
FenceAnswered ==
    /\ step = "fencing"
    /\ \E i \in DOMAIN line[cpeer] :
          /\ Reached(i)
          /\ IF <<cpeer, asks>> \in loaded /\ asks # target
             THEN Fail(Unsettled) /\ UNCHANGED rowVars
             ELSE /\ Answered(i)
                  /\ unread' = unread \ {asks}
                  /\ step' = ToFence(unread')

CleanStep(from, to) ==
    /\ sup = "cleaning" /\ step = from /\ step' = to
    /\ cpeer \in up
    /\ UNCHANGED <<cleanAlone, sup, workVars, born, front, up, fence, target, client, cpeer,
                   unread, asks>>

(* The goal is paused before the turn is ended, or it would start another.  *)
PauseGoal ==
    /\ CleanStep("goal", "turns")
    /\ goals' = goals \ {Here}
    /\ UNCHANGED <<loaded, active, terms, fault>>

PauseGoalFails ==
    /\ CleanStep("goal", "turns")
    /\ fault' = TRUE
    /\ UNCHANGED <<loaded, active, goals, terms>>

ListTurns ==
    /\ CleanStep("turns", IF Here \in active THEN "interrupt" ELSE "terminals")
    /\ UNCHANGED <<loaded, active, goals, terms, fault>>

(* The turn that was observed last, if one was, is interrupted.             *)
ListTurnsFails ==
    /\ \E to \in {"interrupt", "terminals"} : CleanStep("turns", to)
    /\ fault' = TRUE
    /\ UNCHANGED <<loaded, active, goals, terms>>

Interrupt ==
    /\ CleanStep("interrupt", "terminals")
    /\ Here \in active /\ active' = active \ {Here}
    /\ UNCHANGED <<loaded, goals, terms, fault>>

(* The turn has ended by itself, for one.                                   *)
InterruptFails ==
    /\ CleanStep("interrupt", "terminals")
    /\ fault' = TRUE
    /\ UNCHANGED <<loaded, active, goals, terms>>

(* An older daemon only enqueues this.                                      *)
EndTerminals ==
    /\ \/ cpeer \in Ordered /\ terms' = terms \ {Here}
       \/ cpeer \notin Ordered /\ terms' \in {terms, terms \ {Here}}
    /\ CleanStep("terminals", IF fault THEN "absent"
                              ELSE IF cpeer \in Ordered THEN "verify" ELSE "done")
    /\ UNCHANGED <<loaded, active, goals, fault>>

TerminalsFail ==
    /\ CleanStep("terminals", "absent")
    /\ UNCHANGED <<loaded, active, goals, terms, fault>>

InventoryRead_Unread ==
    /\ CleanStep("absent", "done")
    /\ UNCHANGED <<loaded, active, goals, terms, fault>>

(* A thread that is not loaded runs nothing, whatever failed.               *)
InventoryRead ==
    /\ step = "absent" /\ Here \notin loaded
    /\ CleanStep("absent", "done")
    /\ UNCHANGED <<loaded, active, goals, terms, fault>>

Verify ==
    /\ sup = "cleaning" /\ step = "verify" /\ cpeer \in up
    /\ Read(target)
    /\ step' = "verifying"

VerifyAnswered ==
    /\ step = "verifying"
    /\ \E i \in DOMAIN line[cpeer] :
          /\ Reached(i)
          /\ IF Here \in active
             THEN Fail(Either) /\ UNCHANGED rowVars
             ELSE /\ Answered(i)
                  /\ step' = IF Here \in loaded THEN "list" ELSE "done"
                  /\ UNCHANGED unread

(* A terminal opened meanwhile is waited for, within the deadline.          *)
TerminalsListed ==
    /\ CleanStep("list", IF Here \in terms THEN "verify" ELSE "done")
    /\ UNCHANGED <<loaded, active, goals, terms, fault>>

(* No daemon, a connection that ends, a deadline, an error that is final.   *)
CleanupFails ==
    /\ sup = "cleaning" /\ step # "done"
    /\ Fail(Either)
    /\ UNCHANGED rowVars
-----------------------------------------------------------------------------
(* The backends and what they are told.                                     *)

(* kill: what a removal asks next.  The first Stop is always strict.        *)
Retry(k, asked, hint) ==
    CASE k \in Forcing /\ hint = "internal" /\ asked = "stop" -> "kill"
      [] k \in Forcing /\ hint = "unreachable"               -> "force"
      [] OTHER                                                -> "failed"

Tell(request, hint) ==
    LET k == request[1]
        next == Retry(k, request[2], hint)
    IN  /\ killer' = [killer EXCEPT ![k] = next]
        /\ inbox' = (inbox \ {request}) \cup ({<<k, next>>} \cap (Killers \X {"kill", "force"}))

Ask(k) ==
    /\ killer[k] = "idle" /\ sup # "exited"
    /\ killer' = [killer EXCEPT ![k] = "stop"]
    /\ inbox' = inbox \cup {<<k, "stop">>}
    /\ UNCHANGED <<daemonVars, workVars, op, linkVars, gateVars, pauseVars, rowVars, cleanVars,
                   sup, child, how>>

(* A second request while a cleanup runs.                                   *)
Busy(request) ==
    /\ request \in inbox /\ request[2] # "force" /\ sup = "cleaning"
    /\ Tell(request, "denied")
    /\ UNCHANGED <<daemonVars, workVars, op, linkVars, gateVars, pauseVars, rowVars, cleanVars,
                   sup, child, how>>

Rejected ==
    /\ sup = "unpausing" /\ sup' = "run"
    /\ Tell(client, step)
    /\ client' = None /\ step' = "none"
    /\ UNCHANGED <<daemonVars, workVars, op, linkVars, gateVars, pauseVars, rowVars, fence,
                   target, cpeer, unread, asks, fault, child, how>>

(* The launcher ends, and its relay with it; `told` is who hears so.        *)
Exit(h, told, outcome) ==
    /\ sup' = "exited" /\ how' = h /\ child' = "reaped"
    /\ stat' = [c \in Conns |-> "gone"]
    /\ open' = [c \in Conns |-> FALSE]
    /\ socket' = [c \in Conns |-> <<>>]
    /\ holding' = [c \in Conns |-> 0]
    /\ adrift' = adrift \cup UNION {ToSet(socket[c]) : c \in Conns}
    /\ line' = [d \in Daemons |-> Unmarked(line[d])]
    /\ killer' = [k \in Killers |->
                    IF k = told THEN outcome
                    ELSE CASE killer[k] \in {"stop", "kill"} -> "failed"
                           [] killer[k] = "force"           -> "forced"
                           [] OTHER                         -> killer[k]]
    /\ inbox' = {}
    /\ UNCHANGED <<daemonVars, core, answer, op, peer, gateVars, pauseVars, rowVars, cleanVars>>

Heard == IF client = None THEN None ELSE client[1]

Succeeded ==
    /\ sup = "cleaning" /\ step = "done"
    /\ Exit("clean", Heard, "signalled")

(* The TUI is reaped, or both are signalled if the launcher does not answer. *)
ForceStopped(k) ==
    /\ sup # "exited" /\ <<k, "force">> \in inbox
    /\ Exit("forced", k, "forced")
-----------------------------------------------------------------------------
(* What goes right, and what goes wrong: a daemon or a connection ends,     *)
(* a deadline passes, a request is refused.                                 *)
Daemon ==
    \/ \E c \in Conns : Admit(c)
    \/ \E o \in Ops : AdmitAdrift(o) \/ CoreRuns(o)
    \/ \E d \in Daemons : \E i \in DOMAIN line[d] : Handle(d, i, Able(d, line[d][i]))
    \/ Starts

Relay ==
    \/ Accept
    \/ \E c \in Extras : AcceptExtra(c)
    \/ \E c \in Conns : \/ Acknowledge(c) \/ Dialled(c)
                        \/ Take(c) \/ Refuse(c) \/ Forward(c)
                        \/ Break(c) \/ Receipt(c)
                        \/ \E o \in Ops : Replied(c, o)

Cleanup ==
    \/ Connect \/ ReadLost \/ FenceAnswered
    \/ PauseGoal \/ ListTurns \/ Interrupt \/ EndTerminals
    \/ InventoryRead \/ Verify \/ VerifyAnswered \/ TerminalsListed

Launcher ==
    \/ Observe
    \/ Fenced
    \/ Cleanup \/ Rejected \/ Succeeded
    \/ \E request \in inbox : StopAsked(request) \/ Busy(request)
    \/ \E k \in Killers : ForceStopped(k)

Trouble ==
    \/ \E dt \in Daemons \X Threads : ThreadMoves(dt)
    \/ \E d \in Daemons : \/ Dies(d)
                          \/ \E i \in DOMAIN line[d] : Handle(d, i, FALSE) /\ Able(d, line[d][i])
    \/ \E c \in Conns : Closes(c) \/ DialFails(c) \/ NoReceipt(c)
    \/ FenceTimesOut
    \/ PauseGoalFails \/ ListTurnsFails \/ InterruptFails \/ TerminalsFail
    \/ CleanupFails

Next ==
    \/ /\ how # "forced"
       /\ \/ Daemon \/ Relay \/ Launcher \/ ChildExits
          \/ \E k \in Killers : Ask(k)
       /\ UNCHANGED troubles
    \/ Trouble /\ how # "forced" /\ Eventful /\ troubles' = troubles + 1

Spec == Init /\ [][Next]_vars

-----------------------------------------------------------------------------
CodexTypeOK ==
    /\ born \in Daemons /\ front \in 0..MaxPid /\ up \subseteq 1..born
    /\ loaded \subseteq Daemons \X Threads /\ active \subseteq loaded
    /\ goals \subseteq Daemons \X Threads /\ terms \subseteq loaded
    /\ line \in [Daemons -> Seq(Ops \cup {Mark})]
    /\ core \subseteq Ops /\ adrift \subseteq Ops
    /\ answer \in [Ops -> {"none", "ok", "err"}]
    /\ op \in [Ops -> [kind : {"unsent", "over"}, thread : {None}, to : {0}]
                      \cup [kind : Kinds, thread : Threads, to : Daemons]]
    /\ stat \in [Conns -> {"off", "dial", "up", "end", "gone"}]
    /\ peer \in [Conns -> 0..MaxPid] /\ open \in [Conns -> BOOLEAN]
    /\ socket \in [Conns -> Seq(Ops)]
    /\ holding \in [Conns -> 0..MaxOps] /\ pending \in [Conns -> SUBSET Ops]
    /\ uncertain \in [Conns -> SUBSET [o : Ops, received : BOOLEAN]]
    /\ ack \in [Conns -> {"none", "running", "paused"}]
    /\ paused \in BOOLEAN /\ fresh \in [Conns -> BOOLEAN]
    /\ sup \in {"run", "pausing", "cleaning", "unpausing", "exited"}
    /\ child \in {"live", "reaped"} /\ how \in {"not", "clean", "forced"}
    /\ events \in Seq(Threads) /\ {selected, shown, target, asks} \subseteq Threads \cup {None}
    /\ fence \in {"ok", "unsettled"} /\ cpeer \in 0..MaxPid /\ unread \subseteq Threads
    /\ step \in {"none", "connect", "fence", "fencing", "goal", "turns", "interrupt", "terminals",
                 "absent", "verify", "verifying", "list", "done"} \cup {"internal"} \cup Either
    /\ fault \in BOOLEAN
    /\ client \in {None} \cup (Killers \X {"stop", "kill"})
    /\ inbox \subseteq Killers \X {"stop", "kill", "force"}
    /\ killer \in [Killers -> {"idle", "stop", "kill", "force", "signalled", "forced", "failed"}]
    /\ troubles \in Nat

(* A request that may still start something on a daemon that runs.          *)
Late(o) ==
    /\ op[o].to \in up
    /\ \/ o \in adrift \cup UNION {ToSet(socket[c]) : c \in Conns}
       \/ o \in ToSet(line[op[o].to])
       \/ o \in core /\ \E u \in Lost : u.o = o

(* A session that has ended cleanly has left nothing on its way: no request *)
(* whose reply was lost, on any of its connections, may still be handled by *)
(* the daemon it went to, though that daemon is not the one that was        *)
(* cleaned.  An explicit Kill leaves the creations of helpers, which start  *)
(* nothing by themselves.                                                   *)
NothingIsLate ==
    how = "clean" => \A o \in Ops : Late(o) => Explicit /\ op[o].kind = "internal"

Compacted == \E o \in Ops : op[o].kind = "compact" /\ op[o].thread = target

(* And the thread it showed runs nothing on the daemon that was cleaned: no *)
(* turn, no goal that would start one, and, where terminations are          *)
(* confirmed, no terminal; whatever failed on the way.  A compaction that   *)
(* was answered is only queued, and may come after.                         *)
ThreadIsAtRest ==
    how = "clean" /\ target # None /\ ~Compacted =>
        /\ Here \notin active
        /\ Here \in goals => Here \notin loaded
        /\ cpeer \in Ordered => Here \notin terms

(* The thread that is cleaned is the one the TUI shows, though the launcher *)
(* may not yet have heard of it when the stop was asked for.                *)
CleansSelected == sup = "cleaning" \/ how = "clean" => target = shown
=============================================================================
