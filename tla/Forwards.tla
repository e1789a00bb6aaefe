------------------------------ MODULE Forwards ------------------------------
(***************************************************************************)
(* The port forwards of a host (backend/forwards.rs): one manager for each *)
(* backend, which asks the shared SSH master to listen and to stop, and    *)
(* the table of owners that keeps the managers of one target apart.        *)
(*                                                                         *)
(* A manager does one thing at a time, under its lock: an edit, a          *)
(* configuration, what follows a connection, its own retirement.  Each is  *)
(* a few loops of requests.  A request is one step, because the lock of    *)
(* its owner is held from the check to the answer.                         *)
(***************************************************************************)
EXTENDS Naturals, FiniteSets

CONSTANTS
    Rules,      \* forwards of one target
    Saved,      \* sets of rules a host may be dialled with
    Edited,     \* sets of rules an edit may leave
    Last,       \* bound: backends ever dialled; the n-th has generation n
    MaxEdits,   \* bound: edits and configurations
    MaxFails,   \* bound: requests refused, or whose answer is lost
    MaxLosses   \* bound: links lost, deaths of the master

ASSUME ForwardsAssumption ==
    /\ Saved \subseteq SUBSET Rules /\ Edited \subseteq SUBSET Rules
    /\ Last \in Nat /\ MaxEdits \in Nat /\ MaxFails \in Nat /\ MaxLosses \in Nat

VARIABLES
    host,       \* the host entry of each backend
    link,       \* what its connection task is at
    due,        \* connected() is spawned and does not have the lock yet
    closed, retired, online, active, requested, wanted, status,
    op,         \* what has the manager's lock
    owner,      \* OWNERS
    master,     \* the SSH master runs
    listening,  \* what it listens on for us
    edits, fails, losses

liveVars == <<online, retired, active, requested>>
manager  == <<liveVars, closed, wanted, status, op>>
sshVars  == <<owner, master, listening>>
taskVars == <<host, link, due>>
bounds   == <<edits, fails, losses>>
vars == <<manager, sshVars, taskVars, bounds>>

Managers == 1..Last
Hosts == 1..Last   \* host entries, named in the order they are first dialled
Idle == [kind |-> "idle", loop |-> "none", todo |-> {}, desired |-> {},
         added |-> {}, removed |-> {}]

Init ==
    /\ host \in {h \in [Managers -> Hosts] : \A m \in Managers : h[m] <= m}
    /\ link = [m \in Managers |-> "none"]
    /\ due = [m \in Managers |-> FALSE]
    /\ closed = [m \in Managers |-> FALSE]
    /\ retired = [m \in Managers |-> FALSE]
    /\ online = [m \in Managers |-> FALSE]
    /\ active = [m \in Managers |-> {}]
    /\ requested = [m \in Managers |-> {}]
    /\ wanted = [m \in Managers |-> {}]
    /\ status = [m \in Managers |-> [f \in Rules |-> "unset"]]
    /\ op = [m \in Managers |-> Idle]
    /\ owner = [f \in Rules |-> [gen |-> 0, active |-> FALSE]]
    /\ master = FALSE /\ listening = {}
    /\ edits = 0 /\ fails = 0 /\ losses = 0

(* Manager::status *)
Status(m, f) ==
    IF status[m][f] # "unset" THEN status[m][f]
    ELSE IF f \in wanted[m] THEN "waiting" ELSE "off"
-----------------------------------------------------------------------------
(* One request (SshControl::execute).                                       *)

(* A mutant of Superseded: the generation of the owner is not looked at.    *)
Superseded_Never(m, f) == FALSE

(* A newer backend has taken the listener over.                             *)
Superseded(m, f) == owner[f].gen > m

(* Another host entry that is not going away has it.                        *)
Elsewhere(m, f) ==
    LET n == owner[f].gen
    IN  owner[f].active /\ host[n] # host[m] /\ ~closed[n]

Effect(f, add) == IF add THEN listening \cup {f} ELSE listening \ {f}

Own(m, f, on) == owner' = [owner EXCEPT ![f] = [gen |-> m, active |-> on]]

(* A mutant of Lost: the owner is written when the answer is in.            *)
Lost_Unreserved(m, f, add) ==
    /\ fails < MaxFails /\ fails' = fails + 1
    /\ listening' \in {listening, Effect(f, add)}
    /\ UNCHANGED <<owner, master>>

(* Ownership is reserved before the request: when the answer is an error,   *)
(* or is lost, the master may have done what was asked.                     *)
Lost(m, f, add) ==
    /\ fails < MaxFails /\ fails' = fails + 1
    /\ listening' \in {listening, Effect(f, add)}
    /\ Own(m, f, TRUE)
    /\ UNCHANGED master

(* The first disjunct is a request that could not be prepared.              *)
Execute(m, f, add, ok) ==
    \/ /\ ~ok /\ fails < MaxFails /\ fails' = fails + 1
       /\ UNCHANGED sshVars
    \/ /\ Superseded(m, f)
       /\ ok = ~add
       /\ UNCHANGED <<sshVars, fails>>
    \/ /\ ~Superseded(m, f) /\ Elsewhere(m, f)
       /\ ~ok
       /\ UNCHANGED <<sshVars, fails>>
    \/ /\ ~Superseded(m, f) /\ ~Elsewhere(m, f)
       /\ \/ /\ ok /\ master
             /\ listening' = Effect(f, add)
             /\ Own(m, f, add)
             /\ UNCHANGED <<master, fails>>
          \/ /\ ~ok /\ ~master
             /\ Own(m, f, TRUE)
             /\ UNCHANGED <<master, listening, fails>>
          \/ ~ok /\ master /\ Lost(m, f, add)

Report(m, f, s) == status' = [status EXCEPT ![m][f] = s]

(* Manager::add *)
Add(m, f, ok) ==
    /\ Execute(m, f, TRUE, ok)
    /\ requested' = [requested EXCEPT ![m] = @ \cup {f}]
    /\ active' = IF ok THEN [active EXCEPT ![m] = @ \cup {f}] ELSE active
    /\ Report(m, f, IF ok THEN "listening" ELSE "failed")

(* Manager::remove.  A rule whose removal fails stays remembered.           *)
Remove(m, f, ok) ==
    /\ Execute(m, f, FALSE, ok)
    /\ requested' = [requested EXCEPT ![m] = IF ok THEN @ \ {f} ELSE @ \cup {f}]
    /\ active' = [active EXCEPT ![m] = @ \ {f}]
    /\ Report(m, f, IF ok THEN "off" ELSE "failed")
-----------------------------------------------------------------------------
(* The loops.  What they go through is a set: the code's order is that of a *)
(* hash set, or of the user's list.                                         *)

Begin(m, kind, loop, todo, desired, added, removed) ==
    op' = [op EXCEPT ![m] = [kind |-> kind, loop |-> loop, todo |-> todo,
                             desired |-> desired, added |-> added, removed |-> removed]]

Enter(m, loop, todo) == op' = [op EXCEPT ![m].loop = loop, ![m].todo = todo]

(* What follows a request, when the loop goes on, and when it is broken off.*)
GoOn(m, f) == op' = [op EXCEPT ![m].todo = @ \ {f}]
BreakOff(m) == Enter(m, "failed", {})

After(m, f, ok) ==
    IF ok \/ op[m].kind # "apply" \/ op[m].loop \in {"undo", "restore"}
    THEN GoOn(m, f) ELSE BreakOff(m)

Requests(m) ==
    /\ \E f \in op[m].todo, ok \in BOOLEAN :
          /\ \/ op[m].loop \in {"remove", "undo"} /\ Remove(m, f, ok)
             \/ op[m].loop \in {"add", "restore"} /\ Add(m, f, ok)
          /\ After(m, f, ok)
    /\ UNCHANGED <<online, retired, closed, wanted, taskVars, edits, losses>>

(* The loop over, its manager goes to the next or lets go of the lock.      *)
At(m, kind, loop) == op[m].kind = kind /\ op[m].loop = loop /\ op[m].todo = {}
LetGo(m) == op' = [op EXCEPT ![m] = Idle]

EndRemove(m) ==
    /\ \/ At(m, "apply", "remove") /\ Enter(m, "add", op[m].added)
       \/ At(m, "configure", "remove") /\ Enter(m, "add", op[m].desired \ active[m])
    /\ UNCHANGED <<liveVars, closed, wanted, status, sshVars, taskVars, bounds>>

(* A mutant of EndConnectRemove: the host is online when all could be       *)
(* cancelled.                                                               *)
EndConnectRemove_AllOrNone(m) ==
    /\ At(m, "connect", "remove")
    /\ IF \E f \in Rules : status[m][f] = "failed"
       THEN LetGo(m) /\ UNCHANGED <<active, online>>
       ELSE /\ active' = [active EXCEPT ![m] = {}]
            /\ online' = [online EXCEPT ![m] = TRUE]
            /\ Enter(m, "add", op[m].desired)
    /\ UNCHANGED <<retired, requested, closed, wanted, status, sshVars, taskVars, bounds>>

(* connected(): what the master may still have is cancelled first.          *)
EndConnectRemove(m) ==
    /\ At(m, "connect", "remove")
    /\ active' = [active EXCEPT ![m] = {}]
    /\ online' = [online EXCEPT ![m] = TRUE]
    /\ Enter(m, "add", op[m].desired)
    /\ UNCHANGED <<retired, requested, closed, wanted, status, sshVars, taskVars, bounds>>

EndAdd(m) ==
    /\ \/ At(m, "apply", "add") /\ wanted' = [wanted EXCEPT ![m] = op[m].desired]
       \/ At(m, "configure", "add") /\ UNCHANGED wanted
       \/ At(m, "connect", "add") /\ UNCHANGED wanted
    /\ LetGo(m)
    /\ UNCHANGED <<liveVars, closed, status, sshVars, taskVars, bounds>>

(* A mutant of RollBack: what was removed is not restored.                  *)
RollBack_KeepsRemoved(m) ==
    /\ \/ At(m, "apply", "failed")
          /\ Enter(m, "undo", (op[m].added \ wanted[m]) \cap requested[m])
       \/ At(m, "apply", "undo") /\ LetGo(m)
    /\ UNCHANGED <<liveVars, closed, wanted, status, sshVars, taskVars, bounds>>

(* A failed edit is undone; the rules stay what they were.                  *)
RollBack(m) ==
    /\ \/ At(m, "apply", "failed")
          /\ Enter(m, "undo", (op[m].added \ wanted[m]) \cap requested[m])
       \/ At(m, "apply", "undo")
          /\ Enter(m, "restore", (op[m].removed \cap wanted[m]) \ active[m])
       \/ At(m, "apply", "restore") /\ LetGo(m)
    /\ UNCHANGED <<liveVars, closed, wanted, status, sshVars, taskVars, bounds>>
-----------------------------------------------------------------------------
(* Edits.                                                                   *)

Edit(m) ==
    /\ link[m] # "none" /\ op[m] = Idle
    /\ edits < MaxEdits /\ edits' = edits + 1
    /\ UNCHANGED <<liveVars, closed, sshVars, taskVars, fails, losses>>

(* apply(), of a connected host: the rules touched are changed.             *)
ApplyOnline(m, desired) ==
    LET previous == wanted[m]
        removed  == (previous \cup requested[m]) \ desired
        added    == {f \in desired :
                        f \notin previous \/ (desired = previous /\ f \notin active[m])}
    IN  /\ Edit(m)
        /\ ~closed[m] /\ online[m]
        /\ Begin(m, "apply", "remove", removed \cap requested[m], desired, added, removed)
        /\ UNCHANGED <<wanted, status>>

(* apply(), of a host that is away: configuration, for the next connection. *)
ApplyOffline(m, desired) ==
    /\ Edit(m)
    /\ ~closed[m] /\ ~online[m]
    /\ status' = [status EXCEPT ![m] = [f \in Rules |->
          IF f \in wanted[m] \ desired
          THEN IF f \in requested[m] THEN "waiting" ELSE "off"
          ELSE @[f]]]
    /\ wanted' = [wanted EXCEPT ![m] = desired]
    /\ UNCHANGED op

(* configure(), once it has the lock.  Its rules were others than those in  *)
(* force when it was spawned.                                               *)
Configure(m, desired) ==
    /\ Edit(m)
    /\ ~closed[m]
    /\ wanted' = [wanted EXCEPT ![m] = desired]
    /\ IF online[m]
       THEN Begin(m, "configure", "remove", requested[m] \ desired, desired, {}, {})
       ELSE UNCHANGED op
    /\ UNCHANGED status
-----------------------------------------------------------------------------
(* The connection task.                                                     *)

(* A host that is dialled anew retires its backend first (reconcile).       *)
Dial(m, rules) ==
    /\ link[m] = "none" /\ \A n \in 1..(m-1) : link[n] # "none"
    /\ \A n \in 1..(m-1) : host[n] = host[m] => closed[n]
    /\ link' = [link EXCEPT ![m] = "down"]
    /\ wanted' = [wanted EXCEPT ![m] = rules]
    /\ UNCHANGED <<liveVars, closed, status, op, sshVars, host, due, bounds>>

(* Connected: connected() is spawned beside the serving of the link.        *)
LinkUp(m) ==
    /\ link[m] = "down"
    /\ link' = [link EXCEPT ![m] = "up"]
    /\ due' = [due EXCEPT ![m] = TRUE]
    /\ master' = TRUE
    /\ UNCHANGED <<manager, owner, listening, host, bounds>>

(* A mutant of BeginConnected: it is not looked at whether the manager was  *)
(* closed while the lock was waited for.                                    *)
BeginConnected_Closed(m) ==
    /\ due[m] /\ op[m] = Idle
    /\ due' = [due EXCEPT ![m] = FALSE]
    /\ Begin(m, "connect", "remove", requested[m] \cup wanted[m], wanted[m], {}, {})
    /\ UNCHANGED <<liveVars, closed, wanted, status, sshVars, host, link, bounds>>

BeginConnected(m) ==
    /\ due[m] /\ op[m] = Idle
    /\ due' = [due EXCEPT ![m] = FALSE]
    /\ IF closed[m] THEN UNCHANGED op
       ELSE Begin(m, "connect", "remove", requested[m] \cup wanted[m], wanted[m], {}, {})
    /\ UNCHANGED <<liveVars, closed, wanted, status, sshVars, host, link, bounds>>

(* connected() looks whether its manager was closed before each request.    *)
StopConnect(m) ==
    /\ closed[m] /\ op[m].kind = "connect" /\ LetGo(m)
    /\ UNCHANGED <<liveVars, closed, wanted, status, sshVars, taskVars, bounds>>

LinkLost(m) ==
    /\ link[m] = "up" /\ losses < MaxLosses
    /\ link' = [link EXCEPT ![m] = "lost"] /\ losses' = losses + 1
    /\ UNCHANGED <<manager, sshVars, host, due, edits, fails>>

(* The master dies, and every link with it.                                 *)
MasterDies ==
    /\ master /\ losses < MaxLosses
    /\ master' = FALSE /\ listening' = {} /\ losses' = losses + 1
    /\ link' = [m \in Managers |-> IF link[m] = "up" THEN "lost" ELSE link[m]]
    /\ UNCHANGED <<manager, owner, host, due, edits, fails>>

(* What a request that is cut off in connected() leaves behind.             *)
CutOff(m, f) ==
    /\ requested' = [requested EXCEPT ![m] = @ \cup {f}]
    /\ \/ UNCHANGED <<owner, listening>>
       \/ /\ ~Superseded(m, f) /\ ~Elsewhere(m, f)
          /\ Own(m, f, TRUE)
          /\ \/ UNCHANGED listening
             \/ master /\ listening' = Effect(f, op[m].loop = "add")

(* forward_setup.shutdown(), or the drop of the task: what is unfinished of *)
(* connected() is aborted, between two requests or in one.                  *)
Abort(m) ==
    /\ link[m] \in {"lost", "gone"}
    /\ due[m] \/ op[m].kind = "connect"
    /\ due' = [due EXCEPT ![m] = FALSE]
    /\ IF op[m].kind = "connect"
       THEN /\ LetGo(m)
            /\ \/ UNCHANGED <<requested, owner, listening>>
               \/ \E f \in op[m].todo : CutOff(m, f)
       ELSE UNCHANGED <<op, requested, owner, listening>>
    /\ UNCHANGED <<online, retired, active, closed, wanted, status, master, host, link, bounds>>

(* A mutant of Disconnected: connected() is not aborted first.              *)
Disconnected_Unaborted(m) ==
    /\ link[m] = "lost" /\ op[m] = Idle
    /\ link' = [link EXCEPT ![m] = "down"]
    /\ online' = [online EXCEPT ![m] = FALSE]
    /\ active' = [active EXCEPT ![m] = {}]
    /\ status' = [status EXCEPT ![m] =
          [f \in Rules |-> IF f \in requested[m] THEN "waiting" ELSE "unset"]]
    /\ UNCHANGED <<retired, requested, closed, wanted, op, sshVars, host, due, bounds>>

(* What has not been asked for is what it was configured to be.             *)
Disconnected(m) ==
    /\ link[m] = "lost" /\ ~due[m] /\ op[m] = Idle
    /\ link' = [link EXCEPT ![m] = "down"]
    /\ online' = [online EXCEPT ![m] = FALSE]
    /\ active' = [active EXCEPT ![m] = {}]
    /\ status' = [status EXCEPT ![m] =
          [f \in Rules |-> IF f \in requested[m] THEN "waiting" ELSE "unset"]]
    /\ UNCHANGED <<retired, requested, closed, wanted, op, sshVars, host, due, bounds>>
-----------------------------------------------------------------------------
(* Retirement.                                                              *)

(* The host is removed or replaced, or the dashboard quits.                 *)
Retire(m) ==
    /\ link[m] \notin {"none", "gone"}
    /\ link' = [link EXCEPT ![m] = "gone"]
    /\ closed' = [closed EXCEPT ![m] = TRUE]
    /\ UNCHANGED <<liveVars, wanted, status, op, sshVars, host, due, bounds>>

(* shutdown(): its requests run side by side.                               *)
BeginShutdown(m) ==
    /\ closed[m] /\ ~retired[m] /\ op[m] = Idle
    /\ online' = [online EXCEPT ![m] = FALSE]
    /\ Begin(m, "shutdown", "remove", requested[m], {}, {}, {})
    /\ UNCHANGED <<retired, active, requested, closed, wanted, status, sshVars, taskVars, bounds>>

EndShutdown(m) ==
    /\ At(m, "shutdown", "remove")
    /\ retired' = [retired EXCEPT ![m] = TRUE]
    /\ LetGo(m)
    /\ UNCHANGED <<online, active, requested, closed, wanted, status, sshVars, taskVars, bounds>>
-----------------------------------------------------------------------------
Work(m) ==
    \/ Requests(m) \/ EndRemove(m) \/ EndConnectRemove(m) \/ EndAdd(m) \/ RollBack(m)
    \/ BeginConnected(m) \/ StopConnect(m) \/ Abort(m) \/ Disconnected(m)
    \/ BeginShutdown(m) \/ EndShutdown(m)

Next ==
    \/ \E m \in Managers : Work(m) \/ LinkUp(m) \/ LinkLost(m) \/ Retire(m)
    \/ \E m \in Managers, rules \in Saved : Dial(m, rules)
    \/ \E m \in Managers, rules \in Edited :
          ApplyOnline(m, rules) \/ ApplyOffline(m, rules) \/ Configure(m, rules)
    \/ MasterDies

Spec == Init /\ [][Next]_vars

(* Every request has a deadline and every task is scheduled; the connection *)
(* task dials for ever.  One fairness for all of it is the least that can   *)
(* be assumed.                                                              *)
Progress == \E m \in Managers : Work(m) \/ LinkUp(m)

FairSpec == Spec /\ WF_vars(Progress)
-----------------------------------------------------------------------------
Kinds == {"idle", "apply", "configure", "connect", "shutdown"}
Loops == {"none", "remove", "add", "failed", "undo", "restore"}

ForwardsTypeOK ==
    /\ host \in [Managers -> Hosts]
    /\ link \in [Managers -> {"none", "down", "up", "lost", "gone"}]
    /\ due \in [Managers -> BOOLEAN] /\ closed \in [Managers -> BOOLEAN]
    /\ online \in [Managers -> BOOLEAN] /\ retired \in [Managers -> BOOLEAN]
    /\ active \in [Managers -> SUBSET Rules] /\ requested \in [Managers -> SUBSET Rules]
    /\ wanted \in [Managers -> SUBSET Rules]
    /\ status \in [Managers ->
          [Rules -> {"unset", "off", "waiting", "listening", "failed"}]]
    /\ op \in [Managers -> [kind : Kinds, loop : Loops, todo : SUBSET Rules,
          desired : SUBSET Rules, added : SUBSET Rules, removed : SUBSET Rules]]
    /\ \A m \in Managers :
          /\ due[m] \/ online[m] => link[m] \in {"up", "lost", "gone"}
          /\ active[m] \subseteq requested[m]
          /\ retired[m] => closed[m] /\ ~online[m]
    /\ owner \in [Rules -> [gen : 0..Last, active : BOOLEAN]]
    /\ master \in BOOLEAN /\ listening \subseteq Rules
    /\ edits \in 0..MaxEdits /\ fails \in 0..MaxFails /\ losses \in 0..MaxLosses

(* A listener that is shown as listening is there, whatever the cleanup of  *)
(* an older backend, another entry for the same host or an edit that failed *)
(* did meanwhile, until the connection is lost.                             *)
ListeningIsTrue ==
    \A m \in Managers, f \in Rules :
        link[m] = "up" /\ Status(m, f) = "listening" => f \in listening

(* The backend that last touched a listener remembers it, so that it can    *)
(* take it down, however its requests were answered or cut off.             *)
NothingForgotten ==
    \A f \in listening : owner[f].gen # 0 /\ f \in requested[owner[f].gen]

(* On a connected host, when no edit is under way, every rule in force      *)
(* listens or shows its failure, and so does every other that could not be  *)
(* taken down: an edit that fails leaves nothing half done in silence.  And *)
(* while the host is away, a listener that is not in force any more is      *)
(* shown to wait for its end.                                               *)
RulesAreAccounted ==
    /\ \A m \in Managers : link[m] = "up" /\ online[m] /\ op[m] = Idle /\ ~due[m] =>
          /\ \A f \in wanted[m] : Status(m, f) \in {"listening", "failed"}
          /\ \A f \in requested[m] \ wanted[m] : Status(m, f) = "failed"
    /\ \A m \in Managers, f \in listening :
          owner[f].gen = m /\ f \notin wanted[m] /\ op[m] = Idle /\ link[m] \in {"up", "down"} =>
              Status(m, f) \in {"waiting", "failed"}

(* A retired backend has left no listener behind, or says which, and none   *)
(* comes back by what was still waiting for its lock.                       *)
RetiredIsClean ==
    \A m \in Managers, f \in listening :
        retired[m] /\ owner[f].gen = m => status[m][f] = "failed"

(* Whatever their requests come to, the managers get done: one that was     *)
(* closed is retired in the end, and a connected host comes to have its     *)
(* rules asked for.                                                         *)
ManagersSettle ==
    []<>(\A m \in Managers : (closed[m] => retired[m]) /\ (link[m] = "up" => online[m]))
=============================================================================
