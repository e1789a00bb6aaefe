--------------------------- MODULE ForwardsProofs ---------------------------
(***************************************************************************)
(* For any rules, edits, failures and number of backends: what is shown as *)
(* listening listens, nothing that may listen is forgotten, every rule is  *)
(* accounted for, and a backend that has retired accounts for what it left.*)
(*                                                                         *)
(* A request changes one listener at most, takes it for its own backend    *)
(* when it does, and does so only when no newer backend and no living      *)
(* backend of another host entry has it (RequestTouches).  Of one host     *)
(* entry only the newest backend is not closed.  So nobody but the backend *)
(* that shows a listener takes it down, until its link is lost.            *)
(***************************************************************************)
EXTENDS Forwards, TLAPS

Operation == [kind : Kinds, loop : Loops, todo : SUBSET Rules,
              desired : SUBSET Rules, added : SUBSET Rules, removed : SUBSET Rules]

Types ==
    /\ host \in [Managers -> Hosts]
    /\ link \in [Managers -> {"none", "down", "up", "lost", "gone"}]
    /\ due \in [Managers -> BOOLEAN] /\ closed \in [Managers -> BOOLEAN]
    /\ online \in [Managers -> BOOLEAN] /\ retired \in [Managers -> BOOLEAN]
    /\ active \in [Managers -> SUBSET Rules] /\ requested \in [Managers -> SUBSET Rules]
    /\ wanted \in [Managers -> SUBSET Rules]
    /\ status \in [Managers ->
          [Rules -> {"unset", "off", "waiting", "listening", "failed"}]]
    /\ op \in [Managers -> Operation]
    /\ owner \in [Rules -> [gen : 0..Last, active : BOOLEAN]]
    /\ master \in BOOLEAN /\ listening \subseteq Rules
    /\ edits \in 0..MaxEdits /\ fails \in 0..MaxFails /\ losses \in 0..MaxLosses

\* A manager works while its host is dialled, and in its retirement on nothing
\* else.
Working ==
    \A m \in Managers :
        /\ due[m] \/ online[m] \/ op[m] # Idle => link[m] \in {"up", "lost", "gone"}
        /\ closed[m] <=> link[m] = "gone"
        /\ op[m].kind = "shutdown" => closed[m] /\ ~online[m] /\ op[m].loop = "remove"
        /\ retired[m] => closed[m] /\ ~online[m] /\ op[m] = Idle
        /\ active[m] \subseteq requested[m]

\* The retirement goes through everything that was asked for, and so leaves
\* nothing but what it could not end.
Cleaned ==
    \A m \in Managers : \A f \in requested[m] :
        retired[m] \/ (op[m].kind = "shutdown" /\ f \notin op[m].todo) => status[m][f] = "failed"

\* Of the backends of one entry only the newest is not closed.
Succeeded ==
    \A m \in Managers : link[m] # "none" => \A n \in 1..(m-1) :
        link[n] # "none" /\ (host[n] = host[m] => closed[n])

\* What a backend shows as listening is its own.
Claimed ==
    \A m \in Managers, f \in Rules : status[m][f] = "listening" =>
        /\ link[m] \in {"up", "lost", "gone"}
        /\ link[m] = "up" => f \in listening /\ owner[f] = [gen |-> m, active |-> TRUE]

Inv == Types /\ Working /\ Cleaned /\ Succeeded /\ Claimed /\ NothingForgotten

------------------------------------------------------------------------------
(* One request *)

\* What may become of the listener f when backend m asks for it.
Touched(m, f) ==
    /\ ~Superseded(m, f) /\ ~Elsewhere(m, f)
    /\ owner'[f].gen = m
    /\ \A g \in Rules \ {f} : owner'[g] = owner[g]
    /\ listening' \in {listening, listening \cup {f}, listening \ {f}}

Untouched == UNCHANGED <<owner, listening>>

\* A request touches its listener alone, as far as it is allowed to; when it is
\* said to be done, it is.
LEMMA RequestTouches ==
    ASSUME Types, NEW m \in Managers, NEW f \in Rules, NEW add \in BOOLEAN,
           NEW ok \in BOOLEAN, Execute(m, f, add, ok)
    PROVE  /\ owner' \in [Rules -> [gen : 0..Last, active : BOOLEAN]]
           /\ master' \in BOOLEAN /\ listening' \subseteq Rules /\ fails' \in 0..MaxFails
           /\ Untouched \/ Touched(m, f)
           /\ ok /\ add => f \in listening' /\ owner'[f] = [gen |-> m, active |-> TRUE]
           /\ ok /\ ~add => \/ f \notin listening'
                            \/ Untouched /\ owner[f].gen > m
<1>1. CASE ~ok /\ fails < MaxFails /\ fails' = fails + 1 /\ UNCHANGED sshVars
  BY <1>1, ForwardsAssumption DEF Types, sshVars, Untouched
<1>2. CASE Superseded(m, f) /\ ok = ~add /\ UNCHANGED <<sshVars, fails>>
  BY <1>2 DEF Types, sshVars, Untouched, Superseded
<1>3. CASE ~Superseded(m, f) /\ Elsewhere(m, f) /\ ~ok /\ UNCHANGED <<sshVars, fails>>
  BY <1>3 DEF Types, sshVars, Untouched
<1>4. CASE /\ ~Superseded(m, f) /\ ~Elsewhere(m, f)
           /\ ok /\ master /\ listening' = Effect(f, add) /\ Own(m, f, add)
           /\ UNCHANGED <<master, fails>>
  <2>1. /\ owner' \in [Rules -> [gen : 0..Last, active : BOOLEAN]]
        /\ master' \in BOOLEAN /\ listening' \subseteq Rules /\ fails' \in 0..MaxFails
    BY <1>4 DEF Types, Effect, Own, Managers
  <2>2. owner'[f] = [gen |-> m, active |-> add] /\ \A g \in Rules \ {f} : owner'[g] = owner[g]
    BY <1>4 DEF Types, Own
  <2>3. CASE add
    BY <1>4, <2>1, <2>2, <2>3 DEF Touched, Effect
  <2>4. CASE ~add
    BY <1>4, <2>1, <2>2, <2>4 DEF Touched, Effect
  <2>5. QED
    BY <2>3, <2>4
<1>5. CASE /\ ~Superseded(m, f) /\ ~Elsewhere(m, f)
           /\ ~ok /\ ~master /\ Own(m, f, TRUE) /\ UNCHANGED <<master, listening, fails>>
  BY <1>5 DEF Types, Touched, Own, Managers
<1>6. CASE ~Superseded(m, f) /\ ~Elsewhere(m, f) /\ ~ok /\ master /\ Lost(m, f, add)
  <2>1. fails' \in 0..MaxFails
    BY <1>6, ForwardsAssumption DEF Types, Lost
  <2>2. QED
    BY <1>6, <2>1 DEF Types, Touched, Lost, Effect, Own, Managers
<1>7. QED
  BY <1>1, <1>2, <1>3, <1>4, <1>5, <1>6 DEF Execute

\* The listener a connected backend shows is no other's to touch.
LEMMA ClaimHolds ==
    ASSUME Inv, NEW m \in Managers, NEW f \in Rules, NEW n \in Managers, n # m,
           link[m] = "up", status[m][f] = "listening", Untouched \/ Touched(n, f),
           link[n] # "none"
    PROVE  f \in listening' /\ owner'[f] = [gen |-> m, active |-> TRUE]
<1>1. f \in listening /\ owner[f] = [gen |-> m, active |-> TRUE] /\ ~closed[m]
  BY DEF Inv, Claimed, Working
<1>2. Superseded(n, f) \/ Elsewhere(n, f)
  <2>1. CASE n < m
    BY <1>1, <2>1 DEF Superseded
  <2>2. CASE n > m
    <3>1. host[m] # host[n]
      BY <1>1, <2>2 DEF Inv, Succeeded, Managers
    <3>2. QED
      BY <1>1, <3>1 DEF Elsewhere
  <2>3. QED
    BY <2>1, <2>2 DEF Managers
<1>3. QED
  BY <1>1, <1>2 DEF Touched, Untouched
------------------------------------------------------------------------------
(* What has the lock *)

\* The edit that has the lock goes on.
SameEdit(m) ==
    /\ op'[m].desired = op[m].desired
    /\ op'[m].added = op[m].added /\ op'[m].removed = op[m].removed

\* Between its loops an operation changes its loop alone.
LEMMA EnterMoves ==
    ASSUME Types, NEW m \in Managers, NEW loop \in Loops, NEW todo \in SUBSET Rules,
           Enter(m, loop, todo)
    PROVE  /\ op' \in [Managers -> Operation]
           /\ op'[m].kind = op[m].kind /\ op'[m].loop = loop /\ op'[m].todo = todo
           /\ SameEdit(m)
           /\ \A n \in Managers \ {m} : op'[n] = op[n]
<1>1. op[m] \in Operation
  BY DEF Types
<1>2. [op[m] EXCEPT !.loop = loop, !.todo = todo] \in Operation
  BY <1>1 DEF Operation
<1>3. op' = [op EXCEPT ![m] = [op[m] EXCEPT !.loop = loop, !.todo = todo]]
  BY DEF Enter, Types
<1>4. op'[m] = [op[m] EXCEPT !.loop = loop, !.todo = todo]
      /\ \A n \in Managers \ {m} : op'[n] = op[n]
  BY <1>3 DEF Types
<1>5. op' \in [Managers -> Operation]
  BY <1>2, <1>3 DEF Types
<1>6. QED
  BY <1>1, <1>4, <1>5 DEF Operation, SameEdit

\* One that starts has the lock from then on.
LEMMA BeginMoves ==
    ASSUME Types, NEW m \in Managers, NEW kind \in Kinds, NEW loop \in Loops,
           NEW todo \in SUBSET Rules, NEW desired \in SUBSET Rules,
           NEW added \in SUBSET Rules, NEW removed \in SUBSET Rules,
           Begin(m, kind, loop, todo, desired, added, removed)
    PROVE  /\ op' \in [Managers -> Operation]
           /\ op'[m].kind = kind /\ op'[m].loop = loop /\ op'[m].todo = todo
           /\ op'[m].desired = desired /\ op'[m].added = added /\ op'[m].removed = removed
           /\ \A n \in Managers \ {m} : op'[n] = op[n]
<1> DEFINE r == [kind |-> kind, loop |-> loop, todo |-> todo, desired |-> desired,
                 added |-> added, removed |-> removed]
<1>1. r \in Operation
  BY DEF Operation
<1>2. op' = [op EXCEPT ![m] = r]
  BY DEF Begin
<1>3. op'[m] = r /\ \A n \in Managers \ {m} : op'[n] = op[n]
  BY <1>2 DEF Types
<1>4. QED
  BY <1>1, <1>2, <1>3 DEF Types

LEMMA LetGoMoves ==
    ASSUME Types, NEW m \in Managers, LetGo(m)
    PROVE  /\ op' \in [Managers -> Operation]
           /\ op'[m] = Idle /\ op'[m].kind = "idle"
           /\ \A n \in Managers \ {m} : op'[n] = op[n]
<1>1. Idle \in Operation /\ Idle.kind = "idle"
  BY DEF Idle, Operation, Kinds, Loops
<1>2. op' = [op EXCEPT ![m] = Idle]
  BY DEF LetGo
<1>3. QED
  BY <1>1, <1>2 DEF Types

\* A request and what follows it, for its listener and its manager.
Asked(m, f, add, ok) ==
    /\ Execute(m, f, add, ok)
    /\ IF add
       THEN /\ requested' = [requested EXCEPT ![m] = @ \cup {f}]
            /\ active' = [active EXCEPT ![m] = IF ok THEN @ \cup {f} ELSE @]
            /\ status' = [status EXCEPT ![m][f] = IF ok THEN "listening" ELSE "failed"]
       ELSE /\ requested' = [requested EXCEPT ![m] = IF ok THEN @ \ {f} ELSE @ \cup {f}]
            /\ active' = [active EXCEPT ![m] = @ \ {f}]
            /\ status' = [status EXCEPT ![m][f] = IF ok THEN "off" ELSE "failed"]

LEMMA RequestsDo ==
    ASSUME Types, NEW m \in Managers, Requests(m)
    PROVE  \E f \in op[m].todo, add \in BOOLEAN, ok \in BOOLEAN :
              /\ f \in Rules /\ Asked(m, f, add, ok)
              /\ op[m].loop = "remove" => ~add
              /\ op[m].loop \in IF add THEN {"add", "restore"} ELSE {"remove", "undo"}
              /\ op' \in [Managers -> Operation]
              /\ op'[m].kind = op[m].kind /\ SameEdit(m)
              /\ \/ /\ op'[m].loop = op[m].loop /\ op'[m].todo = op[m].todo \ {f}
                    /\ ok \/ op[m].kind # "apply" \/ op[m].loop \in {"undo", "restore"}
                 \/ /\ op[m].kind = "apply" /\ ~ok /\ op[m].loop \in {"remove", "add"}
                    /\ op'[m].loop = "failed" /\ op'[m].todo = {}
              /\ \A n \in Managers \ {m} : op'[n] = op[n]
<1>1. PICK f \in op[m].todo, ok \in BOOLEAN :
          /\ \/ op[m].loop \in {"remove", "undo"} /\ Remove(m, f, ok)
             \/ op[m].loop \in {"add", "restore"} /\ Add(m, f, ok)
          /\ After(m, f, ok)
  BY DEF Requests
<1>2. op[m] \in Operation /\ f \in Rules
  BY DEF Types, Operation
<1>3. \E add \in BOOLEAN :
          /\ Asked(m, f, add, ok)
          /\ op[m].loop \in IF add THEN {"add", "restore"} ELSE {"remove", "undo"}
  <2>1. CASE op[m].loop \in {"remove", "undo"} /\ Remove(m, f, ok)
    <3>1. Asked(m, f, FALSE, ok)
      BY <2>1 DEF Remove, Asked, Report
    <3>2. QED
      BY <2>1, <3>1
  <2>2. CASE op[m].loop \in {"add", "restore"} /\ Add(m, f, ok)
    <3>1. Asked(m, f, TRUE, ok)
      BY <2>2, <1>2 DEF Add, Asked, Report, Types
    <3>2. QED
      BY <2>2, <3>1
  <2>3. QED
    BY <1>1, <2>1, <2>2
<1>4. CASE /\ ok \/ op[m].kind # "apply" \/ op[m].loop \in {"undo", "restore"}
           /\ GoOn(m, f)
  <2>1. Enter(m, op[m].loop, op[m].todo \ {f})
    BY <1>2, <1>4 DEF GoOn, Enter, Types, Operation
  <2>2. op[m].loop \in Loops /\ op[m].todo \ {f} \in SUBSET Rules
    BY <1>2 DEF Operation
  <2>3. QED
    BY <1>2, <1>3, <1>4, <2>1, <2>2, EnterMoves
<1>5. CASE op[m].kind = "apply" /\ ~ok /\ op[m].loop \notin {"undo", "restore"} /\ BreakOff(m)
  <2>1. Enter(m, "failed", {}) /\ "failed" \in Loops /\ {} \in SUBSET Rules
    BY <1>5 DEF BreakOff, Loops
  <2>2. QED
    BY <1>2, <1>3, <1>5, <2>1, EnterMoves
<1>6. QED
  BY <1>1, <1>4, <1>5 DEF After

\* A request that is cut off may have touched its listener, which is remembered.
LEMMA CutOffDoes ==
    ASSUME Types, NEW m \in Managers, NEW f \in op[m].todo, CutOff(m, f)
    PROVE  /\ f \in Rules
           /\ requested' = [requested EXCEPT ![m] = @ \cup {f}]
           /\ requested' \in [Managers -> SUBSET Rules]
           /\ owner' \in [Rules -> [gen : 0..Last, active : BOOLEAN]]
           /\ listening' \subseteq Rules
           /\ Untouched \/ Touched(m, f)
<1>1. f \in Rules
  BY DEF Types, Operation
<1>2. requested' = [requested EXCEPT ![m] = @ \cup {f}]
  BY DEF CutOff
<1>3. requested' \in [Managers -> SUBSET Rules]
  BY <1>1, <1>2 DEF Types
<1>4. CASE UNCHANGED <<owner, listening>>
  BY <1>1, <1>2, <1>3, <1>4 DEF Untouched, Types
<1>5. CASE /\ ~Superseded(m, f) /\ ~Elsewhere(m, f) /\ Own(m, f, TRUE)
           /\ listening' \in {listening, Effect(f, TRUE), Effect(f, FALSE)}
  <2>1. owner' = [owner EXCEPT ![f] = [gen |-> m, active |-> TRUE]]
    BY <1>5 DEF Own
  <2>2. [gen |-> m, active |-> TRUE] \in [gen : 0..Last, active : BOOLEAN]
    BY DEF Managers
  <2>3. owner' \in [Rules -> [gen : 0..Last, active : BOOLEAN]]
    BY <2>1, <2>2 DEF Types
  <2>4. listening' \in {listening, listening \cup {f}, listening \ {f}}
    BY <1>5 DEF Effect
  <2>5. Touched(m, f)
    BY <1>1, <1>5, <2>1, <2>4 DEF Touched, Types
  <2>6. QED
    BY <1>1, <1>2, <1>3, <2>3, <2>4, <2>5 DEF Types
<1>6. QED
  <2>1. Effect(f, op[m].loop = "add") \in {Effect(f, TRUE), Effect(f, FALSE)}
    BY DEF Effect
  <2>2. QED
    BY <1>4, <1>5, <2>1 DEF CutOff

LEMMA TypesStep ==
    ASSUME Inv, [Next]_vars
    PROVE  Types'
<1> USE DEF Inv
<1>1. ASSUME NEW m \in Managers, Requests(m) PROVE Types'
  <2>1. PICK f \in op[m].todo, add \in BOOLEAN, ok \in BOOLEAN :
           f \in Rules /\ Asked(m, f, add, ok) /\ op' \in [Managers -> Operation]
    BY <1>1, RequestsDo
  <2>2. /\ owner' \in [Rules -> [gen : 0..Last, active : BOOLEAN]]
        /\ master' \in BOOLEAN /\ listening' \subseteq Rules /\ fails' \in 0..MaxFails
    BY <2>1, RequestTouches DEF Asked
  <2>3. requested' \in [Managers -> SUBSET Rules] /\ active' \in [Managers -> SUBSET Rules]
    <3>1. PICK R \in SUBSET Rules, A \in SUBSET Rules :
              requested' = [requested EXCEPT ![m] = R] /\ active' = [active EXCEPT ![m] = A]
      <4>1. /\ requested[m] \cup {f} \in SUBSET Rules /\ requested[m] \ {f} \in SUBSET Rules
            /\ active[m] \cup {f} \in SUBSET Rules /\ active[m] \ {f} \in SUBSET Rules
            /\ active[m] \in SUBSET Rules
        BY <2>1 DEF Types
      <4>2. QED
        BY <2>1, <4>1 DEF Asked
    <3>2. QED
      BY <3>1 DEF Types
  <2>4. PICK s \in {"off", "listening", "failed"} : status' = [status EXCEPT ![m][f] = s]
    BY <2>1 DEF Asked
  <2>5. status' \in [Managers -> [Rules -> {"unset", "off", "waiting", "listening", "failed"}]]
    BY <2>1, <2>4 DEF Types
  <2>6. UNCHANGED <<online, retired, closed, wanted, host, link, due, edits, losses>>
    BY <1>1 DEF Requests, taskVars
  <2>7. QED
    BY <2>1, <2>2, <2>3, <2>5, <2>6 DEF Types
<1>2. ASSUME NEW m \in Managers, EndRemove(m) PROVE Types'
  <2>1. op' \in [Managers -> Operation]
    BY <1>2, EnterMoves DEF EndRemove, At, Loops, Operation, Types
  <2>2. QED
    BY <1>2, <2>1 DEF EndRemove, Types, liveVars, sshVars, taskVars, bounds
<1>3. ASSUME NEW m \in Managers, EndConnectRemove(m) PROVE Types'
  <2>1. op' \in [Managers -> Operation]
    BY <1>3, EnterMoves DEF EndConnectRemove, At, Loops, Operation, Types
  <2>2. QED
    BY <1>3, <2>1 DEF EndConnectRemove, Types, sshVars, taskVars, bounds
<1>4. ASSUME NEW m \in Managers, EndAdd(m) PROVE Types'
  <2>1. op' \in [Managers -> Operation]
    BY <1>4, LetGoMoves DEF EndAdd
  <2>2. QED
    BY <1>4, <2>1 DEF EndAdd, At, Types, Operation, liveVars, sshVars, taskVars, bounds
<1>5. ASSUME NEW m \in Managers, RollBack(m) PROVE Types'
  <2>1. op' \in [Managers -> Operation]
    BY <1>5, EnterMoves, LetGoMoves DEF RollBack, At, Loops, Operation, Types
  <2>2. QED
    BY <1>5, <2>1 DEF RollBack, Types, liveVars, sshVars, taskVars, bounds
<1>6. ASSUME NEW m \in Managers, BeginConnected(m) PROVE Types'
  <2>1. op' \in [Managers -> Operation]
    <3>1. CASE ~closed[m]
      <4>1. Begin(m, "connect", "remove", requested[m] \cup wanted[m], wanted[m], {}, {})
        BY <1>6, <3>1 DEF BeginConnected
      <4>2. QED
        BY <4>1, ForwardsAssumption DEF Begin, Operation, Kinds, Loops, Types
    <3>2. CASE ~(~closed[m])
      BY <1>6, <3>2 DEF BeginConnected, Types
    <3>3. QED
      BY <3>1, <3>2
  <2>2. QED
    BY <1>6, <2>1 DEF BeginConnected, Types, liveVars, sshVars, bounds
<1>7. ASSUME NEW m \in Managers, StopConnect(m) PROVE Types'
  <2>1. op' \in [Managers -> Operation]
    BY <1>7, LetGoMoves DEF StopConnect
  <2>2. QED
    BY <1>7, <2>1 DEF StopConnect, Types, liveVars, sshVars, taskVars, bounds
<1>8. ASSUME NEW m \in Managers, Abort(m) PROVE Types'
  <2>1. op' \in [Managers -> Operation]
    BY <1>8, LetGoMoves DEF Abort, Types
  <2>2. /\ requested' \in [Managers -> SUBSET Rules]
        /\ owner' \in [Rules -> [gen : 0..Last, active : BOOLEAN]]
        /\ listening' \subseteq Rules
    <3>1. ASSUME NEW f \in op[m].todo, CutOff(m, f) PROVE
              /\ requested' \in [Managers -> SUBSET Rules]
              /\ owner' \in [Rules -> [gen : 0..Last, active : BOOLEAN]]
              /\ listening' \subseteq Rules
      BY <3>1, CutOffDoes
    <3>2. QED
      <4>1. \/ UNCHANGED <<requested, owner, listening>>
            \/ \E f \in op[m].todo : CutOff(m, f)
        BY <1>8 DEF Abort
      <4>2. QED
        BY <4>1, <3>1 DEF Types
  <2>3. QED
    BY <1>8, <2>1, <2>2 DEF Abort, Types, bounds
<1>9. ASSUME NEW m \in Managers, Disconnected(m) PROVE Types'
  BY <1>9, ForwardsAssumption DEF Disconnected, sshVars, bounds, Types
<1>10. ASSUME NEW m \in Managers, BeginShutdown(m) PROVE Types'
  <2>1. Begin(m, "shutdown", "remove", requested[m], {}, {}, {})
    BY <1>10 DEF BeginShutdown
  <2>2. op' \in [Managers -> Operation]
    BY <2>1 DEF Begin, Operation, Kinds, Loops, Types
  <2>3. QED
    BY <1>10, <2>2 DEF BeginShutdown, Types, sshVars, taskVars, bounds
<1>11. ASSUME NEW m \in Managers, EndShutdown(m) PROVE Types'
  <2>1. op' \in [Managers -> Operation]
    BY <1>11, LetGoMoves DEF EndShutdown
  <2>2. QED
    BY <1>11, <2>1 DEF EndShutdown, Types, sshVars, taskVars, bounds
<1>12. ASSUME NEW m \in Managers, LinkUp(m) PROVE Types'
  BY <1>12, ForwardsAssumption DEF LinkUp, manager, liveVars, bounds, Types
<1>13. ASSUME NEW m \in Managers, LinkLost(m) PROVE Types'
  BY <1>13, ForwardsAssumption DEF LinkLost, manager, liveVars, sshVars, Types
<1>14. ASSUME NEW m \in Managers, Retire(m) PROVE Types'
  BY <1>14, ForwardsAssumption DEF Retire, liveVars, sshVars, bounds, Types
<1>15. ASSUME NEW m \in Managers, NEW rules \in Saved, Dial(m, rules) PROVE Types'
  BY <1>15, ForwardsAssumption DEF Dial, liveVars, sshVars, bounds, Types
<1>16. ASSUME NEW m \in Managers, NEW rules \in Edited, ApplyOnline(m, rules) PROVE Types'
  <2>1. PICK removed \in SUBSET Rules, added \in SUBSET Rules :
           Begin(m, "apply", "remove", removed \cap requested[m], rules, added, removed)
    BY <1>16, ForwardsAssumption DEF ApplyOnline, Types
  <2>2. op' \in [Managers -> Operation]
    BY <2>1, ForwardsAssumption DEF Begin, Operation, Kinds, Loops, Types
  <2>3. edits' \in 0..MaxEdits
    BY <1>16, ForwardsAssumption DEF ApplyOnline, Edit, Types
  <2>4. QED
    BY <1>16, <2>2, <2>3 DEF ApplyOnline, Edit, Types, liveVars, sshVars, taskVars
<1>17. ASSUME NEW m \in Managers, NEW rules \in Edited, ApplyOffline(m, rules) PROVE Types'
  BY <1>17, ForwardsAssumption DEF ApplyOffline, Edit, liveVars, sshVars, taskVars, Types
<1>18. ASSUME NEW m \in Managers, NEW rules \in Edited, Configure(m, rules) PROVE Types'
  <2>1. op' \in [Managers -> Operation]
    <3>1. CASE online[m]
      <4>1. Begin(m, "configure", "remove", requested[m] \ rules, rules, {}, {})
        BY <1>18, <3>1 DEF Configure
      <4>2. QED
        BY <4>1, ForwardsAssumption DEF Begin, Operation, Kinds, Loops, Types
    <3>2. QED
      BY <1>18, <3>1 DEF Configure, Types
  <2>2. edits' \in 0..MaxEdits /\ wanted' \in [Managers -> SUBSET Rules]
    BY <1>18, ForwardsAssumption DEF Configure, Edit, Types
  <2>3. UNCHANGED <<liveVars, closed, sshVars, taskVars, fails, losses, status>>
    BY <1>18 DEF Configure, Edit
  <2>4. QED
    BY <2>1, <2>2, <2>3 DEF Types, liveVars, sshVars, taskVars
<1>19. CASE MasterDies
  <2>1. link' \in [Managers -> {"none", "down", "up", "lost", "gone"}]
    BY <1>19 DEF MasterDies, Types
  <2>2. losses' \in 0..MaxLosses
    BY <1>19, ForwardsAssumption DEF MasterDies, Types
  <2>3. QED
    BY <1>19, <2>1, <2>2 DEF MasterDies, manager, liveVars, Types
<1>20. CASE UNCHANGED vars
  BY <1>20, ForwardsAssumption DEF vars, manager, liveVars, sshVars, taskVars, bounds, Types
<1>21. QED
  BY <1>1, <1>2, <1>3, <1>4, <1>5, <1>6, <1>7, <1>8, <1>9, <1>10, <1>11, <1>12, <1>13,
     <1>14, <1>15, <1>16, <1>17, <1>18, <1>19, <1>20 DEF Next, Work

LEMMA WorkingStep ==
    ASSUME Inv, [Next]_vars
    PROVE  Working'
<1> USE DEF Inv
<1>1. ASSUME NEW m \in Managers, Requests(m) PROVE Working'
  <2>1. PICK f \in op[m].todo, add \in BOOLEAN, ok \in BOOLEAN :
           /\ f \in Rules /\ Asked(m, f, add, ok)
           /\ op'[m].kind = op[m].kind
           /\ op'[m].loop = op[m].loop \/ op[m].kind = "apply"
           /\ \A n \in Managers \ {m} : op'[n] = op[n]
    BY <1>1, RequestsDo
  <2>2. op[m] # Idle /\ op[m].kind \in Kinds
    BY <2>1 DEF Idle, Types, Operation
  <2>3. UNCHANGED <<online, retired, closed, link, due>>
    BY <1>1 DEF Requests, taskVars
  <2>4. \A n \in Managers : active'[n] \subseteq requested'[n]
    <3>1. ASSUME NEW n \in Managers \ {m}
          PROVE active'[n] = active[n] /\ requested'[n] = requested[n]
      BY <2>1 DEF Asked, Types
    <3>2. active'[m] \subseteq requested'[m]
      <4>1. active[m] \subseteq requested[m]
        BY DEF Working
      <4>2. CASE add
        <5>1. requested'[m] = requested[m] \cup {f} /\ active'[m] \subseteq active[m] \cup {f}
          BY <2>1, <4>2 DEF Asked, Types
        <5>2. QED
          BY <4>1, <5>1
      <4>3. CASE ~add
        <5>1. requested[m] \ {f} \subseteq requested'[m] /\ active'[m] = active[m] \ {f}
          BY <2>1, <4>3 DEF Asked, Types
        <5>2. QED
          BY <4>1, <5>1
      <4>4. QED
        BY <4>2, <4>3
    <3>3. QED
      BY <3>1, <3>2 DEF Working
  <2>5. QED
    BY <2>1, <2>2, <2>3, <2>4 DEF Working
<1>2. ASSUME NEW m \in Managers, EndRemove(m) PROVE Working'
  <2>1. op'[m].kind = op[m].kind /\ op[m].kind # "shutdown" /\ op[m] # Idle
        /\ \A n \in Managers \ {m} : op'[n] = op[n]
    BY <1>2, EnterMoves DEF EndRemove, At, Loops, Operation, Types, Idle
  <2>2. QED
    BY <1>2, <2>1 DEF EndRemove, liveVars, taskVars, Working, Types
<1>3. ASSUME NEW m \in Managers, EndConnectRemove(m) PROVE Working'
  <2>1. op'[m].kind = op[m].kind /\ op[m].kind # "shutdown" /\ op[m] # Idle
        /\ \A n \in Managers \ {m} : op'[n] = op[n]
    <3>1. op[m].kind = "connect" /\ Enter(m, "add", op[m].desired)
      BY <1>3 DEF EndConnectRemove, At
    <3>2. op[m].desired \in SUBSET Rules /\ "add" \in Loops /\ op[m] # Idle
      BY <3>1 DEF Types, Operation, Loops, Idle
    <3>3. QED
      BY <3>1, <3>2, EnterMoves
  <2>2. QED
    BY <1>3, <2>1 DEF EndConnectRemove, taskVars, Working, Types
<1>4. ASSUME NEW m \in Managers, EndAdd(m) PROVE Working'
  <2>1. op'[m] = Idle /\ op'[m].kind = "idle"
        /\ \A n \in Managers \ {m} : op'[n] = op[n]
    BY <1>4, LetGoMoves DEF EndAdd
  <2>2. QED
    BY <1>4, <2>1 DEF EndAdd, At, liveVars, taskVars, Working, Types
<1>5. ASSUME NEW m \in Managers, RollBack(m) PROVE Working'
  <2>1. /\ ((op'[m] = Idle /\ op'[m].kind = "idle") \/ op'[m].kind = op[m].kind)
        /\ op[m].kind # "shutdown"
        /\ op[m] # Idle
        /\ \A n \in Managers \ {m} : op'[n] = op[n]
    BY <1>5, EnterMoves, LetGoMoves DEF RollBack, At, Loops, Operation, Types, Idle
  <2>2. QED
    BY <1>5, <2>1 DEF RollBack, liveVars, taskVars, Working, Types
<1>6. ASSUME NEW m \in Managers, BeginConnected(m) PROVE Working'
  <2>1. CASE closed[m]
    BY <1>6, <2>1 DEF BeginConnected, liveVars, Working, Types
  <2>2. CASE ~closed[m]
    <3>1. Begin(m, "connect", "remove", requested[m] \cup wanted[m], wanted[m], {}, {})
      BY <1>6, <2>2 DEF BeginConnected
    <3>2. op'[m].kind = "connect" /\ \A n \in Managers \ {m} : op'[n] = op[n]
      BY <3>1 DEF Begin, Types
    <3>3. QED
      BY <1>6, <2>2, <3>2 DEF BeginConnected, liveVars, Working, Types
  <2>3. QED
    BY <2>1, <2>2
<1>7. ASSUME NEW m \in Managers, StopConnect(m) PROVE Working'
  <2>1. op'[m] = Idle /\ op'[m].kind = "idle"
        /\ \A n \in Managers \ {m} : op'[n] = op[n]
    BY <1>7, LetGoMoves DEF StopConnect
  <2>2. QED
    BY <1>7, <2>1 DEF StopConnect, liveVars, taskVars, Working, Types
<1>8. ASSUME NEW m \in Managers, Abort(m) PROVE Working'
  <2>1. /\ (op'[m] = op[m] \/ (op'[m] = Idle /\ op'[m].kind = "idle"))
        /\ \A n \in Managers \ {m} : op'[n] = op[n]
    <3>1. LetGo(m) \/ op' = op
      BY <1>8 DEF Abort
    <3>2. QED
      BY <3>1, LetGoMoves
  <2>2. \A n \in Managers : requested[n] \subseteq requested'[n]
    BY <1>8, CutOffDoes DEF Abort, Types
  <2>3. UNCHANGED <<online, retired, active, closed, link>>
        /\ link[m] \in {"lost", "gone"} /\ due' = [due EXCEPT ![m] = FALSE]
    BY <1>8 DEF Abort
  <2>4. \A n \in Managers : active'[n] \subseteq requested'[n]
    BY <2>2, <2>3 DEF Working, Types
  <2>5. QED
    BY <2>1, <2>3, <2>4 DEF Working, Types
<1>9. ASSUME NEW m \in Managers, Disconnected(m) PROVE Working'
  BY <1>9 DEF Disconnected, sshVars, bounds, Working, Types
<1>10. ASSUME NEW m \in Managers, BeginShutdown(m) PROVE Working'
  <2>1. Begin(m, "shutdown", "remove", requested[m], {}, {}, {})
    BY <1>10 DEF BeginShutdown
  <2>2. op'[m].kind = "shutdown" /\ op'[m].loop = "remove"
        /\ \A n \in Managers \ {m} : op'[n] = op[n]
    BY <2>1 DEF Begin, Types
  <2>3. QED
    BY <1>10, <2>2 DEF BeginShutdown, taskVars, Working, Types
<1>11. ASSUME NEW m \in Managers, EndShutdown(m) PROVE Working'
  <2>1. op'[m] = Idle /\ op'[m].kind = "idle"
        /\ \A n \in Managers \ {m} : op'[n] = op[n]
    BY <1>11, LetGoMoves DEF EndShutdown
  <2>2. QED
    BY <1>11, <2>1 DEF EndShutdown, At, taskVars, Working, Types
<1>12. ASSUME NEW m \in Managers, LinkUp(m) PROVE Working'
  BY <1>12 DEF LinkUp, manager, liveVars, bounds, Working, Types
<1>13. ASSUME NEW m \in Managers, LinkLost(m) PROVE Working'
  BY <1>13 DEF LinkLost, manager, liveVars, sshVars, Working, Types
<1>14. ASSUME NEW m \in Managers, Retire(m) PROVE Working'
  BY <1>14 DEF Retire, liveVars, sshVars, bounds, Working, Types
<1>15. ASSUME NEW m \in Managers, NEW rules \in Saved, Dial(m, rules) PROVE Working'
  BY <1>15 DEF Dial, liveVars, sshVars, bounds, Working, Types
<1>16. ASSUME NEW m \in Managers, NEW rules \in Edited, ApplyOnline(m, rules) PROVE Working'
  <2>1. PICK removed \in SUBSET Rules, added \in SUBSET Rules :
           Begin(m, "apply", "remove", removed \cap requested[m], rules, added, removed)
    BY <1>16, ForwardsAssumption DEF ApplyOnline, Types
  <2>2. op'[m].kind = "apply" /\ \A n \in Managers \ {m} : op'[n] = op[n]
    BY <2>1 DEF Begin, Types
  <2>3. QED
    BY <1>16, <2>2 DEF ApplyOnline, Edit, liveVars, taskVars, Working, Types
<1>17. ASSUME NEW m \in Managers, NEW rules \in Edited, ApplyOffline(m, rules) PROVE Working'
  BY <1>17 DEF ApplyOffline, Edit, liveVars, sshVars, taskVars, Working, Types
<1>18. ASSUME NEW m \in Managers, NEW rules \in Edited, Configure(m, rules) PROVE Working'
  <2>1. CASE online[m]
    <3>1. Begin(m, "configure", "remove", requested[m] \ rules, rules, {}, {})
      BY <1>18, <2>1 DEF Configure
    <3>2. op'[m].kind = "configure" /\ \A n \in Managers \ {m} : op'[n] = op[n]
      BY <3>1 DEF Begin, Types
    <3>3. QED
      BY <1>18, <2>1, <3>2 DEF Configure, Edit, liveVars, taskVars, Working, Types
  <2>2. CASE ~online[m]
    BY <1>18, <2>2 DEF Configure, Edit, liveVars, taskVars, Working, Types
  <2>3. QED
    BY <2>1, <2>2
<1>19. CASE MasterDies
  BY <1>19 DEF MasterDies, manager, liveVars, Working, Types
<1>20. CASE UNCHANGED vars
  BY <1>20 DEF vars, manager, liveVars, sshVars, taskVars, bounds, Working, Types
<1>21. QED
  BY <1>1, <1>2, <1>3, <1>4, <1>5, <1>6, <1>7, <1>8, <1>9, <1>10, <1>11, <1>12, <1>13,
     <1>14, <1>15, <1>16, <1>17, <1>18, <1>19, <1>20 DEF Next, Work

LEMMA CleanedStep ==
    ASSUME Inv, [Next]_vars
    PROVE  Cleaned'
<1> USE DEF Inv
<1>1. ASSUME NEW m \in Managers, Requests(m) PROVE Cleaned'
  <2>1. PICK f \in op[m].todo, add \in BOOLEAN, ok \in BOOLEAN :
           /\ f \in Rules /\ Asked(m, f, add, ok)
           /\ op[m].loop = "remove" => ~add
           /\ op'[m].kind = op[m].kind
           /\ (op'[m].loop = op[m].loop /\ op'[m].todo = op[m].todo \ {f}) \/ op[m].kind = "apply"
           /\ \A n \in Managers \ {m} : op'[n] = op[n]
    BY <1>1, RequestsDo
  <2>2. UNCHANGED <<online, retired, closed, host, link, due>>
    BY <1>1 DEF Requests, taskVars
  <2>3. \A n \in Managers \ {m} : requested'[n] = requested[n] /\ status'[n] = status[n]
    BY <2>1 DEF Asked, Types
  <2>4. op[m] # Idle /\ ~retired[m]
    BY <2>1 DEF Idle, Working
  <2>5. CASE op[m].kind = "shutdown"
    <3>1. ~add /\ op'[m].todo = op[m].todo \ {f}
      BY <2>1, <2>5 DEF Working
    <3>2. /\ \A g \in Rules \ {f} : status'[m][g] = status[m][g]
          /\ \A g \in Rules \ {f} : g \in requested'[m] => g \in requested[m]
          /\ f \in requested'[m] => status'[m][f] = "failed"
      BY <2>1, <3>1 DEF Asked, Types
    <3>3. requested'[m] \subseteq Rules
      BY TypesStep DEF Types
    <3>4. QED
      BY <2>1, <2>2, <2>3, <2>4, <3>1, <3>2, <3>3 DEF Cleaned
  <2>6. CASE op[m].kind # "shutdown"
    BY <2>1, <2>2, <2>3, <2>4, <2>6 DEF Cleaned
  <2>7. QED
    BY <2>5, <2>6
<1>2. ASSUME NEW m \in Managers, EndRemove(m) PROVE Cleaned'
  <2>1. op'[m].kind = op[m].kind /\ op[m].kind # "shutdown"
        /\ \A n \in Managers \ {m} : op'[n] = op[n]
    BY <1>2, EnterMoves DEF EndRemove, At, Loops, Operation, Types
  <2>2. UNCHANGED <<retired, requested, status>>
    BY <1>2 DEF EndRemove, liveVars
  <2>3. QED
    BY <2>1, <2>2 DEF Working, Cleaned
<1>3. ASSUME NEW m \in Managers, EndConnectRemove(m) PROVE Cleaned'
  <2>1. op[m].kind = "connect" /\ Enter(m, "add", op[m].desired)
    BY <1>3 DEF EndConnectRemove, At
  <2>2. op[m].desired \in SUBSET Rules /\ "add" \in Loops
    BY DEF Types, Operation, Loops
  <2>3. op'[m].kind = op[m].kind /\ \A n \in Managers \ {m} : op'[n] = op[n]
    BY <2>1, <2>2, EnterMoves
  <2>4. UNCHANGED <<retired, requested, status>>
    BY <1>3 DEF EndConnectRemove
  <2>5. QED
    BY <2>1, <2>3, <2>4 DEF Cleaned
<1>4. ASSUME NEW m \in Managers, EndAdd(m) PROVE Cleaned'
  <2>1. op'[m].kind = "idle" /\ \A n \in Managers \ {m} : op'[n] = op[n]
    BY <1>4, LetGoMoves DEF EndAdd
  <2>2. UNCHANGED <<retired, requested, status>>
    BY <1>4 DEF EndAdd, liveVars
  <2>3. QED
    BY <2>1, <2>2 DEF Working, Cleaned
<1>5. ASSUME NEW m \in Managers, RollBack(m) PROVE Cleaned'
  <2>1. (op'[m].kind = "idle" \/ op'[m].kind = op[m].kind) /\ op[m].kind # "shutdown"
        /\ \A n \in Managers \ {m} : op'[n] = op[n]
    BY <1>5, EnterMoves, LetGoMoves DEF RollBack, At, Loops, Operation, Types
  <2>2. UNCHANGED <<retired, requested, status>>
    BY <1>5 DEF RollBack, liveVars
  <2>3. QED
    BY <2>1, <2>2 DEF Working, Cleaned
<1>6. ASSUME NEW m \in Managers, BeginConnected(m) PROVE Cleaned'
  <2>1. op'[m].kind \in {op[m].kind, "connect"} /\ (op'[m].kind = "connect" \/ op' = op)
        /\ \A n \in Managers \ {m} : op'[n] = op[n]
    BY <1>6 DEF BeginConnected, Begin, Types
  <2>2. UNCHANGED <<retired, requested, status>>
    BY <1>6 DEF BeginConnected, liveVars
  <2>3. QED
    BY <2>1, <2>2 DEF Working, Cleaned
<1>7. ASSUME NEW m \in Managers, StopConnect(m) PROVE Cleaned'
  <2>1. op'[m].kind = "idle" /\ \A n \in Managers \ {m} : op'[n] = op[n]
    BY <1>7, LetGoMoves DEF StopConnect
  <2>2. UNCHANGED <<retired, requested, status>>
    BY <1>7 DEF StopConnect, liveVars
  <2>3. QED
    BY <2>1, <2>2 DEF Working, Cleaned
<1>8. ASSUME NEW m \in Managers, Abort(m) PROVE Cleaned'
  <2>1. (op' = op \/ op'[m].kind = "idle") /\ \A n \in Managers \ {m} : op'[n] = op[n]
    <3>1. LetGo(m) \/ op' = op
      BY <1>8 DEF Abort
    <3>2. QED
      BY <3>1, LetGoMoves
  <2>2. UNCHANGED <<retired, status>>
    BY <1>8 DEF Abort
  <2>3. CASE op[m].kind = "connect"
    <3>1. \A n \in Managers \ {m} : requested'[n] = requested[n]
      BY <1>8, CutOffDoes DEF Abort, Types
    <3>2. ~retired[m] /\ op'[m].kind = "idle"
      BY <1>8, <2>3, LetGoMoves DEF Abort, Idle, Working
    <3>3. QED
      BY <2>1, <2>2, <3>1, <3>2 DEF Cleaned
  <2>4. CASE op[m].kind # "connect"
    BY <1>8, <2>2, <2>4 DEF Abort, Cleaned
  <2>5. QED
    BY <2>3, <2>4
<1>9. ASSUME NEW m \in Managers, Disconnected(m) PROVE Cleaned'
  <2>1. ~closed[m] /\ ~retired[m] /\ op[m].kind # "shutdown"
    BY <1>9 DEF Disconnected, Working, Types
  <2>2. \A n \in Managers \ {m} : status'[n] = status[n]
    BY <1>9 DEF Disconnected, Types
  <2>3. UNCHANGED <<retired, requested, op>>
    BY <1>9 DEF Disconnected
  <2>4. QED
    BY <2>1, <2>2, <2>3 DEF Cleaned
<1>10. ASSUME NEW m \in Managers, BeginShutdown(m) PROVE Cleaned'
  <2>1. Begin(m, "shutdown", "remove", requested[m], {}, {}, {})
    BY <1>10 DEF BeginShutdown
  <2>2. op'[m].todo = requested[m] /\ \A n \in Managers \ {m} : op'[n] = op[n]
    BY <2>1 DEF Begin, Types
  <2>3. QED
    BY <1>10, <2>2 DEF BeginShutdown, Cleaned
<1>11. ASSUME NEW m \in Managers, EndShutdown(m) PROVE Cleaned'
  <2>1. op'[m].kind = "idle" /\ \A n \in Managers \ {m} : op'[n] = op[n]
    BY <1>11, LetGoMoves DEF EndShutdown
  <2>2. op[m].kind = "shutdown" /\ op[m].todo = {}
    BY <1>11 DEF EndShutdown, At
  <2>3. retired' = [retired EXCEPT ![m] = TRUE] /\ UNCHANGED <<requested, status>>
    BY <1>11 DEF EndShutdown
  <2>4. \A n \in Managers \ {m} : retired'[n] = retired[n]
    BY <2>3 DEF Types
  <2>5. \A f \in requested[m] : status[m][f] = "failed"
    BY <2>2 DEF Cleaned
  <2>6. QED
    BY <2>1, <2>3, <2>4, <2>5 DEF Cleaned
<1>12. ASSUME NEW m \in Managers, LinkUp(m) PROVE Cleaned'
  BY <1>12 DEF LinkUp, manager, liveVars, bounds, Cleaned
<1>13. ASSUME NEW m \in Managers, LinkLost(m) PROVE Cleaned'
  BY <1>13 DEF LinkLost, manager, liveVars, sshVars, Cleaned
<1>14. ASSUME NEW m \in Managers, Retire(m) PROVE Cleaned'
  BY <1>14 DEF Retire, liveVars, sshVars, bounds, Cleaned
<1>15. ASSUME NEW m \in Managers, NEW rules \in Saved, Dial(m, rules) PROVE Cleaned'
  BY <1>15 DEF Dial, liveVars, sshVars, bounds, Cleaned
<1>16. ASSUME NEW m \in Managers, NEW rules \in Edited, ApplyOnline(m, rules) PROVE Cleaned'
  <2>1. op'[m].kind = "apply" /\ \A n \in Managers \ {m} : op'[n] = op[n]
    BY <1>16 DEF ApplyOnline, Begin, Types
  <2>2. UNCHANGED <<retired, requested, status>>
    BY <1>16 DEF ApplyOnline, Edit, liveVars
  <2>3. QED
    BY <2>1, <2>2 DEF Working, Cleaned
<1>17. ASSUME NEW m \in Managers, NEW rules \in Edited, ApplyOffline(m, rules) PROVE Cleaned'
  <2>1. ~retired[m] /\ op[m] = Idle /\ op[m].kind # "shutdown"
    BY <1>17 DEF ApplyOffline, Edit, Working, Types
  <2>2. \A n \in Managers \ {m} : status'[n] = status[n]
    BY <1>17 DEF ApplyOffline, Types
  <2>3. UNCHANGED <<retired, requested, op>>
    BY <1>17 DEF ApplyOffline, Edit, liveVars
  <2>4. QED
    BY <2>1, <2>2, <2>3 DEF Cleaned
<1>18. ASSUME NEW m \in Managers, NEW rules \in Edited, Configure(m, rules) PROVE Cleaned'
  <2>1. (op' = op \/ op'[m].kind = "configure") /\ \A n \in Managers \ {m} : op'[n] = op[n]
    BY <1>18 DEF Configure, Begin, Types
  <2>2. UNCHANGED <<retired, requested, status>>
    BY <1>18 DEF Configure, Edit, liveVars
  <2>3. QED
    BY <2>1, <2>2 DEF Working, Cleaned
<1>19. CASE MasterDies
  BY <1>19 DEF MasterDies, manager, liveVars, Cleaned
<1>20. CASE UNCHANGED vars
  BY <1>20 DEF vars, manager, liveVars, sshVars, taskVars, bounds, Cleaned
<1>21. QED
  BY <1>1, <1>2, <1>3, <1>4, <1>5, <1>6, <1>7, <1>8, <1>9, <1>10, <1>11, <1>12, <1>13,
     <1>14, <1>15, <1>16, <1>17, <1>18, <1>19, <1>20 DEF Next, Work

LEMMA SucceededStep ==
    ASSUME Inv, [Next]_vars
    PROVE  Succeeded'
<1> USE DEF Inv
<1>1. ASSUME NEW m \in Managers, Requests(m) PROVE Succeeded'
  <2>1. UNCHANGED <<host, link, closed>>
    BY <1>1 DEF Requests, taskVars
  <2>2. QED
    BY <2>1 DEF Succeeded
<1>2. ASSUME NEW m \in Managers, EndRemove(m) PROVE Succeeded'
  <2>1. UNCHANGED <<host, link, closed>>
    BY <1>2 DEF EndRemove, taskVars
  <2>2. QED
    BY <2>1 DEF Succeeded
<1>3. ASSUME NEW m \in Managers, EndConnectRemove(m) PROVE Succeeded'
  <2>1. UNCHANGED <<host, link, closed>>
    BY <1>3 DEF EndConnectRemove, taskVars
  <2>2. QED
    BY <2>1 DEF Succeeded
<1>4. ASSUME NEW m \in Managers, EndAdd(m) PROVE Succeeded'
  <2>1. UNCHANGED <<host, link, closed>>
    BY <1>4 DEF EndAdd, taskVars
  <2>2. QED
    BY <2>1 DEF Succeeded
<1>5. ASSUME NEW m \in Managers, RollBack(m) PROVE Succeeded'
  <2>1. UNCHANGED <<host, link, closed>>
    BY <1>5 DEF RollBack, taskVars
  <2>2. QED
    BY <2>1 DEF Succeeded
<1>6. ASSUME NEW m \in Managers, BeginConnected(m) PROVE Succeeded'
  <2>1. UNCHANGED <<host, link, closed>>
    BY <1>6 DEF BeginConnected, taskVars
  <2>2. QED
    BY <2>1 DEF Succeeded
<1>7. ASSUME NEW m \in Managers, StopConnect(m) PROVE Succeeded'
  <2>1. UNCHANGED <<host, link, closed>>
    BY <1>7 DEF StopConnect, taskVars
  <2>2. QED
    BY <2>1 DEF Succeeded
<1>8. ASSUME NEW m \in Managers, Abort(m) PROVE Succeeded'
  <2>1. UNCHANGED <<host, link, closed>>
    BY <1>8 DEF Abort, taskVars
  <2>2. QED
    BY <2>1 DEF Succeeded
<1>9. ASSUME NEW m \in Managers, Disconnected(m) PROVE Succeeded'
  <2>1. host' = host /\ \A n \in Managers :
            (link'[n] = "none" <=> link[n] = "none") /\ (closed[n] => closed'[n])
    BY <1>9 DEF Disconnected, Types
  <2>2. \A k \in Managers : \A n \in 1..(k-1) : n \in Managers
    BY ForwardsAssumption DEF Managers
  <2>3. QED
    BY <2>1, <2>2 DEF Succeeded
<1>10. ASSUME NEW m \in Managers, BeginShutdown(m) PROVE Succeeded'
  <2>1. UNCHANGED <<host, link, closed>>
    BY <1>10 DEF BeginShutdown, taskVars
  <2>2. QED
    BY <2>1 DEF Succeeded
<1>11. ASSUME NEW m \in Managers, EndShutdown(m) PROVE Succeeded'
  <2>1. UNCHANGED <<host, link, closed>>
    BY <1>11 DEF EndShutdown, taskVars
  <2>2. QED
    BY <2>1 DEF Succeeded
<1>12. ASSUME NEW m \in Managers, LinkUp(m) PROVE Succeeded'
  <2>1. host' = host /\ \A n \in Managers :
            (link'[n] = "none" <=> link[n] = "none") /\ (closed[n] => closed'[n])
    BY <1>12 DEF LinkUp, Types, manager
  <2>2. \A k \in Managers : \A n \in 1..(k-1) : n \in Managers
    BY ForwardsAssumption DEF Managers
  <2>3. QED
    BY <2>1, <2>2 DEF Succeeded
<1>13. ASSUME NEW m \in Managers, LinkLost(m) PROVE Succeeded'
  <2>1. host' = host /\ \A n \in Managers :
            (link'[n] = "none" <=> link[n] = "none") /\ (closed[n] => closed'[n])
    BY <1>13 DEF LinkLost, Types, manager
  <2>2. \A k \in Managers : \A n \in 1..(k-1) : n \in Managers
    BY ForwardsAssumption DEF Managers
  <2>3. QED
    BY <2>1, <2>2 DEF Succeeded
<1>14. ASSUME NEW m \in Managers, Retire(m) PROVE Succeeded'
  <2>1. host' = host /\ \A n \in Managers :
            (link'[n] = "none" <=> link[n] = "none") /\ (closed[n] => closed'[n])
    BY <1>14 DEF Retire, Types
  <2>2. \A k \in Managers : \A n \in 1..(k-1) : n \in Managers
    BY ForwardsAssumption DEF Managers
  <2>3. QED
    BY <2>1, <2>2 DEF Succeeded
<1>15. ASSUME NEW m \in Managers, NEW rules \in Saved, Dial(m, rules) PROVE Succeeded'
  <2>1. link' = [link EXCEPT ![m] = "down"] /\ UNCHANGED <<host, closed>>
        /\ link[m] = "none"
        /\ \A n \in 1..(m-1) : link[n] # "none" /\ (host[n] = host[m] => closed[n])
    BY <1>15 DEF Dial
  <2>2. ASSUME NEW k \in Managers, link'[k] # "none", NEW n \in 1..(k-1)
        PROVE  link'[n] # "none" /\ (host'[n] = host'[k] => closed'[n])
    <3>1. n \in Managers
      BY <2>2, ForwardsAssumption DEF Managers
    <3>2. CASE k = m
      BY <2>1, <2>2, <3>1, <3>2 DEF Types, Managers
    <3>3. CASE k # m
      BY <2>1, <2>2, <3>1, <3>3 DEF Types, Succeeded
    <3>4. QED
      BY <3>2, <3>3
  <2>3. QED
    BY <2>2 DEF Succeeded
<1>16. ASSUME NEW m \in Managers, NEW rules \in Edited, ApplyOnline(m, rules) PROVE Succeeded'
  <2>1. UNCHANGED <<host, link, closed>>
    BY <1>16 DEF ApplyOnline, Edit, taskVars
  <2>2. QED
    BY <2>1 DEF Succeeded
<1>17. ASSUME NEW m \in Managers, NEW rules \in Edited, ApplyOffline(m, rules) PROVE Succeeded'
  <2>1. UNCHANGED <<host, link, closed>>
    BY <1>17 DEF ApplyOffline, Edit, taskVars
  <2>2. QED
    BY <2>1 DEF Succeeded
<1>18. ASSUME NEW m \in Managers, NEW rules \in Edited, Configure(m, rules) PROVE Succeeded'
  <2>1. UNCHANGED <<host, link, closed>>
    BY <1>18 DEF Configure, Edit, taskVars
  <2>2. QED
    BY <2>1 DEF Succeeded
<1>19. CASE MasterDies
  <2>1. host' = host /\ \A n \in Managers :
            (link'[n] = "none" <=> link[n] = "none") /\ (closed[n] => closed'[n])
    BY <1>19 DEF MasterDies, Types, manager
  <2>2. \A k \in Managers : \A n \in 1..(k-1) : n \in Managers
    BY ForwardsAssumption DEF Managers
  <2>3. QED
    BY <2>1, <2>2 DEF Succeeded
<1>20. CASE UNCHANGED vars
  BY <1>20 DEF vars, manager, taskVars, Succeeded
<1>21. QED
  BY <1>1, <1>2, <1>3, <1>4, <1>5, <1>6, <1>7, <1>8, <1>9, <1>10, <1>11, <1>12, <1>13,
     <1>14, <1>15, <1>16, <1>17, <1>18, <1>19, <1>20 DEF Next, Work

LEMMA NothingForgottenStep ==
    ASSUME Inv, [Next]_vars
    PROVE  NothingForgotten'
<1> USE DEF Inv
<1>1. ASSUME NEW m \in Managers, Requests(m) PROVE NothingForgotten'
  <2>1. PICK f \in op[m].todo, add \in BOOLEAN, ok \in BOOLEAN :
           /\ f \in Rules /\ Asked(m, f, add, ok)
           /\ op[m].loop = "remove" => ~add
           /\ op'[m].kind = op[m].kind
           /\ (op'[m].loop = op[m].loop /\ op'[m].todo = op[m].todo \ {f}) \/ op[m].kind = "apply"
           /\ \A n \in Managers \ {m} : op'[n] = op[n]
    BY <1>1, RequestsDo
  <2>2. UNCHANGED <<online, retired, closed, host, link, due>>
    BY <1>1 DEF Requests, taskVars
  <2>3. /\ Untouched \/ Touched(m, f)
        /\ ok /\ ~add => f \notin listening' \/ (Untouched /\ owner[f].gen > m)
    BY <2>1, RequestTouches DEF Asked
  <2>4. /\ \A n \in Managers \ {m} : requested'[n] = requested[n]
        /\ \A g \in Rules \ {f} : g \in requested[m] => g \in requested'[m]
        /\ add \/ ~ok => f \in requested'[m]
    BY <2>1 DEF Asked, Types
  <2>5. ASSUME NEW g \in listening' PROVE owner'[g].gen # 0 /\ g \in requested'[owner'[g].gen]
    <3>1. g \in Rules
      BY <2>5, TypesStep DEF Types
    <3>2. CASE g # f
      <4>1. g \in listening /\ owner'[g] = owner[g]
        BY <2>3, <2>5, <3>1, <3>2 DEF Touched, Untouched
      <4>2. owner[g].gen \in Managers
        BY <3>1, <4>1 DEF NothingForgotten, Types, Managers
      <4>3. QED
        BY <2>4, <3>1, <3>2, <4>1, <4>2 DEF NothingForgotten
    <3>3. CASE g = f /\ Touched(m, f)
      <4>1. add \/ ~ok \/ owner[f].gen > m
        BY <2>3, <2>5, <3>3
      <4>2. add \/ ~ok
        BY <3>3, <4>1 DEF Touched, Superseded
      <4>3. QED
        BY <2>4, <3>3, <4>2 DEF Touched, Managers
    <3>4. CASE g = f /\ Untouched
      <4>1. owner[f].gen \in Managers /\ f \in requested[owner[f].gen]
        BY <2>5, <3>1, <3>4 DEF NothingForgotten, Untouched, Types, Managers
      <4>2. QED
        BY <2>3, <2>4, <2>5, <3>4, <4>1 DEF Untouched, Managers
    <3>5. QED
      BY <2>3, <3>2, <3>3, <3>4
  <2>6. QED
    BY <2>5 DEF NothingForgotten
<1>2. ASSUME NEW m \in Managers, EndRemove(m) PROVE NothingForgotten'
  <2>1. UNCHANGED <<owner, listening, requested>>
    BY <1>2 DEF EndRemove, manager, liveVars, sshVars
  <2>2. QED
    BY <2>1 DEF NothingForgotten
<1>3. ASSUME NEW m \in Managers, EndConnectRemove(m) PROVE NothingForgotten'
  <2>1. UNCHANGED <<owner, listening, requested>>
    BY <1>3 DEF EndConnectRemove, manager, liveVars, sshVars
  <2>2. QED
    BY <2>1 DEF NothingForgotten
<1>4. ASSUME NEW m \in Managers, EndAdd(m) PROVE NothingForgotten'
  <2>1. UNCHANGED <<owner, listening, requested>>
    BY <1>4 DEF EndAdd, manager, liveVars, sshVars
  <2>2. QED
    BY <2>1 DEF NothingForgotten
<1>5. ASSUME NEW m \in Managers, RollBack(m) PROVE NothingForgotten'
  <2>1. UNCHANGED <<owner, listening, requested>>
    BY <1>5 DEF RollBack, manager, liveVars, sshVars
  <2>2. QED
    BY <2>1 DEF NothingForgotten
<1>6. ASSUME NEW m \in Managers, BeginConnected(m) PROVE NothingForgotten'
  <2>1. UNCHANGED <<owner, listening, requested>>
    BY <1>6 DEF BeginConnected, manager, liveVars, sshVars
  <2>2. QED
    BY <2>1 DEF NothingForgotten
<1>7. ASSUME NEW m \in Managers, StopConnect(m) PROVE NothingForgotten'
  <2>1. UNCHANGED <<owner, listening, requested>>
    BY <1>7 DEF StopConnect, manager, liveVars, sshVars
  <2>2. QED
    BY <2>1 DEF NothingForgotten
<1>8. ASSUME NEW m \in Managers, Abort(m) PROVE NothingForgotten'
  <2>1. CASE UNCHANGED <<requested, owner, listening>>
    BY <2>1 DEF NothingForgotten
  <2>2. ASSUME NEW f \in op[m].todo, CutOff(m, f) PROVE NothingForgotten'
    <3>1. f \in Rules /\ requested' = [requested EXCEPT ![m] = requested[m] \cup {f}]
          /\ (Untouched \/ Touched(m, f)) /\ listening' \subseteq Rules
      BY <2>2, CutOffDoes
    <3>2. ASSUME NEW g \in listening'
          PROVE  owner'[g].gen # 0 /\ g \in requested'[owner'[g].gen]
      <4>1. CASE g = f /\ Touched(m, f)
        <5>1. f \in requested'[m]
          BY <3>1 DEF Types
        <5>2. QED
          BY <4>1, <5>1 DEF Touched, Managers
      <4>2. CASE g # f \/ Untouched
        <5>1. g \in listening /\ owner'[g] = owner[g] /\ g \in Rules
          BY <3>1, <3>2, <4>2 DEF Touched, Untouched
        <5>2. owner[g].gen \in Managers /\ g \in requested[owner[g].gen]
          BY <5>1 DEF NothingForgotten, Types, Managers
        <5>3. requested[owner[g].gen] \subseteq requested'[owner[g].gen]
          BY <3>1, <5>2 DEF Types
        <5>4. QED
          BY <5>1, <5>2, <5>3, ForwardsAssumption DEF Managers
      <4>3. QED
        BY <3>1, <4>1, <4>2
    <3>3. QED
      BY <3>2 DEF NothingForgotten
  <2>3. QED
    BY <1>8, <2>1, <2>2 DEF Abort
<1>9. ASSUME NEW m \in Managers, Disconnected(m) PROVE NothingForgotten'
  <2>1. UNCHANGED <<owner, listening, requested>>
    BY <1>9 DEF Disconnected, manager, liveVars, sshVars
  <2>2. QED
    BY <2>1 DEF NothingForgotten
<1>10. ASSUME NEW m \in Managers, BeginShutdown(m) PROVE NothingForgotten'
  <2>1. UNCHANGED <<owner, listening, requested>>
    BY <1>10 DEF BeginShutdown, manager, liveVars, sshVars
  <2>2. QED
    BY <2>1 DEF NothingForgotten
<1>11. ASSUME NEW m \in Managers, EndShutdown(m) PROVE NothingForgotten'
  <2>1. UNCHANGED <<owner, listening, requested>>
    BY <1>11 DEF EndShutdown, manager, liveVars, sshVars
  <2>2. QED
    BY <2>1 DEF NothingForgotten
<1>12. ASSUME NEW m \in Managers, LinkUp(m) PROVE NothingForgotten'
  <2>1. UNCHANGED <<owner, listening, requested>>
    BY <1>12 DEF LinkUp, manager, liveVars, sshVars
  <2>2. QED
    BY <2>1 DEF NothingForgotten
<1>13. ASSUME NEW m \in Managers, LinkLost(m) PROVE NothingForgotten'
  <2>1. UNCHANGED <<owner, listening, requested>>
    BY <1>13 DEF LinkLost, manager, liveVars, sshVars
  <2>2. QED
    BY <2>1 DEF NothingForgotten
<1>14. ASSUME NEW m \in Managers, Retire(m) PROVE NothingForgotten'
  <2>1. UNCHANGED <<owner, listening, requested>>
    BY <1>14 DEF Retire, manager, liveVars, sshVars
  <2>2. QED
    BY <2>1 DEF NothingForgotten
<1>15. ASSUME NEW m \in Managers, NEW rules \in Saved, Dial(m, rules) PROVE NothingForgotten'
  <2>1. UNCHANGED <<owner, listening, requested>>
    BY <1>15 DEF Dial, manager, liveVars, sshVars
  <2>2. QED
    BY <2>1 DEF NothingForgotten
<1>16. ASSUME NEW m \in Managers, NEW rules \in Edited, ApplyOnline(m, rules)
      PROVE NothingForgotten'
  <2>1. UNCHANGED <<owner, listening, requested>>
    BY <1>16 DEF ApplyOnline, Edit, manager, liveVars, sshVars
  <2>2. QED
    BY <2>1 DEF NothingForgotten
<1>17. ASSUME NEW m \in Managers, NEW rules \in Edited, ApplyOffline(m, rules)
      PROVE NothingForgotten'
  <2>1. UNCHANGED <<owner, listening, requested>>
    BY <1>17 DEF ApplyOffline, Edit, manager, liveVars, sshVars
  <2>2. QED
    BY <2>1 DEF NothingForgotten
<1>18. ASSUME NEW m \in Managers, NEW rules \in Edited, Configure(m, rules)
      PROVE NothingForgotten'
  <2>1. UNCHANGED <<owner, listening, requested>>
    BY <1>18 DEF Configure, Edit, manager, liveVars, sshVars
  <2>2. QED
    BY <2>1 DEF NothingForgotten
<1>19. CASE MasterDies
  BY <1>19 DEF MasterDies, NothingForgotten
<1>20. CASE UNCHANGED vars
  BY <1>20 DEF vars, manager, liveVars, sshVars, NothingForgotten
<1>21. QED
  BY <1>1, <1>2, <1>3, <1>4, <1>5, <1>6, <1>7, <1>8, <1>9, <1>10, <1>11, <1>12, <1>13,
     <1>14, <1>15, <1>16, <1>17, <1>18, <1>19, <1>20 DEF Next, Work

LEMMA ClaimedStep ==
    ASSUME Inv, [Next]_vars
    PROVE  Claimed'
<1> USE DEF Inv
<1>1. ASSUME NEW m \in Managers, Requests(m) PROVE Claimed'
  <2>1. PICK f \in op[m].todo, add \in BOOLEAN, ok \in BOOLEAN :
           /\ f \in Rules /\ Asked(m, f, add, ok)
           /\ op[m].loop = "remove" => ~add
           /\ op'[m].kind = op[m].kind
           /\ (op'[m].loop = op[m].loop /\ op'[m].todo = op[m].todo \ {f}) \/ op[m].kind = "apply"
           /\ \A n \in Managers \ {m} : op'[n] = op[n]
    BY <1>1, RequestsDo
  <2>2. UNCHANGED <<online, retired, closed, host, link, due>>
    BY <1>1 DEF Requests, taskVars
  <2>3. /\ Untouched \/ Touched(m, f)
        /\ ok /\ add => f \in listening' /\ owner'[f] = [gen |-> m, active |-> TRUE]
    BY <2>1, RequestTouches DEF Asked
  <2>4. /\ \A n \in Managers \ {m} : status'[n] = status[n]
        /\ \A g \in Rules \ {f} : status'[m][g] = status[m][g]
        /\ status'[m][f] = "listening" => add /\ ok
    BY <2>1 DEF Asked, Types
  <2>5. op[m] # Idle /\ link[m] \in {"up", "lost", "gone"}
    BY <2>1 DEF Idle, Working
  <2>6. ASSUME NEW k \in Managers \ {m}, NEW g \in Rules, status'[k][g] = "listening"
        PROVE  /\ link'[k] \in {"up", "lost", "gone"}
               /\ link'[k] = "up" => g \in listening' /\ owner'[g] = [gen |-> k, active |-> TRUE]
    <3>1. link[k] \in {"up", "lost", "gone"} /\ status[k][g] = "listening"
      BY <2>2, <2>4, <2>6 DEF Claimed
    <3>2. ASSUME link[k] = "up"
          PROVE g \in listening' /\ owner'[g] = [gen |-> k, active |-> TRUE]
      <4>1. CASE g = f
        BY <2>3, <2>5, <3>1, <3>2, <4>1, ClaimHolds
      <4>2. CASE g # f
        BY <2>3, <3>1, <3>2, <4>2 DEF Claimed, Touched, Untouched
      <4>3. QED
        BY <4>1, <4>2
    <3>3. QED
      BY <2>2, <3>1, <3>2
  <2>7. ASSUME NEW g \in Rules, status'[m][g] = "listening"
        PROVE  link[m] = "up" => g \in listening' /\ owner'[g] = [gen |-> m, active |-> TRUE]
    <3>1. CASE g = f
      BY <2>3, <2>4, <2>7, <3>1
    <3>2. CASE g # f
      BY <2>3, <2>4, <2>7, <3>2 DEF Claimed, Touched, Untouched
    <3>3. QED
      BY <3>1, <3>2
  <2>8. QED
    BY <2>2, <2>5, <2>6, <2>7 DEF Claimed
<1>2. ASSUME NEW m \in Managers, EndRemove(m) PROVE Claimed'
  <2>1. UNCHANGED <<owner, listening, link, status>>
    BY <1>2 DEF EndRemove, sshVars, taskVars
  <2>2. QED
    BY <2>1 DEF Claimed
<1>3. ASSUME NEW m \in Managers, EndConnectRemove(m) PROVE Claimed'
  <2>1. UNCHANGED <<owner, listening, link, status>>
    BY <1>3 DEF EndConnectRemove, sshVars, taskVars
  <2>2. QED
    BY <2>1 DEF Claimed
<1>4. ASSUME NEW m \in Managers, EndAdd(m) PROVE Claimed'
  <2>1. UNCHANGED <<owner, listening, link, status>>
    BY <1>4 DEF EndAdd, sshVars, taskVars
  <2>2. QED
    BY <2>1 DEF Claimed
<1>5. ASSUME NEW m \in Managers, RollBack(m) PROVE Claimed'
  <2>1. UNCHANGED <<owner, listening, link, status>>
    BY <1>5 DEF RollBack, sshVars, taskVars
  <2>2. QED
    BY <2>1 DEF Claimed
<1>6. ASSUME NEW m \in Managers, BeginConnected(m) PROVE Claimed'
  <2>1. UNCHANGED <<owner, listening, link, status>>
    BY <1>6 DEF BeginConnected, sshVars, taskVars
  <2>2. QED
    BY <2>1 DEF Claimed
<1>7. ASSUME NEW m \in Managers, StopConnect(m) PROVE Claimed'
  <2>1. UNCHANGED <<owner, listening, link, status>>
    BY <1>7 DEF StopConnect, sshVars, taskVars
  <2>2. QED
    BY <2>1 DEF Claimed
<1>8. ASSUME NEW m \in Managers, Abort(m) PROVE Claimed'
  <2>1. UNCHANGED <<link, status>> /\ link[m] \in {"lost", "gone"}
    BY <1>8 DEF Abort
  <2>2. CASE UNCHANGED <<owner, listening>>
    BY <2>1, <2>2 DEF Claimed
  <2>3. ASSUME NEW f \in op[m].todo, CutOff(m, f) PROVE Claimed'
    <3>1. f \in Rules /\ (Untouched \/ Touched(m, f))
      BY <2>3, CutOffDoes
    <3>2. ASSUME NEW k \in Managers, NEW g \in Rules, status[k][g] = "listening", link[k] = "up"
          PROVE  g \in listening' /\ owner'[g] = [gen |-> k, active |-> TRUE]
      <4>1. k # m
        BY <2>1, <3>2
      <4>2. CASE g = f
        BY <2>1, <3>1, <3>2, <4>1, <4>2, ClaimHolds
      <4>3. CASE g # f
        BY <3>1, <3>2, <4>3 DEF Claimed, Touched, Untouched
      <4>4. QED
        BY <4>2, <4>3
    <3>3. QED
      BY <2>1, <3>2 DEF Claimed
  <2>4. QED
    BY <1>8, <2>2, <2>3 DEF Abort
<1>9. ASSUME NEW m \in Managers, Disconnected(m) PROVE Claimed'
  <2>1. \A f \in Rules : status'[m][f] # "listening"
    BY <1>9 DEF Disconnected, Types
  <2>2. UNCHANGED <<owner, listening>>
        /\ \A n \in Managers \ {m} : status'[n] = status[n] /\ link'[n] = link[n]
    BY <1>9 DEF Disconnected, sshVars, Types
  <2>3. QED
    BY <2>1, <2>2 DEF Claimed
<1>10. ASSUME NEW m \in Managers, BeginShutdown(m) PROVE Claimed'
  <2>1. UNCHANGED <<owner, listening, link, status>>
    BY <1>10 DEF BeginShutdown, sshVars, taskVars
  <2>2. QED
    BY <2>1 DEF Claimed
<1>11. ASSUME NEW m \in Managers, EndShutdown(m) PROVE Claimed'
  <2>1. UNCHANGED <<owner, listening, link, status>>
    BY <1>11 DEF EndShutdown, sshVars, taskVars
  <2>2. QED
    BY <2>1 DEF Claimed
<1>12. ASSUME NEW m \in Managers, LinkUp(m) PROVE Claimed'
  <2>1. link[m] = "down" /\ link' = [link EXCEPT ![m] = "up"]
        /\ UNCHANGED <<status, owner, listening>>
    BY <1>12 DEF LinkUp, manager
  <2>2. \A f \in Rules : status[m][f] # "listening"
    BY <2>1 DEF Claimed
  <2>3. QED
    BY <2>1, <2>2 DEF Claimed, Types
<1>13. ASSUME NEW m \in Managers, LinkLost(m) PROVE Claimed'
  <2>1. link' \in {[link EXCEPT ![m] = "lost"], [link EXCEPT ![m] = "gone"]}
        /\ UNCHANGED <<status, owner, listening>>
    BY <1>13 DEF LinkLost, manager, sshVars
  <2>2. QED
    BY <2>1 DEF Claimed, Types
<1>14. ASSUME NEW m \in Managers, Retire(m) PROVE Claimed'
  <2>1. link' \in {[link EXCEPT ![m] = "lost"], [link EXCEPT ![m] = "gone"]}
        /\ UNCHANGED <<status, owner, listening>>
    BY <1>14 DEF Retire, manager, sshVars
  <2>2. QED
    BY <2>1 DEF Claimed, Types
<1>15. ASSUME NEW m \in Managers, NEW rules \in Saved, Dial(m, rules) PROVE Claimed'
  <2>1. link[m] = "none" /\ link' = [link EXCEPT ![m] = "down"]
        /\ UNCHANGED <<status, owner, listening>>
    BY <1>15 DEF Dial, sshVars
  <2>2. \A f \in Rules : status[m][f] # "listening"
    BY <2>1 DEF Claimed
  <2>3. QED
    BY <2>1, <2>2 DEF Claimed, Types
<1>16. ASSUME NEW m \in Managers, NEW rules \in Edited, ApplyOnline(m, rules) PROVE Claimed'
  <2>1. UNCHANGED <<owner, listening, link, status>>
    BY <1>16 DEF ApplyOnline, Edit, sshVars, taskVars
  <2>2. QED
    BY <2>1 DEF Claimed
<1>17. ASSUME NEW m \in Managers, NEW rules \in Edited, ApplyOffline(m, rules) PROVE Claimed'
  <2>1. UNCHANGED <<link, owner, listening>>
    BY <1>17 DEF ApplyOffline, Edit, sshVars, taskVars
  <2>2. \A k \in Managers, f \in Rules :
            status'[k][f] = "listening" => status[k][f] = "listening"
    BY <1>17 DEF ApplyOffline, Types
  <2>3. QED
    BY <2>1, <2>2 DEF Claimed
<1>18. ASSUME NEW m \in Managers, NEW rules \in Edited, Configure(m, rules) PROVE Claimed'
  <2>1. UNCHANGED <<owner, listening, link, status>>
    BY <1>18 DEF Configure, Edit, sshVars, taskVars
  <2>2. QED
    BY <2>1 DEF Claimed
<1>19. CASE MasterDies
  <2>1. \A k \in Managers : link'[k] # "up" /\ (link[k] \in {"up", "lost", "gone"} =>
                                              link'[k] \in {"up", "lost", "gone"})
    BY <1>19 DEF MasterDies, Types
  <2>2. status' = status
    BY <1>19 DEF MasterDies, manager
  <2>3. QED
    BY <2>1, <2>2 DEF Claimed
<1>20. CASE UNCHANGED vars
  BY <1>20 DEF vars, manager, sshVars, taskVars, Claimed
<1>21. QED
  BY <1>1, <1>2, <1>3, <1>4, <1>5, <1>6, <1>7, <1>8, <1>9, <1>10, <1>11, <1>12, <1>13,
     <1>14, <1>15, <1>16, <1>17, <1>18, <1>19, <1>20 DEF Next, Work

------------------------------------------------------------------------------
(* Rules in force, and rules left over *)

Shown(m, f) == status[m][f] \in {"listening", "failed"}

\* Every rule in force listens or shows its failure, those in rest apart.
Shows(m, rest) == \A f \in wanted[m] : Shown(m, f) \/ f \in rest

\* Every other that may listen shows its failure, those in rest apart.
LeftOver(m, rest) == \A f \in requested[m] \ wanted[m] : status[m][f] = "failed" \/ f \in rest

\* While the host is away, whatever may listen waits for its end or shows why not.
Away(m) == \A f \in requested[m] : status[m][f] \in {"waiting", "failed"}

Kept(m) == \A f \in active[m] : Shown(m, f)

\* The rules in force are asked for, and nothing else is open.
Adding(m) ==
    /\ online[m] /\ op[m].todo \subseteq wanted[m]
    /\ Kept(m) /\ Shows(m, op[m].todo) /\ LeftOver(m, {})

Connecting(m) ==
    /\ op[m].kind = "connect" /\ op[m].desired = wanted[m]
    /\ \/ /\ op[m].loop = "remove" /\ ~online[m]
          /\ \A f \in requested[m] : status[m][f] = "failed" \/ f \in op[m].todo
       \/ op[m].loop = "add" /\ Adding(m)

Configuring(m) ==
    /\ op[m].kind = "configure" /\ op[m].desired = wanted[m]
    /\ \/ op[m].loop = "remove" /\ online[m] /\ Kept(m) /\ LeftOver(m, op[m].todo)
       \/ op[m].loop = "add" /\ Adding(m)

\* What an edit adds and removes covers its difference to the rules in force.
Differs(m) ==
    /\ op[m].desired \ wanted[m] \subseteq op[m].added /\ op[m].added \subseteq op[m].desired
    /\ op[m].removed \cap op[m].desired = {}

\* The loops of an edit: an edit that failed has left open only what it added,
\* which it takes back, and what it removed, which it restores.
EditStage(m) ==
    \/ /\ op[m].loop = "remove" /\ op[m].todo \subseteq op[m].removed
       /\ (wanted[m] \cup requested[m]) \ op[m].desired \subseteq op[m].removed
       /\ requested[m] \cap op[m].removed \subseteq op[m].todo
       /\ LeftOver(m, {})
    \/ /\ op[m].loop = "add" /\ op[m].todo \subseteq op[m].added
       /\ requested[m] \subseteq op[m].desired
       /\ \A f \in op[m].desired : Shown(m, f) \/ f \in op[m].todo
    \/ op[m].loop = "failed" /\ op[m].todo = {} /\ LeftOver(m, op[m].added)
    \/ op[m].loop = "undo" /\ op[m].todo \cap wanted[m] = {} /\ LeftOver(m, op[m].todo)
    \/ op[m].loop = "restore" /\ Adding(m)

Editing(m) ==
    /\ op[m].kind = "apply" /\ online[m] /\ Kept(m)
    /\ Differs(m) /\ Shows(m, op[m].removed \ active[m])
    /\ EditStage(m)

Resting(m) == op[m] = Idle /\ online[m] /\ Kept(m) /\ Shows(m, {}) /\ LeftOver(m, {})

\* A manager whose host is connected.
Serving(m) ==
    \/ due[m] /\ ~online[m] /\ op[m] = Idle /\ Away(m)
    \/ ~due[m] /\ (Connecting(m) \/ Configuring(m) \/ Editing(m) \/ Resting(m))

Accounted(m) ==
    /\ link[m] = "none" => requested[m] = {}
    /\ link[m] = "down" => Away(m)
    /\ link[m] = "up" => Serving(m)

Accounts == \A m \in Managers : Accounted(m)

\* Nobody else touches what a manager accounts for.
Bystander(m) ==
    /\ link'[m] = link[m] /\ due'[m] = due[m] /\ online'[m] = online[m]
    /\ active'[m] = active[m] /\ requested'[m] = requested[m] /\ wanted'[m] = wanted[m]
    /\ status'[m] = status[m] /\ op'[m] = op[m]

LEMMA BystanderKeeps ==
    ASSUME NEW m \in Managers, Accounted(m), Bystander(m)
    PROVE  Accounted(m)'
<1>1. Away(m) <=> Away(m)'
  BY DEF Bystander, Away
<1>2. Kept(m) <=> Kept(m)'
  BY DEF Bystander, Kept, Shown
<1>3. Adding(m) <=> Adding(m)'
  BY <1>2 DEF Bystander, Adding, Shows, LeftOver, Shown
<1>4. (Connecting(m) <=> Connecting(m)') /\ (Configuring(m) <=> Configuring(m)')
  BY <1>2, <1>3 DEF Bystander, Connecting, Configuring, LeftOver
<1>5. EditStage(m) <=> EditStage(m)'
  BY <1>3 DEF Bystander, EditStage, LeftOver, Shown
<1>6. Editing(m) <=> Editing(m)'
  BY <1>2, <1>5 DEF Bystander, Editing, Differs, Shows, Shown
<1>7. Resting(m) <=> Resting(m)'
  BY <1>2 DEF Bystander, Resting, Shows, LeftOver, Shown
<1>8. QED
  BY <1>1, <1>4, <1>6, <1>7 DEF Bystander, Accounted, Serving

\* A step of one manager is its own to account for.
LEMMA OneAccounts ==
    ASSUME Accounts, NEW m \in Managers, Accounted(m)',
           \A n \in Managers \ {m} : Bystander(n)
    PROVE  Accounts'
BY BystanderKeeps DEF Accounts

\* What a request does to the books of its manager.
Booked(m, f, add, ok) ==
    /\ requested'[m] = IF ~add /\ ok THEN requested[m] \ {f} ELSE requested[m] \cup {f}
    /\ active'[m] \subseteq active[m] \cup {f} /\ active[m] \ {f} \subseteq active'[m]
    /\ f \in active'[m] => add /\ (ok \/ f \in active[m])
    /\ \A g \in Rules \ {f} : status'[m][g] = status[m][g]
    /\ status'[m][f] = IF ok THEN IF add THEN "listening" ELSE "off" ELSE "failed"
    /\ \A n \in Managers \ {m} : /\ requested'[n] = requested[n]
                                 /\ active'[n] = active[n] /\ status'[n] = status[n]

LEMMA AskedDoes ==
    ASSUME Types, NEW m \in Managers, NEW f \in Rules, NEW add \in BOOLEAN,
           NEW ok \in BOOLEAN, Asked(m, f, add, ok)
    PROVE  Booked(m, f, add, ok)
<1>1. CASE add
  BY <1>1 DEF Asked, Types, Booked
<1>2. CASE ~add
  BY <1>2 DEF Asked, Types, Booked
<1>3. QED
  BY <1>1, <1>2

\* A rule in force that is asked for is shown from then on.
LEMMA AddingStep ==
    ASSUME Inv, NEW m \in Managers, NEW f \in op[m].todo, NEW ok \in BOOLEAN,
           f \in Rules, Asked(m, f, TRUE, ok), Adding(m),
           op'[m].todo = op[m].todo \ {f}, online'[m] = online[m], wanted'[m] = wanted[m]
    PROVE  Adding(m)'
<1> USE DEF Inv
<1>1. /\ requested'[m] = requested[m] \cup {f} /\ active'[m] \subseteq active[m] \cup {f}
      /\ \A g \in Rules \ {f} : status'[m][g] = status[m][g]
      /\ status'[m][f] \in {"listening", "failed"}
  <2>1. Booked(m, f, TRUE, ok)
    BY AskedDoes
  <2>2. QED
    BY <2>1 DEF Booked
<1>2. f \in wanted[m] /\ wanted[m] \subseteq Rules /\ active[m] \subseteq Rules
      /\ requested[m] \subseteq Rules
  BY DEF Adding, Types
<1>3. Kept(m)'
  BY <1>1, <1>2 DEF Adding, Kept, Shown
<1>4. Shows(m, op[m].todo)'
  BY <1>1, <1>2 DEF Adding, Shows, Shown
<1>5. LeftOver(m, {})'
  BY <1>1, <1>2 DEF Adding, LeftOver
<1>6. QED
  BY <1>3, <1>4, <1>5 DEF Adding

LEMMA RequestsAccount ==
    ASSUME Inv, Accounts, NEW m \in Managers, Requests(m)
    PROVE  Accounts'
<1> USE DEF Inv
<1>1. PICK f \in op[m].todo, add \in BOOLEAN, ok \in BOOLEAN :
         /\ f \in Rules /\ Asked(m, f, add, ok)
         /\ op[m].loop \in IF add THEN {"add", "restore"} ELSE {"remove", "undo"}
         /\ op'[m].kind = op[m].kind /\ SameEdit(m)
         /\ \/ /\ op'[m].loop = op[m].loop /\ op'[m].todo = op[m].todo \ {f}
               /\ ok \/ op[m].kind # "apply" \/ op[m].loop \in {"undo", "restore"}
            \/ /\ op[m].kind = "apply" /\ ~ok /\ op[m].loop \in {"remove", "add"}
               /\ op'[m].loop = "failed" /\ op'[m].todo = {}
         /\ \A n \in Managers \ {m} : op'[n] = op[n]
  BY RequestsDo
<1>2. UNCHANGED <<online, wanted, link, due>>
  BY DEF Requests, taskVars
<1>3. /\ requested'[m] = IF ~add /\ ok THEN requested[m] \ {f} ELSE requested[m] \cup {f}
      /\ active'[m] \subseteq active[m] \cup {f} /\ active[m] \ {f} \subseteq active'[m]
      /\ f \in active'[m] => add /\ (ok \/ f \in active[m])
      /\ \A g \in Rules \ {f} : status'[m][g] = status[m][g]
      /\ status'[m][f] = IF ok THEN IF add THEN "listening" ELSE "off" ELSE "failed"
      /\ \A n \in Managers \ {m} : /\ requested'[n] = requested[n]
                                   /\ active'[n] = active[n] /\ status'[n] = status[n]
  <2>1. Booked(m, f, add, ok)
    BY <1>1, AskedDoes
  <2>2. QED
    BY <2>1 DEF Booked
<1>4. /\ wanted[m] \subseteq Rules /\ active[m] \subseteq Rules /\ requested[m] \subseteq Rules
      /\ op[m].desired \subseteq Rules /\ op[m].todo \subseteq Rules
      /\ op[m].added \subseteq Rules /\ op[m].removed \subseteq Rules
  BY DEF Types, Operation
<1>5. op[m] # Idle /\ link[m] \in {"up", "lost", "gone"}
  BY <1>1 DEF Idle, Working
<1>6. ASSUME link[m] = "up" PROVE Serving(m)'
  <2>1. ~due[m] /\ (Connecting(m) \/ Configuring(m) \/ Editing(m))
    BY <1>5, <1>6 DEF Accounts, Accounted, Serving, Resting
  <2>2. CASE Connecting(m)
    <3>1. op'[m].loop = op[m].loop /\ op'[m].todo = op[m].todo \ {f}
      BY <1>1, <2>2 DEF Connecting
    <3>2. CASE op[m].loop = "remove"
      <4>1. ~add
        BY <1>1, <3>2
      <4>2. \A g \in requested'[m] : status'[m][g] = "failed" \/ g \in op'[m].todo
        BY <1>3, <1>4, <2>2, <3>1, <3>2, <4>1 DEF Connecting
      <4>3. QED
        BY <1>1, <1>2, <2>1, <2>2, <3>1, <3>2, <4>2 DEF Connecting, Serving, SameEdit
    <3>3. CASE op[m].loop = "add"
      <4>1. add /\ Adding(m)
        BY <1>1, <2>2, <3>3 DEF Connecting
      <4>2. Adding(m)'
        BY <1>1, <1>2, <3>1, <4>1, AddingStep
      <4>3. QED
        BY <1>1, <1>2, <2>1, <2>2, <3>1, <3>3, <4>2 DEF Connecting, Serving, SameEdit
    <3>4. QED
      BY <2>2, <3>2, <3>3 DEF Connecting
  <2>3. CASE Configuring(m)
    <3>1. op'[m].loop = op[m].loop /\ op'[m].todo = op[m].todo \ {f}
      BY <1>1, <2>3 DEF Configuring
    <3>2. CASE op[m].loop = "remove"
      <4>1. ~add
        BY <1>1, <3>2
      <4>2. LeftOver(m, op[m].todo)'
        BY <1>2, <1>3, <1>4, <2>3, <3>1, <3>2, <4>1 DEF Configuring, Adding, LeftOver
      <4>3. Kept(m)'
        BY <1>3, <1>4, <2>3, <4>1 DEF Configuring, Adding, Kept, Shown
      <4>4. op[m].desired = wanted[m] /\ online[m]
        BY <2>3 DEF Configuring, Adding
      <4>5. QED
        BY <1>1, <1>2, <2>1, <2>3, <3>1, <3>2, <4>2, <4>3, <4>4
           DEF Configuring, Serving, SameEdit
    <3>3. CASE op[m].loop = "add"
      <4>1. add /\ Adding(m)
        BY <1>1, <2>3, <3>3 DEF Configuring
      <4>2. Adding(m)'
        BY <1>1, <1>2, <3>1, <4>1, AddingStep
      <4>3. QED
        BY <1>1, <1>2, <2>1, <2>3, <3>1, <3>3, <4>2 DEF Configuring, Serving, SameEdit
    <3>4. QED
      BY <2>3, <3>2, <3>3 DEF Configuring
  <2>4. CASE Editing(m)
    <3>1. /\ op[m].kind = "apply" /\ online[m] /\ Kept(m) /\ Differs(m)
          /\ Shows(m, op[m].removed \ active[m]) /\ EditStage(m)
      BY <2>4 DEF Editing
    <3>2. Differs(m)'
      BY <1>1, <1>2, <3>1 DEF Differs, SameEdit
    <3>3. Kept(m)'
      BY <1>3, <1>4, <3>1 DEF Kept, Shown
    <3>4. SUFFICES Shows(m, op[m].removed \ active[m])' /\ EditStage(m)'
      BY <1>1, <1>2, <2>1, <3>1, <3>2, <3>3 DEF Serving, Editing
    <3>5. CASE op[m].loop = "remove"
      <4>1. ~add /\ op[m].todo \subseteq op[m].removed /\ LeftOver(m, {})
            /\ (wanted[m] \cup requested[m]) \ op[m].desired \subseteq op[m].removed
            /\ requested[m] \cap op[m].removed \subseteq op[m].todo
        BY <1>1, <3>1, <3>5 DEF EditStage
      <4>2. Shows(m, op[m].removed \ active[m])'
        BY <1>1, <1>2, <1>3, <1>4, <3>1, <4>1 DEF Shows, Shown, SameEdit
      <4>3. LeftOver(m, {})'
        BY <1>2, <1>3, <1>4, <4>1 DEF LeftOver
      <4>4. CASE op'[m].loop = "remove"
        <5>1. ok /\ op'[m].todo = op[m].todo \ {f}
          BY <1>1, <3>1, <3>5, <4>4
        <5>2. QED
          BY <1>1, <1>2, <1>3, <4>1, <4>2, <4>3, <4>4, <5>1 DEF EditStage, SameEdit
      <4>5. CASE op'[m].loop = "failed"
        <5>1. LeftOver(m, op[m].added)'
          BY <4>3 DEF LeftOver
        <5>2. QED
          BY <1>1, <4>2, <4>5, <5>1, <3>5 DEF EditStage
      <4>6. QED
        BY <1>1, <3>5, <4>4, <4>5
    <3>6. CASE op[m].loop = "add"
      <4>1. add /\ op[m].todo \subseteq op[m].added /\ requested[m] \subseteq op[m].desired
            /\ \A g \in op[m].desired : Shown(m, g) \/ g \in op[m].todo
        BY <1>1, <3>1, <3>6 DEF EditStage
      <4>2. Shows(m, op[m].removed \ active[m])'
        BY <1>1, <1>2, <1>3, <1>4, <3>1, <4>1 DEF Shows, Shown, SameEdit
      <4>3. requested'[m] \subseteq op[m].desired
        BY <1>3, <3>1, <4>1 DEF Differs
      <4>4. CASE op'[m].loop = "add"
        <5>1. op'[m].todo = op[m].todo \ {f}
          BY <1>1, <4>4
        <5>2. \A g \in op[m].desired : Shown(m, g)' \/ g \in op'[m].todo
          BY <1>3, <1>4, <4>1, <5>1 DEF Shown
        <5>3. QED
          BY <1>1, <4>1, <4>2, <4>3, <4>4, <5>1, <5>2 DEF EditStage, SameEdit
      <4>5. CASE op'[m].loop = "failed"
        <5>1. LeftOver(m, op[m].added)'
          BY <1>1, <1>2, <3>1, <4>3 DEF LeftOver, Differs, SameEdit
        <5>2. QED
          BY <1>1, <3>6, <4>2, <4>5, <5>1 DEF EditStage
      <4>6. QED
        BY <1>1, <3>6, <4>4, <4>5
    <3>7. CASE op[m].loop = "undo"
      <4>1. ~add /\ op[m].todo \cap wanted[m] = {} /\ LeftOver(m, op[m].todo)
            /\ op'[m].loop = "undo" /\ op'[m].todo = op[m].todo \ {f}
        BY <1>1, <3>1, <3>7 DEF EditStage
      <4>2. f \notin wanted[m]
        BY <4>1
      <4>3. Shows(m, op[m].removed \ active[m])'
        BY <1>1, <1>2, <1>3, <1>4, <3>1, <4>2 DEF Shows, Shown, SameEdit
      <4>4. LeftOver(m, op[m].todo)'
        BY <1>2, <1>3, <1>4, <4>1 DEF LeftOver
      <4>5. QED
        BY <1>2, <4>1, <4>3, <4>4 DEF EditStage
    <3>8. CASE op[m].loop = "restore"
      <4>1. add /\ Adding(m) /\ op'[m].loop = "restore" /\ op'[m].todo = op[m].todo \ {f}
        BY <1>1, <3>1, <3>8 DEF EditStage
      <4>2. Adding(m)'
        BY <1>1, <1>2, <4>1, AddingStep
      <4>3. Shows(m, op[m].removed \ active[m])'
        BY <1>1, <1>2, <1>3, <1>4, <3>1, <4>1 DEF Shows, Shown, SameEdit
      <4>4. QED
        BY <4>1, <4>2, <4>3 DEF EditStage
    <3>9. QED
      BY <1>1, <3>5, <3>6, <3>7, <3>8
  <2>5. QED
    BY <2>1, <2>2, <2>3, <2>4
<1>7. Accounted(m)'
  BY <1>2, <1>5, <1>6 DEF Accounted
<1>8. \A n \in Managers \ {m} : Bystander(n)
  BY <1>1, <1>2, <1>3 DEF Bystander
<1>9. QED
  BY <1>7, <1>8, OneAccounts

\* A step that leaves the link, the rules asked for and what is shown alone is
\* accounted for when the manager of a connected host goes on with its loops.
LEMMA ServesOn ==
    ASSUME Accounts, NEW m \in Managers, UNCHANGED <<link, requested, status>>,
           link[m] = "up" => Serving(m)'
    PROVE  Accounted(m)'
BY DEF Accounts, Accounted, Away

LEMMA LoopsAccount ==
    ASSUME Inv, Accounts, NEW m \in Managers,
           EndRemove(m) \/ EndConnectRemove(m) \/ EndAdd(m) \/ RollBack(m)
    PROVE  Accounts'
<1> USE DEF Inv
<1>1. UNCHANGED <<link, requested, status, due>>
  BY DEF EndRemove, EndConnectRemove, EndAdd, RollBack, liveVars, taskVars
<1>2. op[m] # Idle /\ op[m].todo = {}
  BY DEF EndRemove, EndConnectRemove, EndAdd, RollBack, At, Idle
<1>3. /\ op[m].desired \in SUBSET Rules /\ op[m].added \in SUBSET Rules
      /\ op[m].removed \in SUBSET Rules
      /\ wanted[m] \in SUBSET Rules /\ active[m] \in SUBSET Rules
      /\ requested[m] \in SUBSET Rules
  BY DEF Types, Operation
<1>4. ASSUME link[m] = "up"
      PROVE  ~due[m] /\ (Connecting(m) \/ Configuring(m) \/ Editing(m))
  BY <1>2, <1>4 DEF Accounts, Accounted, Serving, Resting
<1>5. ASSUME EndRemove(m) PROVE Accounts'
  <2>1. UNCHANGED <<online, active, wanted>>
    BY <1>5 DEF EndRemove, liveVars
  <2>2. \E todo \in SUBSET Rules : Enter(m, "add", todo)
    BY <1>3, <1>5 DEF EndRemove
  <2>3. op'[m].kind = op[m].kind /\ op'[m].loop = "add" /\ SameEdit(m)
        /\ \A n \in Managers \ {m} : op'[n] = op[n]
    BY <2>2, EnterMoves DEF Loops
  <2>4. ASSUME link[m] = "up" PROVE Serving(m)'
    <3>1. CASE At(m, "apply", "remove") /\ Enter(m, "add", op[m].added)
      <4>1. op'[m].todo = op[m].added
        BY <1>3, <3>1, EnterMoves DEF Loops
      <4>2. Editing(m) /\ op[m].kind = "apply" /\ op[m].loop = "remove"
        BY <1>4, <2>4, <3>1 DEF At, Connecting, Configuring
      <4>3. /\ online[m] /\ Kept(m) /\ Differs(m) /\ Shows(m, op[m].removed \ active[m])
            /\ (wanted[m] \cup requested[m]) \ op[m].desired \subseteq op[m].removed
            /\ requested[m] \cap op[m].removed = {}
        BY <1>2, <4>2 DEF Editing, EditStage
      <4>4. requested[m] \subseteq op[m].desired
        BY <4>3
      <4>5. \A f \in op[m].desired : Shown(m, f) \/ f \in op[m].added
        BY <4>3 DEF Differs, Shows
      <4>6. Kept(m)' /\ Differs(m)' /\ Shows(m, op[m].removed \ active[m])'
        BY <1>1, <2>1, <2>3, <4>3 DEF Kept, Differs, Shows, Shown, SameEdit
      <4>7. EditStage(m)'
        BY <1>1, <2>3, <4>1, <4>4, <4>5 DEF EditStage, Shown, SameEdit
      <4>8. QED
        BY <1>1, <1>4, <2>1, <2>3, <2>4, <4>2, <4>3, <4>6, <4>7 DEF Serving, Editing
    <3>2. CASE At(m, "configure", "remove") /\ Enter(m, "add", op[m].desired \ active[m])
      <4>1. op'[m].todo = op[m].desired \ active[m]
        BY <1>3, <3>2, EnterMoves DEF Loops
      <4>2. Configuring(m) /\ op[m].kind = "configure" /\ op[m].loop = "remove"
        BY <1>4, <2>4, <3>2 DEF At, Connecting, Editing
      <4>3. online[m] /\ Kept(m) /\ LeftOver(m, {}) /\ op[m].desired = wanted[m]
        BY <1>2, <4>2 DEF Configuring
      <4>4. Shows(m, wanted[m] \ active[m])
        BY <4>3 DEF Kept, Shows
      <4>5. Adding(m)'
        BY <1>1, <2>1, <4>1, <4>3, <4>4 DEF Adding, Kept, Shows, LeftOver, Shown
      <4>6. QED
        BY <1>1, <1>4, <2>1, <2>3, <2>4, <4>2, <4>3, <4>5 DEF Serving, Configuring, SameEdit
    <3>3. QED
      BY <1>5, <3>1, <3>2 DEF EndRemove
  <2>5. \A n \in Managers \ {m} : Bystander(n)
    BY <1>1, <2>1, <2>3 DEF Bystander
  <2>6. QED
    BY <1>1, <2>4, <2>5, ServesOn, OneAccounts
<1>6. ASSUME EndConnectRemove(m) PROVE Accounts'
  <2>1. /\ At(m, "connect", "remove") /\ wanted' = wanted
        /\ active' = [active EXCEPT ![m] = {}] /\ online' = [online EXCEPT ![m] = TRUE]
    BY <1>6 DEF EndConnectRemove
  <2>2. /\ op'[m].kind = op[m].kind /\ op'[m].loop = "add" /\ op'[m].todo = op[m].desired
        /\ SameEdit(m) /\ \A n \in Managers \ {m} : op'[n] = op[n]
    BY <1>3, <1>6, EnterMoves DEF EndConnectRemove, Loops
  <2>3. active'[m] = {} /\ online'[m]
        /\ \A n \in Managers \ {m} : active'[n] = active[n] /\ online'[n] = online[n]
    BY <2>1 DEF Types
  <2>4. ASSUME link[m] = "up" PROVE Serving(m)'
    <3>1. Connecting(m) /\ op[m].kind = "connect" /\ op[m].loop = "remove"
      BY <1>4, <2>1, <2>4 DEF At, Configuring, Editing
    <3>2. op[m].desired = wanted[m] /\ \A f \in requested[m] : status[m][f] = "failed"
      BY <1>2, <3>1 DEF Connecting
    <3>3. Adding(m)'
      BY <1>1, <2>1, <2>2, <2>3, <3>2 DEF Adding, Kept, Shows, LeftOver
    <3>4. QED
      BY <1>1, <1>4, <2>1, <2>2, <2>4, <3>1, <3>2, <3>3 DEF Serving, Connecting, SameEdit
  <2>5. \A n \in Managers \ {m} : Bystander(n)
    BY <1>1, <2>1, <2>2, <2>3 DEF Bystander
  <2>6. QED
    BY <1>1, <2>4, <2>5, ServesOn, OneAccounts
<1>7. ASSUME EndAdd(m) PROVE Accounts'
  <2>1. UNCHANGED <<online, active>> /\ op'[m] = Idle /\ \A n \in Managers \ {m} : op'[n] = op[n]
    BY <1>7, LetGoMoves DEF EndAdd, liveVars
  <2>2. \A n \in Managers \ {m} : wanted'[n] = wanted[n]
    BY <1>7 DEF EndAdd, Types
  <2>3. ASSUME link[m] = "up" PROVE Serving(m)'
    <3>1. CASE At(m, "apply", "add") /\ wanted' = [wanted EXCEPT ![m] = op[m].desired]
      <4>1. Editing(m) /\ op[m].loop = "add"
        BY <1>4, <2>3, <3>1 DEF At, Connecting, Configuring
      <4>2. /\ online[m] /\ Kept(m) /\ requested[m] \subseteq op[m].desired
            /\ \A f \in op[m].desired : Shown(m, f)
        BY <1>2, <4>1 DEF Editing, EditStage
      <4>3. wanted'[m] = op[m].desired
        BY <3>1 DEF Types
      <4>4. Resting(m)'
        BY <1>1, <2>1, <4>2, <4>3 DEF Resting, Kept, Shows, LeftOver, Shown
      <4>5. QED
        BY <1>1, <1>4, <2>3, <4>4 DEF Serving
    <3>2. CASE (At(m, "configure", "add") \/ At(m, "connect", "add")) /\ UNCHANGED wanted
      <4>1. Adding(m)
        BY <1>4, <2>3, <3>2 DEF At, Connecting, Configuring, Editing
      <4>2. Resting(m)'
        BY <1>1, <1>2, <2>1, <3>2, <4>1 DEF Adding, Resting, Kept, Shows, LeftOver, Shown
      <4>3. QED
        BY <1>1, <1>4, <2>3, <4>2 DEF Serving
    <3>3. QED
      BY <1>7, <3>1, <3>2 DEF EndAdd
  <2>4. \A n \in Managers \ {m} : Bystander(n)
    BY <1>1, <2>1, <2>2 DEF Bystander
  <2>5. QED
    BY <1>1, <2>3, <2>4, ServesOn, OneAccounts
<1>8. ASSUME RollBack(m) PROVE Accounts'
  <2>1. UNCHANGED <<online, active, wanted>>
    BY <1>8 DEF RollBack, liveVars
  <2>2. op[m].kind = "apply"
    BY <1>8 DEF RollBack, At
  <2>3. ASSUME link[m] = "up"
        PROVE  /\ ~due[m] /\ op[m].kind = "apply" /\ online[m] /\ Kept(m) /\ Differs(m)
               /\ Shows(m, op[m].removed \ active[m]) /\ EditStage(m)
    BY <1>4, <2>2, <2>3 DEF Connecting, Configuring, Editing
  <2>4. CASE At(m, "apply", "failed")
             /\ Enter(m, "undo", (op[m].added \ wanted[m]) \cap requested[m])
    <3>1. /\ op'[m].kind = "apply" /\ op'[m].loop = "undo"
          /\ op'[m].todo = (op[m].added \ wanted[m]) \cap requested[m]
          /\ SameEdit(m) /\ \A n \in Managers \ {m} : op'[n] = op[n]
      BY <1>3, <2>2, <2>4, EnterMoves DEF Loops
    <3>2. ASSUME link[m] = "up" PROVE Serving(m)'
      <4>1. LeftOver(m, op[m].added)
        BY <2>3, <2>4, <3>2 DEF At, EditStage
      <4>2. LeftOver(m, op[m].todo)'
        BY <1>1, <2>1, <3>1, <4>1 DEF LeftOver
      <4>3. EditStage(m)'
        BY <2>1, <3>1, <4>2 DEF EditStage
      <4>4. Kept(m)' /\ Differs(m)' /\ Shows(m, op[m].removed \ active[m])'
        BY <1>1, <2>1, <2>3, <3>1, <3>2 DEF Kept, Differs, Shows, Shown, SameEdit
      <4>5. QED
        BY <1>1, <2>1, <2>3, <3>1, <3>2, <4>3, <4>4 DEF Serving, Editing
    <3>3. \A n \in Managers \ {m} : Bystander(n)
      BY <1>1, <2>1, <3>1 DEF Bystander
    <3>4. QED
      BY <1>1, <3>2, <3>3, ServesOn, OneAccounts
  <2>5. CASE At(m, "apply", "undo")
             /\ Enter(m, "restore", (op[m].removed \cap wanted[m]) \ active[m])
    <3>1. /\ op'[m].kind = "apply" /\ op'[m].loop = "restore"
          /\ op'[m].todo = (op[m].removed \cap wanted[m]) \ active[m]
          /\ SameEdit(m) /\ \A n \in Managers \ {m} : op'[n] = op[n]
      BY <1>3, <2>2, <2>5, EnterMoves DEF Loops
    <3>2. ASSUME link[m] = "up" PROVE Serving(m)'
      <4>1. LeftOver(m, {})
        BY <1>2, <2>3, <2>5, <3>2 DEF At, EditStage
      <4>2. Kept(m)' /\ Differs(m)' /\ Shows(m, op[m].removed \ active[m])' /\ LeftOver(m, {})'
        BY <1>1, <2>1, <2>3, <3>1, <3>2, <4>1
           DEF Kept, Differs, Shows, LeftOver, Shown, SameEdit
      <4>3. Shows(m, op[m].todo)'
        BY <2>1, <3>1, <4>2 DEF Shows, SameEdit
      <4>4. Adding(m)'
        BY <2>1, <2>3, <3>1, <3>2, <4>2, <4>3 DEF Adding
      <4>5. EditStage(m)'
        BY <3>1, <4>4 DEF EditStage
      <4>6. QED
        BY <1>1, <2>1, <2>3, <3>1, <3>2, <4>2, <4>5 DEF Serving, Editing
    <3>3. \A n \in Managers \ {m} : Bystander(n)
      BY <1>1, <2>1, <3>1 DEF Bystander
    <3>4. QED
      BY <1>1, <3>2, <3>3, ServesOn, OneAccounts
  <2>6. CASE At(m, "apply", "restore") /\ LetGo(m)
    <3>1. op'[m] = Idle /\ \A n \in Managers \ {m} : op'[n] = op[n]
      BY <2>6, LetGoMoves
    <3>2. ASSUME link[m] = "up" PROVE Serving(m)'
      <4>1. Adding(m)
        BY <2>3, <2>6, <3>2 DEF At, EditStage
      <4>2. Resting(m)'
        BY <1>1, <1>2, <2>1, <3>1, <4>1 DEF Adding, Resting, Kept, Shows, LeftOver, Shown
      <4>3. QED
        BY <1>1, <2>3, <3>2, <4>2 DEF Serving
    <3>3. \A n \in Managers \ {m} : Bystander(n)
      BY <1>1, <2>1, <3>1 DEF Bystander
    <3>4. QED
      BY <1>1, <3>2, <3>3, ServesOn, OneAccounts
  <2>7. QED
    BY <1>8, <2>4, <2>5, <2>6 DEF RollBack
<1>9. QED
  BY <1>5, <1>6, <1>7, <1>8

\* An edit takes what it changes from the rules in force and from what may listen.
LEMMA EditsAccount ==
    ASSUME Inv, Accounts, NEW m \in Managers, NEW rules \in Edited,
           ApplyOnline(m, rules) \/ ApplyOffline(m, rules) \/ Configure(m, rules)
    PROVE  Accounts'
<1> USE DEF Inv
<1>1. /\ op[m] = Idle /\ ~closed[m]
      /\ UNCHANGED <<link, due, online, active, requested>>
  BY DEF ApplyOnline, ApplyOffline, Configure, Edit, liveVars, taskVars
<1>2. op[m].kind = "idle"
  BY <1>1 DEF Idle
<1>3. /\ rules \in SUBSET Rules /\ wanted[m] \in SUBSET Rules /\ active[m] \in SUBSET Rules
      /\ requested[m] \in SUBSET Rules
  BY ForwardsAssumption DEF Types
<1>4. ASSUME link[m] = "up", online[m] PROVE ~due[m] /\ Resting(m)
  BY <1>2, <1>4 DEF Accounts, Accounted, Serving, Connecting, Configuring, Editing
<1>5. ASSUME link[m] = "up", ~online[m] PROVE due[m] /\ Away(m)
  BY <1>2, <1>5 DEF Accounts, Accounted, Serving, Connecting, Configuring, Editing, Resting
<1>6. ASSUME ApplyOnline(m, rules) PROVE Accounts'
  <2> DEFINE R == (wanted[m] \cup requested[m]) \ rules
             A == {f \in rules : \/ f \notin wanted[m]
                                 \/ rules = wanted[m] /\ f \notin active[m]}
  <2>1. UNCHANGED <<wanted, status>> /\ online[m]
        /\ Begin(m, "apply", "remove", R \cap requested[m], rules, A, R)
    BY <1>6 DEF ApplyOnline
  <2>2. R \in SUBSET Rules /\ A \in SUBSET Rules /\ R \cap requested[m] \in SUBSET Rules
    BY <1>3
  <2> HIDE DEF R, A
  <2>3. /\ op'[m].kind = "apply" /\ op'[m].loop = "remove"
        /\ op'[m].todo = R \cap requested[m] /\ op'[m].desired = rules
        /\ op'[m].added = A /\ op'[m].removed = R
        /\ \A n \in Managers \ {m} : op'[n] = op[n]
    BY <1>3, <2>1, <2>2, BeginMoves DEF Kinds, Loops
  <2>4. ASSUME link[m] = "up" PROVE Serving(m)'
    <3>1. ~due[m] /\ online[m] /\ Kept(m) /\ Shows(m, {}) /\ LeftOver(m, {})
      BY <1>4, <2>1, <2>4 DEF Resting
    <3>2. Differs(m)'
      BY <2>1, <2>3 DEF Differs, R, A
    <3>3. Kept(m)' /\ Shows(m, op[m].removed \ active[m])' /\ LeftOver(m, {})'
      BY <1>1, <2>1, <3>1 DEF Kept, Shows, LeftOver, Shown
    <3>4. EditStage(m)'
      BY <1>1, <2>1, <2>3, <3>3 DEF EditStage, R
    <3>5. QED
      BY <1>1, <2>3, <3>1, <3>2, <3>3, <3>4 DEF Serving, Editing
  <2>5. \A n \in Managers \ {m} : Bystander(n)
    BY <1>1, <2>1, <2>3 DEF Bystander
  <2>6. QED
    BY <1>1, <2>1, <2>4, <2>5, ServesOn, OneAccounts
<1>7. ASSUME ApplyOffline(m, rules) PROVE Accounts'
  <2>1. /\ ~online[m] /\ op' = op
        /\ \A f \in requested[m] : status'[m][f] \in {status[m][f], "waiting"}
        /\ \A n \in Managers \ {m} : wanted'[n] = wanted[n] /\ status'[n] = status[n]
    BY <1>3, <1>7 DEF ApplyOffline, Types
  <2>2. Away(m) => Away(m)'
    BY <1>1, <2>1 DEF Away
  <2>3. Accounted(m)'
    BY <1>1, <1>5, <2>1, <2>2 DEF Accounts, Accounted, Serving
  <2>4. \A n \in Managers \ {m} : Bystander(n)
    BY <1>1, <2>1 DEF Bystander
  <2>5. QED
    BY <2>3, <2>4, OneAccounts
<1>8. ASSUME Configure(m, rules) PROVE Accounts'
  <2>1. /\ wanted'[m] = rules /\ status' = status
        /\ \A n \in Managers \ {m} : wanted'[n] = wanted[n]
    BY <1>8 DEF Configure, Types
  <2>2. CASE online[m]
    <3>1. Begin(m, "configure", "remove", requested[m] \ rules, rules, {}, {})
      BY <1>8, <2>2 DEF Configure
    <3>2. requested[m] \ rules \in SUBSET Rules /\ {} \in SUBSET Rules
      BY <1>3
    <3>3. /\ op'[m].kind = "configure" /\ op'[m].loop = "remove"
          /\ op'[m].todo = requested[m] \ rules /\ op'[m].desired = rules
          /\ \A n \in Managers \ {m} : op'[n] = op[n]
      BY <1>3, <3>1, <3>2, BeginMoves DEF Kinds, Loops
    <3>4. ASSUME link[m] = "up" PROVE Serving(m)'
      <4>1. ~due[m] /\ Kept(m)
        BY <1>4, <2>2, <3>4 DEF Resting
      <4>2. Kept(m)' /\ LeftOver(m, op[m].todo)'
        BY <1>1, <2>1, <3>3, <4>1 DEF Kept, LeftOver, Shown
      <4>3. QED
        BY <1>1, <2>1, <2>2, <3>3, <4>1, <4>2 DEF Serving, Configuring
    <3>5. \A n \in Managers \ {m} : Bystander(n)
      BY <1>1, <2>1, <3>3 DEF Bystander
    <3>6. QED
      BY <1>1, <2>1, <3>4, <3>5, ServesOn, OneAccounts
  <2>3. CASE ~online[m]
    <3>1. op' = op
      BY <1>8, <2>3 DEF Configure
    <3>2. Away(m) => Away(m)'
      BY <1>1, <2>1 DEF Away
    <3>3. link[m] = "up" => Serving(m)'
      BY <1>1, <1>5, <2>3, <3>1, <3>2 DEF Serving
    <3>4. \A n \in Managers \ {m} : Bystander(n)
      BY <1>1, <2>1, <3>1 DEF Bystander
    <3>5. QED
      BY <1>1, <2>1, <3>3, <3>4, ServesOn, OneAccounts
  <2>4. QED
    BY <2>2, <2>3
<1>9. QED
  BY <1>6, <1>7, <1>8

LEMMA AccountsStep ==
    ASSUME Inv, Accounts, [Next]_vars
    PROVE  Accounts'
<1> USE DEF Inv
<1>1. ASSUME NEW m \in Managers, BeginConnected(m) PROVE Accounts'
  <2>1. /\ due[m] /\ op[m] = Idle /\ due' = [due EXCEPT ![m] = FALSE]
        /\ UNCHANGED <<link, online, active, requested, wanted, status>>
        /\ ~closed[m] => Begin(m, "connect", "remove", requested[m] \cup wanted[m],
                               wanted[m], {}, {})
        /\ closed[m] => op' = op
    BY <1>1 DEF BeginConnected, liveVars
  <2>2. /\ wanted[m] \in SUBSET Rules /\ requested[m] \cup wanted[m] \in SUBSET Rules
        /\ {} \in SUBSET Rules
    BY DEF Types
  <2>3. \A n \in Managers \ {m} : op'[n] = op[n] /\ due'[n] = due[n]
    BY <2>1 DEF Begin, Types
  <2>4. ASSUME link[m] = "up" PROVE Serving(m)'
    <3>1. ~closed[m] /\ ~online[m]
      BY <2>1, <2>4 DEF Working, Accounts, Accounted, Serving
    <3>2. /\ op'[m].kind = "connect" /\ op'[m].loop = "remove"
          /\ op'[m].todo = requested[m] \cup wanted[m] /\ op'[m].desired = wanted[m]
      <4>1. Begin(m, "connect", "remove", requested[m] \cup wanted[m], wanted[m], {}, {})
        BY <2>1, <3>1
      <4>2. QED
        BY <4>1 DEF Begin, Types
    <3>3. ~due'[m]
      BY <2>1 DEF Types
    <3>4. QED
      BY <2>1, <3>1, <3>2, <3>3 DEF Serving, Connecting
  <2>5. \A n \in Managers \ {m} : Bystander(n)
    BY <2>1, <2>3 DEF Bystander
  <2>6. QED
    BY <2>1, <2>4, <2>5, ServesOn, OneAccounts
<1>2. ASSUME NEW m \in Managers, StopConnect(m) PROVE Accounts'
  <2>1. /\ link[m] = "gone"
        /\ UNCHANGED <<link, due, online, active, requested, wanted, status>>
        /\ \A n \in Managers \ {m} : op'[n] = op[n]
    BY <1>2, LetGoMoves DEF StopConnect, Working, liveVars, taskVars
  <2>2. \A n \in Managers \ {m} : Bystander(n)
    BY <2>1 DEF Bystander
  <2>3. QED
    BY <2>1, <2>2, OneAccounts DEF Accounted
<1>3. ASSUME NEW m \in Managers, Abort(m) PROVE Accounts'
  <2>1. /\ link[m] \in {"lost", "gone"} /\ UNCHANGED <<link, online, active, wanted, status>>
        /\ LetGo(m) \/ (op' = op /\ due' = [due EXCEPT ![m] = FALSE])
        /\ requested' = requested \/ \E f \in op[m].todo : CutOff(m, f)
    BY <1>3 DEF Abort
  <2>2. \A n \in Managers \ {m} : requested'[n] = requested[n]
    BY <2>1, CutOffDoes DEF Types
  <2>3. \A n \in Managers \ {m} : op'[n] = op[n] /\ due'[n] = due[n]
    BY <1>3, <2>1, LetGoMoves DEF Abort, Types
  <2>4. \A n \in Managers \ {m} : Bystander(n)
    BY <2>1, <2>2, <2>3 DEF Bystander
  <2>5. QED
    BY <2>1, <2>4, OneAccounts DEF Accounted
<1>4. ASSUME NEW m \in Managers, Disconnected(m) PROVE Accounts'
  <2>1. UNCHANGED <<requested, wanted, op, due>> /\ link' = [link EXCEPT ![m] = "down"]
    BY <1>4 DEF Disconnected
  <2>2. \A n \in Managers \ {m} : /\ link'[n] = link[n] /\ online'[n] = online[n]
                                  /\ active'[n] = active[n] /\ status'[n] = status[n]
    BY <1>4 DEF Disconnected, Types
  <2>3. Away(m)' /\ link'[m] = "down"
    BY <1>4 DEF Disconnected, Away, Types
  <2>4. \A n \in Managers \ {m} : Bystander(n)
    BY <2>1, <2>2 DEF Bystander
  <2>5. QED
    BY <2>3, <2>4, OneAccounts DEF Accounted
<1>5. ASSUME NEW m \in Managers, BeginShutdown(m) \/ EndShutdown(m) PROVE Accounts'
  <2>1. link[m] = "gone" /\ UNCHANGED <<link, due, active, requested, wanted, status>>
    BY <1>5 DEF BeginShutdown, EndShutdown, At, Working, taskVars
  <2>2. \A n \in Managers \ {m} : op'[n] = op[n] /\ online'[n] = online[n]
    BY <1>5, LetGoMoves DEF BeginShutdown, Begin, EndShutdown, Types
  <2>3. \A n \in Managers \ {m} : Bystander(n)
    BY <2>1, <2>2 DEF Bystander
  <2>4. QED
    BY <2>1, <2>3, OneAccounts DEF Accounted
<1>6. ASSUME NEW m \in Managers, LinkUp(m) PROVE Accounts'
  <2>1. /\ link[m] = "down" /\ UNCHANGED <<online, active, requested, wanted, status, op>>
        /\ link' = [link EXCEPT ![m] = "up"] /\ due' = [due EXCEPT ![m] = TRUE]
    BY <1>6 DEF LinkUp, manager, liveVars
  <2>2. \A n \in Managers \ {m} : link'[n] = link[n] /\ due'[n] = due[n]
    BY <2>1 DEF Types
  <2>3. link'[m] = "up" /\ due'[m] /\ ~online[m] /\ op[m] = Idle
    BY <2>1 DEF Types, Working
  <2>4. Away(m)'
    BY <2>1 DEF Accounts, Accounted, Away
  <2>5. \A n \in Managers \ {m} : Bystander(n)
    BY <2>1, <2>2 DEF Bystander
  <2>6. QED
    BY <2>1, <2>3, <2>4, <2>5, OneAccounts DEF Accounted, Serving
<1>7. ASSUME NEW m \in Managers, LinkLost(m) \/ Retire(m) PROVE Accounts'
  <2>1. /\ UNCHANGED <<due, online, active, requested, wanted, status, op>>
        /\ link' \in {[link EXCEPT ![m] = "lost"], [link EXCEPT ![m] = "gone"]}
    BY <1>7 DEF LinkLost, Retire, manager, liveVars
  <2>2. link'[m] \in {"lost", "gone"} /\ \A n \in Managers \ {m} : link'[n] = link[n]
    BY <2>1 DEF Types
  <2>3. \A n \in Managers \ {m} : Bystander(n)
    BY <2>1, <2>2 DEF Bystander
  <2>4. QED
    BY <2>2, <2>3, OneAccounts DEF Accounted
<1>8. ASSUME NEW m \in Managers, NEW rules \in Saved, Dial(m, rules) PROVE Accounts'
  <2>1. /\ link[m] = "none" /\ UNCHANGED <<due, online, active, requested, status, op>>
        /\ link' = [link EXCEPT ![m] = "down"] /\ wanted' = [wanted EXCEPT ![m] = rules]
    BY <1>8 DEF Dial, liveVars
  <2>2. link'[m] = "down"
        /\ \A n \in Managers \ {m} : link'[n] = link[n] /\ wanted'[n] = wanted[n]
    BY <2>1 DEF Types
  <2>3. Away(m)'
    BY <2>1 DEF Accounts, Accounted, Away
  <2>4. \A n \in Managers \ {m} : Bystander(n)
    BY <2>1, <2>2 DEF Bystander
  <2>5. QED
    BY <2>2, <2>3, <2>4, OneAccounts DEF Accounted
<1>9. CASE MasterDies
  <2>1. \A m \in Managers : link'[m] = link[m] \/ link'[m] = "lost"
    BY <1>9 DEF MasterDies
  <2>2. UNCHANGED <<due, online, active, requested, wanted, status, op>>
    BY <1>9 DEF MasterDies, manager, liveVars
  <2>3. ASSUME NEW m \in Managers PROVE Accounted(m)'
    <3>1. CASE link'[m] = link[m]
      BY <2>2, <3>1, BystanderKeeps DEF Accounts, Bystander
    <3>2. CASE link'[m] = "lost"
      BY <3>2 DEF Accounted
    <3>3. QED
      BY <2>1, <3>1, <3>2
  <2>4. QED
    BY <2>3 DEF Accounts
<1>10. CASE UNCHANGED vars
  <2>1. \A m \in Managers : Bystander(m)
    BY <1>10 DEF vars, manager, liveVars, taskVars, Bystander
  <2>2. QED
    BY <2>1, BystanderKeeps DEF Accounts
<1>11. QED
  BY <1>1, <1>2, <1>3, <1>4, <1>5, <1>6, <1>7, <1>8, <1>9, <1>10, RequestsAccount,
     LoopsAccount, EditsAccount DEF Next, Work
------------------------------------------------------------------------------
(* Theorems *)

LEMMA ForwardsInit == Init => Inv
<1> SUFFICES ASSUME Init PROVE Inv
  OBVIOUS
<1>1. Types
  <2>1. host \in [Managers -> Hosts]
    BY DEF Init
  <2>2. op \in [Managers -> Operation]
    BY DEF Init, Idle, Operation, Kinds, Loops
  <2>3. 0 \in 0..Last /\ 0 \in 0..MaxEdits /\ 0 \in 0..MaxFails /\ 0 \in 0..MaxLosses
    BY ForwardsAssumption
  <2>4. owner \in [Rules -> [gen : 0..Last, active : BOOLEAN]]
    BY <2>3 DEF Init
  <2>5. QED
    BY <2>1, <2>2, <2>3, <2>4 DEF Init, Types
<1>2. Working /\ Cleaned
  BY DEF Init, Working, Cleaned, Idle
<1>3. Succeeded /\ Claimed /\ NothingForgotten
  BY DEF Init, Succeeded, Claimed, NothingForgotten
<1>4. QED
  BY <1>1, <1>2, <1>3 DEF Inv

\* The invariant of the forwards, for any number of backends and failures.
THEOREM ForwardsInvariant == Spec => []Inv
<1>1. Inv /\ [Next]_vars => Inv'
  BY TypesStep, WorkingStep, CleanedStep, SucceededStep, ClaimedStep, NothingForgottenStep
     DEF Inv
<1>2. QED
  BY ForwardsInit, <1>1, PTL DEF Spec

\* The managers' state keeps its type; a backend is online only while it has a
\* link, and is closed before it is retired.
THEOREM ForwardsTypeCorrect == Spec => []ForwardsTypeOK
<1>1. Inv => ForwardsTypeOK
  <2> SUFFICES ASSUME Inv PROVE ForwardsTypeOK
    OBVIOUS
  <2>1. op \in [Managers -> [kind : Kinds, loop : Loops, todo : SUBSET Rules,
          desired : SUBSET Rules, added : SUBSET Rules, removed : SUBSET Rules]]
    BY DEF Inv, Types, Operation
  <2>2. \A m \in Managers :
          /\ due[m] \/ online[m] => link[m] \in {"up", "lost", "gone"}
          /\ active[m] \subseteq requested[m]
          /\ retired[m] => closed[m] /\ ~online[m]
    BY DEF Inv, Working
  <2>3. QED
    BY <2>1, <2>2 DEF Inv, Types, ForwardsTypeOK
<1>2. QED
  BY ForwardsInvariant, <1>1, PTL

\* Whatever an older backend, another entry for the host or a failed edit does,
\* what a connected backend shows as listening listens.
THEOREM ShownListens == Spec => []ListeningIsTrue
<1>1. Inv => ListeningIsTrue
  BY DEF Inv, Claimed, Types, ListeningIsTrue, Status
<1>2. QED
  BY ForwardsInvariant, <1>1, PTL

\* However requests are answered or cut off, what may listen is remembered by
\* the backend that touched it last.
THEOREM ListenersAreRemembered == Spec => []NothingForgotten
<1>1. Inv => NothingForgotten
  BY DEF Inv
<1>2. QED
  BY ForwardsInvariant, <1>1, PTL

\* A retired backend shows as failed whatever of its own still listens.
THEOREM RetirementAccounts == Spec => []RetiredIsClean
<1>1. Inv => RetiredIsClean
  BY DEF Inv, Types, Cleaned, NothingForgotten, RetiredIsClean
<1>2. QED
  BY ForwardsInvariant, <1>1, PTL

\* However an edit fails or a request is cut off, every rule in force on a
\* connected host listens or shows its failure, and so does what could not be
\* taken down; while the host is away, what is not in force is shown to wait.
THEOREM EditsAreAccounted == Spec => []RulesAreAccounted
<1>1. Init => Accounts
  BY DEF Init, Accounts, Accounted
<1>2. Inv /\ Accounts /\ [Next]_vars => Accounts'
  BY AccountsStep
<1>3. Inv /\ Accounts => RulesAreAccounted
  <2> SUFFICES ASSUME Inv, Accounts PROVE RulesAreAccounted
    OBVIOUS
  <2> USE DEF Inv
  <2>1. ASSUME NEW m \in Managers, link[m] = "up", ~due[m], op[m] = Idle PROVE Resting(m)
    <3>1. op[m].kind = "idle"
      BY <2>1 DEF Idle
    <3>2. QED
      BY <2>1, <3>1 DEF Accounts, Accounted, Serving, Connecting, Configuring, Editing
  <2>2. ASSUME NEW m \in Managers, link[m] = "up", ~due[m], op[m] = Idle
        PROVE  /\ \A f \in wanted[m] : Status(m, f) \in {"listening", "failed"}
               /\ \A f \in requested[m] \ wanted[m] : Status(m, f) = "failed"
    BY <2>1, <2>2 DEF Resting, Shows, LeftOver, Shown, Status
  <2>3. ASSUME NEW m \in Managers, NEW f \in listening, owner[f].gen = m, f \notin wanted[m],
               op[m] = Idle, link[m] \in {"up", "down"}
        PROVE  Status(m, f) \in {"waiting", "failed"}
    <3>1. f \in requested[m]
      BY <2>3 DEF NothingForgotten
    <3>2. CASE link[m] = "up" /\ ~due[m]
      BY <2>2, <2>3, <3>1, <3>2
    <3>3. CASE link[m] = "down" \/ due[m]
      <4>1. Away(m)
        BY <2>3, <3>3 DEF Accounts, Accounted, Serving
      <4>2. QED
        BY <3>1, <4>1 DEF Away, Status
    <3>4. QED
      BY <2>3, <3>2, <3>3
  <2>4. QED
    BY <2>2, <2>3 DEF RulesAreAccounted
<1>4. QED
  BY <1>1, <1>2, <1>3, ForwardsInvariant, PTL DEF Spec
=============================================================================
