-------------------------- MODULE PoolSessionProofs --------------------------
(***************************************************************************)
(* For any number of windows and shells: a reservation is redeemed once,   *)
(* and a session that a client is on is served as attached.                *)
(*                                                                         *)
(* The second rests on who can be in the pool at all.  Until the launcher  *)
(* exists only the one who claimed the reservation gets past the guard;    *)
(* while it runs the table's entry, once inserted, is its shell, so nobody *)
(* else finds the name missing and no other shell is spawned.  Whoever     *)
(* holds a session then holds that shell's lock, and the hooks of its      *)
(* holders come in the order of the lock.                                  *)
(*                                                                         *)
(* The second half is about the dashboard's end of such sessions, for any  *)
(* number of them, of windows, lost links and restarts: a detached session *)
(* stays detached, a session is ended only for a window closed by hand,    *)
(* and the periodic snapshot unbinds no window on screen.  All three rest  *)
(* on BindInv: what is remembered of a session is a window of that session *)
(* and of no other, and a window that was hung up and owes its report      *)
(* finds nothing to answer unless the user closed it.                      *)
(***************************************************************************)
EXTENDS PoolSession, WindowBindings, SequenceTheorems, TLAPS

\* Phases of a thread that has a session's lock, and of a client whose own
\* shell has been spawned, or that is done.
Holding == {"held", "streaming", "leaving", "detached", "ending", "removing", "releasing"}
Spawned == {"spawned", "inserted", "waiting"} \cup Holding \cup {"gone"}

IsLauncher(s) == s \in Shells /\ kind[s] = "launcher"

\* One claim, and one launcher by it.
Redeemed ==
    /\ reserved => claimed = {}
    /\ \A c, d \in claimed : c = d
    /\ \A c \in claimed : pc[c] \notin {"start", "claiming"}
    /\ \A s \in Shells : IsLauncher(s) => \E c \in claimed : pc[c] \in Spawned
    /\ RedeemedOnce

\* A thread that says it holds a lock does; and works on a shell.
Locked ==
    \A c \in Clients :
        /\ pc[c] \in Holding \cup {"spawned", "inserted", "waiting"} => of[c] \in Shells
        /\ pc[c] \in Holding => inner[of[c]] = c
        /\ pc[c] \in {"ending", "removing"} => of[c] \notin running
        /\ pc[c] \in Holding \ {"held"} => of[c] \notin stream

\* What is in use was spawned.
Used ==
    /\ \A s \in running \cup stream : kind[s] # "unused"
    /\ table # None => kind[table] # "unused"
    /\ \A c \in Clients : of[c] # None => kind[of[c]] # "unused"

\* The guard lets nobody by before there is a launcher, nor spawn beside one.
Guarded ==
    /\ live => \E s \in running : kind[s] = "launcher"
    /\ \A t \in Shells : kind[t] = "login" => \E s \in Shells : IsLauncher(s)
    /\ \A c \in Clients \ claimed :
          pc[c] \notin {"start", "claiming", "check", "gone"} =>
              \E s \in Shells : IsLauncher(s)
    /\ \A s \in running : IsLauncher(s) =>
          /\ \A t \in Shells : kind[t] # "login"
          /\ \A c \in Clients \ claimed :
                /\ pc[c] \notin {"spawn", "spawning", "spawned", "inserted", "waiting"}
                /\ pc[c] \in {"dial", "refusing"} => table = s

\* The bit is set for whoever has, or will be given, the launcher's terminal.
Served ==
    /\ \A c \in claimed : pc[c] = "spawning" => bit = "attached"
    /\ \A s \in running : IsLauncher(s) =>
          /\ s \in stream => bit = "attached"
          /\ \A c \in Clients : pc[c] = "streaming" /\ of[c] = s => bit = "attached"

PoolInv == PoolTypeOK /\ Redeemed /\ Locked /\ Used /\ Guarded /\ Served

------------------------------------------------------------------------------
(* One step of each part *)

\* Types and locks: a thread that moves on gives up what it took, or keeps it.
LEMMA PoolTypeOKStep ==
    ASSUME PoolInv, [Next]_vars
    PROVE  PoolTypeOK'
<1> USE DEF PoolInv
<1>1. ASSUME NEW c \in Clients, ReadPending(c) PROVE PoolTypeOK'
  BY <1>1 DEF ReadPending, Goes, poolVars, PoolTypeOK, AtClient, Phase
<1>2. ASSUME NEW c \in Clients, Claim(c) PROVE PoolTypeOK'
  <2>1. CASE pc' = [pc EXCEPT ![c] = "dial"]
    BY <1>2, <2>1 DEF Claim, Goes, poolVars, PoolTypeOK, AtClient, Phase
  <2>2. CASE pc' = [pc EXCEPT ![c] = "check"]
    BY <1>2, <2>2 DEF Claim, Goes, poolVars, PoolTypeOK, AtClient, Phase
  <2>3. QED
    BY <1>2, <2>1, <2>2 DEF Claim, Goes
<1>3. ASSUME NEW c \in Clients, CheckLive(c) PROVE PoolTypeOK'
  BY <1>3 DEF CheckLive, Goes, poolVars, PoolTypeOK, AtClient, Phase
<1>4. ASSUME NEW c \in Clients, ListPool(c) PROVE PoolTypeOK'
  BY <1>4 DEF ListPool, Goes, poolVars, PoolTypeOK, AtClient, Phase
<1>5. ASSUME NEW c \in Clients, GiveUp(c) PROVE PoolTypeOK'
  BY <1>5 DEF GiveUp, Goes, poolVars, PoolTypeOK, AtClient, Phase
<1>6. ASSUME NEW c \in Clients, TakeOver(c) PROVE PoolTypeOK'
  BY <1>6 DEF TakeOver, Goes, Alive, PoolTypeOK, InPool, Phase
<1>7. ASSUME NEW c \in Clients, FindBusy(c) PROVE PoolTypeOK'
  BY <1>7 DEF FindBusy, Goes, PoolTypeOK, InPool, Phase
<1>8. ASSUME NEW c \in Clients, CallBusy(c) PROVE PoolTypeOK'
  BY <1>8 DEF CallBusy, Goes, PoolTypeOK, AtClient, Phase
<1>9. ASSUME NEW c \in Clients, FindNone(c) PROVE PoolTypeOK'
  BY <1>9 DEF FindNone, Goes, poolVars, PoolTypeOK, InPool, Phase
<1>10. ASSUME NEW c \in Clients, CallNewSession(c) PROVE PoolTypeOK'
  BY <1>10 DEF CallNewSession, Goes, poolVars, PoolTypeOK, InPool, Phase
<1>11. ASSUME NEW c \in Clients, SpawnSubshell(c) PROVE PoolTypeOK'
  BY <1>11 DEF SpawnSubshell, Goes, PoolTypeOK, InPool, Phase
<1>12. ASSUME NEW c \in Clients, InsertSession(c) PROVE PoolTypeOK'
  BY <1>12 DEF InsertSession, Goes, PoolTypeOK, InPool, Phase
<1>13. ASSUME NEW c \in Clients, LockNew(c) PROVE PoolTypeOK'
  BY <1>13 DEF LockNew, Goes, PoolTypeOK, InPool, Phase
<1>14. ASSUME NEW c \in Clients, LockWaited(c) PROVE PoolTypeOK'
  <2>1. pc' \in [Clients -> Phase] /\ inner' \in [Shells -> Clients \cup {None}]
    BY <1>14 DEF LockWaited, Goes, PoolTypeOK, InPool, Phase
  <2>2. ASSUME NEW s \in Shells, inner'[s] # None
        PROVE  of[inner'[s]] = s /\ pc'[inner'[s]] \in Holding
    BY <1>14, <2>2 DEF LockWaited, Goes, PoolTypeOK, Holding
  <2>3. QED
    BY <1>14, <2>1, <2>2 DEF LockWaited, PoolTypeOK, Holding
<1>15. ASSUME NEW c \in Clients, SpawnFails(c) PROVE PoolTypeOK'
  BY <1>15, PoolSessionAssumption DEF SpawnFails, Goes, poolVars, PoolTypeOK, Phase
<1>16. ASSUME NEW c \in Clients, PrepareFails(c) PROVE PoolTypeOK'
  <2>1. pc' \in [Clients -> Phase] /\ inner' \in [Shells -> Clients \cup {None}]
    BY <1>16 DEF PrepareFails, Goes, PoolTypeOK, Phase
  <2>2. failures' \in 0..MaxFailures
    BY <1>16, PoolSessionAssumption DEF PrepareFails, PoolTypeOK
  <2>3. ASSUME NEW s \in Shells, inner'[s] # None
        PROVE  of[inner'[s]] = s /\ pc'[inner'[s]] \in Holding
    BY <1>16, <2>3 DEF PrepareFails, Goes, PoolTypeOK, Holding
  <2>4. shells # None => pc'[shells] \in {"refusing", "waiting"}
    BY <1>16 DEF PrepareFails, Goes, PoolTypeOK
  <2>5. QED
    BY <1>16, <2>1, <2>2, <2>3, <2>4 DEF PrepareFails, PoolTypeOK, Holding
<1>17. ASSUME NEW c \in Clients, Begin(c) PROVE PoolTypeOK'
  BY <1>17 DEF Begin, Goes, PoolTypeOK, Phase
<1>18. ASSUME NEW c \in Clients, StreamEnds(c) PROVE PoolTypeOK'
  BY <1>18 DEF StreamEnds, Goes, poolVars, PoolTypeOK, InPool, Phase
<1>19. ASSUME NEW c \in Clients, RecordDetached(c) PROVE PoolTypeOK'
  BY <1>19 DEF RecordDetached, Goes, poolVars, PoolTypeOK, InPool, Phase
<1>20. ASSUME NEW c \in Clients, CallClientDisconnect(c) PROVE PoolTypeOK'
  BY <1>20 DEF CallClientDisconnect, Goes, poolVars, PoolTypeOK, InPool, Phase
<1>21. ASSUME NEW c \in Clients, CallShellDisconnect(c) PROVE PoolTypeOK'
  BY <1>21 DEF CallShellDisconnect, Goes, poolVars, PoolTypeOK, InPool, Phase
<1>22. ASSUME NEW c \in Clients, RemoveSession(c) PROVE PoolTypeOK'
  BY <1>22 DEF RemoveSession, Goes, PoolTypeOK, InPool, Phase
<1>23. ASSUME NEW c \in Clients, Release(c) PROVE PoolTypeOK'
  BY <1>23 DEF Release, Goes, PoolTypeOK, Phase
<1>24. CASE LauncherUp
  BY <1>24 DEF LauncherUp, clientVars, poolVars, PoolTypeOK
<1>25. ASSUME NEW s \in Shells, ChildExits(s) PROVE PoolTypeOK'
  BY <1>25 DEF ChildExits, clientVars, PoolTypeOK
<1>26. CASE UNCHANGED vars
  BY <1>26 DEF vars, clientVars, poolVars, PoolTypeOK
<1>27. QED
  BY <1>1, <1>2, <1>3, <1>4, <1>5, <1>6, <1>7, <1>8, <1>9, <1>10, <1>11, <1>12,
     <1>13, <1>14, <1>15, <1>16, <1>17, <1>18, <1>19, <1>20, <1>21, <1>22, <1>23,
     <1>24, <1>25, <1>26
     DEF Next, AttachStep, SelectStep, ServeStep

\* The record is removed by one client, which spawns once.
LEMMA RedeemedStep ==
    ASSUME PoolInv, [Next]_vars
    PROVE  Redeemed'
<1> USE DEF PoolInv
<1>1. ASSUME NEW c \in Clients, ReadPending(c) PROVE Redeemed'
  BY <1>1 DEF ReadPending, Goes, poolVars, Redeemed, RedeemedOnce, IsLauncher
<1>2. ASSUME NEW c \in Clients, Claim(c) PROVE Redeemed'
  BY <1>2 DEF Claim, Goes, poolVars, Redeemed, RedeemedOnce, IsLauncher, PoolTypeOK
<1>3. ASSUME NEW c \in Clients, CheckLive(c) PROVE Redeemed'
  BY <1>3
     DEF CheckLive, Goes, poolVars, Redeemed, RedeemedOnce, IsLauncher, PoolTypeOK,
         Spawned, Holding
<1>4. ASSUME NEW c \in Clients, ListPool(c) PROVE Redeemed'
  BY <1>4
     DEF ListPool, Goes, poolVars, Redeemed, RedeemedOnce, IsLauncher, PoolTypeOK,
         Spawned, Holding
<1>5. ASSUME NEW c \in Clients, GiveUp(c) PROVE Redeemed'
  BY <1>5 DEF GiveUp, Goes, poolVars, Redeemed, RedeemedOnce, IsLauncher, Spawned
<1>6. ASSUME NEW c \in Clients, TakeOver(c) PROVE Redeemed'
  BY <1>6 DEF TakeOver, Goes, Redeemed, RedeemedOnce, IsLauncher, Spawned, Holding
<1>7. ASSUME NEW c \in Clients, FindBusy(c) PROVE Redeemed'
  BY <1>7 DEF FindBusy, Goes, Redeemed, RedeemedOnce, IsLauncher, Spawned, Holding
<1>8. ASSUME NEW c \in Clients, CallBusy(c) PROVE Redeemed'
  BY <1>8 DEF CallBusy, Goes, Redeemed, RedeemedOnce, IsLauncher, Spawned, Holding
<1>9. ASSUME NEW c \in Clients, FindNone(c) PROVE Redeemed'
  BY <1>9
     DEF FindNone, Goes, poolVars, Redeemed, RedeemedOnce, IsLauncher, Spawned,
         Holding
<1>10. ASSUME NEW c \in Clients, CallNewSession(c) PROVE Redeemed'
  BY <1>10
     DEF CallNewSession, Goes, poolVars, Redeemed, RedeemedOnce, IsLauncher,
         Spawned, Holding
<1>11. ASSUME NEW c \in Clients, SpawnSubshell(c) PROVE Redeemed'
  BY <1>11
     DEF SpawnSubshell, Goes, Redeemed, RedeemedOnce, IsLauncher, PoolTypeOK,
         Spawned, Holding
<1>12. ASSUME NEW c \in Clients, InsertSession(c) PROVE Redeemed'
  BY <1>12 DEF InsertSession, Goes, Redeemed, RedeemedOnce, IsLauncher, Spawned
<1>13. ASSUME NEW c \in Clients, LockNew(c) PROVE Redeemed'
  BY <1>13
     DEF LockNew, Goes, Redeemed, RedeemedOnce, IsLauncher, PoolTypeOK, Spawned,
         Holding
<1>14. ASSUME NEW c \in Clients, LockWaited(c) PROVE Redeemed'
  BY <1>14
     DEF LockWaited, Goes, Redeemed, RedeemedOnce, IsLauncher, Spawned, Holding
<1>15. ASSUME NEW c \in Clients, SpawnFails(c) PROVE Redeemed'
  BY <1>15
     DEF SpawnFails, Goes, poolVars, Redeemed, RedeemedOnce, IsLauncher, Spawned
<1>16. ASSUME NEW c \in Clients, PrepareFails(c) PROVE Redeemed'
  BY <1>16 DEF PrepareFails, Goes, Redeemed, RedeemedOnce, IsLauncher, Spawned
<1>17. ASSUME NEW c \in Clients, Begin(c) PROVE Redeemed'
  BY <1>17
     DEF Begin, Goes, Redeemed, RedeemedOnce, IsLauncher, PoolTypeOK, Spawned,
         Holding
<1>18. ASSUME NEW c \in Clients, StreamEnds(c) PROVE Redeemed'
  BY <1>18
     DEF StreamEnds, Goes, poolVars, Redeemed, RedeemedOnce, IsLauncher, PoolTypeOK,
         Spawned, Holding
<1>19. ASSUME NEW c \in Clients, RecordDetached(c) PROVE Redeemed'
  BY <1>19
     DEF RecordDetached, Goes, poolVars, Redeemed, RedeemedOnce, IsLauncher,
         Spawned, Holding
<1>20. ASSUME NEW c \in Clients, CallClientDisconnect(c) PROVE Redeemed'
  BY <1>20
     DEF CallClientDisconnect, Goes, poolVars, Redeemed, RedeemedOnce, IsLauncher,
         Spawned, Holding
<1>21. ASSUME NEW c \in Clients, CallShellDisconnect(c) PROVE Redeemed'
  BY <1>21
     DEF CallShellDisconnect, Goes, poolVars, Redeemed, RedeemedOnce, IsLauncher,
         Spawned, Holding
<1>22. ASSUME NEW c \in Clients, RemoveSession(c) PROVE Redeemed'
  BY <1>22
     DEF RemoveSession, Goes, Redeemed, RedeemedOnce, IsLauncher, Spawned, Holding
<1>23. ASSUME NEW c \in Clients, Release(c) PROVE Redeemed'
  BY <1>23 DEF Release, Goes, Redeemed, RedeemedOnce, IsLauncher, Spawned
<1>24. CASE LauncherUp
  BY <1>24 DEF LauncherUp, clientVars, poolVars, Redeemed, RedeemedOnce, IsLauncher
<1>25. ASSUME NEW s \in Shells, ChildExits(s) PROVE Redeemed'
  BY <1>25 DEF ChildExits, clientVars, Redeemed, RedeemedOnce, IsLauncher
<1>26. CASE UNCHANGED vars
  BY <1>26 DEF vars, clientVars, poolVars, Redeemed, RedeemedOnce, IsLauncher
<1>27. QED
  BY <1>1, <1>2, <1>3, <1>4, <1>5, <1>6, <1>7, <1>8, <1>9, <1>10, <1>11, <1>12,
     <1>13, <1>14, <1>15, <1>16, <1>17, <1>18, <1>19, <1>20, <1>21, <1>22, <1>23,
     <1>24, <1>25, <1>26
     DEF Next, AttachStep, SelectStep, ServeStep

\* A lock is taken when free, and let go by its holder alone.
LEMMA LockedStep ==
    ASSUME PoolInv, [Next]_vars
    PROVE  Locked'
<1> USE DEF PoolInv
<1>1. ASSUME NEW c \in Clients, ReadPending(c) PROVE Locked'
  BY <1>1 DEF ReadPending, Goes, poolVars, Locked, Holding
<1>2. ASSUME NEW c \in Clients, Claim(c) PROVE Locked'
  BY <1>2 DEF Claim, Goes, poolVars, Locked, PoolTypeOK, Holding
<1>3. ASSUME NEW c \in Clients, CheckLive(c) PROVE Locked'
  BY <1>3 DEF CheckLive, Goes, poolVars, Locked, PoolTypeOK, Holding
<1>4. ASSUME NEW c \in Clients, ListPool(c) PROVE Locked'
  BY <1>4 DEF ListPool, Goes, poolVars, Locked, PoolTypeOK, Holding
<1>5. ASSUME NEW c \in Clients, GiveUp(c) PROVE Locked'
  BY <1>5 DEF GiveUp, Goes, poolVars, Locked, Holding
<1>6. ASSUME NEW c \in Clients, TakeOver(c) PROVE Locked'
  BY <1>6, PoolSessionAssumption DEF TakeOver, Goes, Held, Alive, Locked, PoolTypeOK
<1>7. ASSUME NEW c \in Clients, FindBusy(c) PROVE Locked'
  BY <1>7 DEF FindBusy, Goes, Locked, Holding
<1>8. ASSUME NEW c \in Clients, CallBusy(c) PROVE Locked'
  BY <1>8 DEF CallBusy, Goes, Locked, Holding
<1>9. ASSUME NEW c \in Clients, FindNone(c) PROVE Locked'
  BY <1>9 DEF FindNone, Goes, poolVars, Locked, Holding
<1>10. ASSUME NEW c \in Clients, CallNewSession(c) PROVE Locked'
  BY <1>10 DEF CallNewSession, Goes, poolVars, Locked, Holding
<1>11. ASSUME NEW c \in Clients, SpawnSubshell(c) PROVE Locked'
  <2>1. PICK s \in Shells :
            /\ kind[s] = "unused"
            /\ running' = running \cup {s}
            /\ stream' = stream \cup {s}
            /\ of' = [of EXCEPT ![c] = s]
    BY <1>11 DEF SpawnSubshell
  <2>2. pc[c] = "spawning" /\ pc' = [pc EXCEPT ![c] = "spawned"] /\ inner' = inner
    BY <1>11 DEF SpawnSubshell, Goes
  <2>3. \A d \in Clients : of[d] # s
    BY <2>1, PoolSessionAssumption DEF Used, Shells
  <2>4. QED
    BY <2>1, <2>2, <2>3 DEF Locked, PoolTypeOK, Holding
<1>12. ASSUME NEW c \in Clients, InsertSession(c) PROVE Locked'
  BY <1>12 DEF InsertSession, Goes, Locked, Holding
<1>13. ASSUME NEW c \in Clients, LockNew(c) PROVE Locked'
  BY <1>13, PoolSessionAssumption
     DEF LockNew, Goes, Held, Locked, PoolTypeOK, Holding
<1>14. ASSUME NEW c \in Clients, LockWaited(c) PROVE Locked'
  BY <1>14, PoolSessionAssumption DEF LockWaited, Goes, Locked, PoolTypeOK
<1>15. ASSUME NEW c \in Clients, SpawnFails(c) PROVE Locked'
  BY <1>15 DEF SpawnFails, Goes, poolVars, Locked, Holding
<1>16. ASSUME NEW c \in Clients, PrepareFails(c) PROVE Locked'
  BY <1>16 DEF PrepareFails, Goes, Locked, PoolTypeOK, Holding
<1>17. ASSUME NEW c \in Clients, Begin(c) PROVE Locked'
  BY <1>17 DEF Begin, Goes, Locked, PoolTypeOK, Holding
<1>18. ASSUME NEW c \in Clients, StreamEnds(c) PROVE Locked'
  BY <1>18 DEF StreamEnds, Goes, poolVars, Locked, PoolTypeOK, Holding
<1>19. ASSUME NEW c \in Clients, RecordDetached(c) PROVE Locked'
  BY <1>19 DEF RecordDetached, Goes, poolVars, Locked, Holding
<1>20. ASSUME NEW c \in Clients, CallClientDisconnect(c) PROVE Locked'
  BY <1>20 DEF CallClientDisconnect, Goes, poolVars, Locked, Holding
<1>21. ASSUME NEW c \in Clients, CallShellDisconnect(c) PROVE Locked'
  BY <1>21 DEF CallShellDisconnect, Goes, poolVars, Locked, Holding
<1>22. ASSUME NEW c \in Clients, RemoveSession(c) PROVE Locked'
  BY <1>22 DEF RemoveSession, Goes, Locked, Holding
<1>23. ASSUME NEW c \in Clients, Release(c) PROVE Locked'
  BY <1>23 DEF Release, Goes, Locked, PoolTypeOK, Holding
<1>24. CASE LauncherUp
  BY <1>24 DEF LauncherUp, clientVars, poolVars, Locked
<1>25. ASSUME NEW s \in Shells, ChildExits(s) PROVE Locked'
  BY <1>25 DEF ChildExits, clientVars, Locked
<1>26. CASE UNCHANGED vars
  BY <1>26 DEF vars, clientVars, poolVars, Locked
<1>27. QED
  BY <1>1, <1>2, <1>3, <1>4, <1>5, <1>6, <1>7, <1>8, <1>9, <1>10, <1>11, <1>12,
     <1>13, <1>14, <1>15, <1>16, <1>17, <1>18, <1>19, <1>20, <1>21, <1>22, <1>23,
     <1>24, <1>25, <1>26
     DEF Next, AttachStep, SelectStep, ServeStep

\* Only a spawned shell is entered, worked on, or left.
LEMMA UsedStep ==
    ASSUME PoolInv, [Next]_vars
    PROVE  Used'
<1> USE DEF PoolInv
<1>1. ASSUME NEW c \in Clients, ReadPending(c) PROVE Used'
  BY <1>1 DEF ReadPending, Goes, poolVars, Used
<1>2. ASSUME NEW c \in Clients, Claim(c) PROVE Used'
  BY <1>2 DEF Claim, Goes, poolVars, Used
<1>3. ASSUME NEW c \in Clients, CheckLive(c) PROVE Used'
  BY <1>3 DEF CheckLive, Goes, poolVars, Used
<1>4. ASSUME NEW c \in Clients, ListPool(c) PROVE Used'
  BY <1>4 DEF ListPool, Goes, poolVars, Used
<1>5. ASSUME NEW c \in Clients, GiveUp(c) PROVE Used'
  BY <1>5 DEF GiveUp, Goes, poolVars, Used
<1>6. ASSUME NEW c \in Clients, TakeOver(c) PROVE Used'
  BY <1>6 DEF TakeOver, Goes, Alive, Used
<1>7. ASSUME NEW c \in Clients, FindBusy(c) PROVE Used'
  BY <1>7 DEF FindBusy, Goes, Used
<1>8. ASSUME NEW c \in Clients, CallBusy(c) PROVE Used'
  BY <1>8 DEF CallBusy, Goes, Used
<1>9. ASSUME NEW c \in Clients, FindNone(c) PROVE Used'
  BY <1>9 DEF FindNone, Goes, poolVars, Used
<1>10. ASSUME NEW c \in Clients, CallNewSession(c) PROVE Used'
  BY <1>10 DEF CallNewSession, Goes, poolVars, Used
<1>11. ASSUME NEW c \in Clients, SpawnSubshell(c) PROVE Used'
  BY <1>11 DEF SpawnSubshell, Goes, Used, PoolTypeOK
<1>12. ASSUME NEW c \in Clients, InsertSession(c) PROVE Used'
  BY <1>12 DEF InsertSession, Goes, Used
<1>13. ASSUME NEW c \in Clients, LockNew(c) PROVE Used'
  BY <1>13 DEF LockNew, Goes, Used
<1>14. ASSUME NEW c \in Clients, LockWaited(c) PROVE Used'
  BY <1>14 DEF LockWaited, Goes, Used
<1>15. ASSUME NEW c \in Clients, SpawnFails(c) PROVE Used'
  BY <1>15 DEF SpawnFails, Goes, poolVars, Used
<1>16. ASSUME NEW c \in Clients, PrepareFails(c) PROVE Used'
  BY <1>16 DEF PrepareFails, Goes, Used
<1>17. ASSUME NEW c \in Clients, Begin(c) PROVE Used'
  BY <1>17 DEF Begin, Goes, Used
<1>18. ASSUME NEW c \in Clients, StreamEnds(c) PROVE Used'
  BY <1>18 DEF StreamEnds, Goes, poolVars, Used
<1>19. ASSUME NEW c \in Clients, RecordDetached(c) PROVE Used'
  BY <1>19 DEF RecordDetached, Goes, poolVars, Used
<1>20. ASSUME NEW c \in Clients, CallClientDisconnect(c) PROVE Used'
  BY <1>20 DEF CallClientDisconnect, Goes, poolVars, Used
<1>21. ASSUME NEW c \in Clients, CallShellDisconnect(c) PROVE Used'
  BY <1>21 DEF CallShellDisconnect, Goes, poolVars, Used
<1>22. ASSUME NEW c \in Clients, RemoveSession(c) PROVE Used'
  BY <1>22 DEF RemoveSession, Goes, Used
<1>23. ASSUME NEW c \in Clients, Release(c) PROVE Used'
  BY <1>23 DEF Release, Goes, Used
<1>24. CASE LauncherUp
  BY <1>24 DEF LauncherUp, clientVars, poolVars, Used
<1>25. ASSUME NEW s \in Shells, ChildExits(s) PROVE Used'
  BY <1>25 DEF ChildExits, clientVars, Used
<1>26. CASE UNCHANGED vars
  BY <1>26 DEF vars, clientVars, poolVars, Used
<1>27. QED
  BY <1>1, <1>2, <1>3, <1>4, <1>5, <1>6, <1>7, <1>8, <1>9, <1>10, <1>11, <1>12,
     <1>13, <1>14, <1>15, <1>16, <1>17, <1>18, <1>19, <1>20, <1>21, <1>22, <1>23,
     <1>24, <1>25, <1>26
     DEF Next, AttachStep, SelectStep, ServeStep

\* While the launcher runs there is no other shell.
LEMMA OnlyShell ==
    ASSUME PoolInv, NEW s \in running, IsLauncher(s),
           NEW t \in Shells, kind[t] # "unused"
    PROVE  t = s
  BY DEF PoolInv, PoolTypeOK, Guarded, Redeemed, RedeemedOnce, IsLauncher

\* The guard, the list and the look into the table, in that order.
LEMMA GuardedStep ==
    ASSUME PoolInv, [Next]_vars
    PROVE  Guarded'
<1> USE DEF PoolInv
<1>1. ASSUME NEW c \in Clients, ReadPending(c) PROVE Guarded'
  BY <1>1 DEF ReadPending, Goes, poolVars, Guarded, IsLauncher
<1>2. ASSUME NEW c \in Clients, Claim(c) PROVE Guarded'
  BY <1>2 DEF Claim, Goes, poolVars, Guarded, IsLauncher, PoolTypeOK
<1>3. ASSUME NEW c \in Clients, CheckLive(c) PROVE Guarded'
  BY <1>3 DEF CheckLive, Goes, poolVars, Guarded, IsLauncher, PoolTypeOK
<1>4. ASSUME NEW c \in Clients, ListPool(c) PROVE Guarded'
  BY <1>4
     DEF ListPool, Goes, poolVars, Guarded, Redeemed, RedeemedOnce, IsLauncher,
         Used, PoolTypeOK
<1>5. ASSUME NEW c \in Clients, GiveUp(c) PROVE Guarded'
  BY <1>5 DEF GiveUp, Goes, poolVars, Guarded, IsLauncher
<1>6. ASSUME NEW c \in Clients, TakeOver(c) PROVE Guarded'
  BY <1>6 DEF TakeOver, Goes, Guarded, IsLauncher
<1>7. ASSUME NEW c \in Clients, FindBusy(c) PROVE Guarded'
  BY <1>7 DEF FindBusy, Goes, Guarded, IsLauncher
<1>8. ASSUME NEW c \in Clients, CallBusy(c) PROVE Guarded'
  BY <1>8 DEF CallBusy, Goes, Guarded, IsLauncher
<1>9. ASSUME NEW c \in Clients, FindNone(c) PROVE Guarded'
  <2>1. pc[c] = "dial" /\ pc' = [pc EXCEPT ![c] = "spawn"]
        /\ UNCHANGED <<claimed, kind, running, live, table>>
    BY <1>9 DEF FindNone, Goes, poolVars
  <2>2. ~Alive
    BY <1>9 DEF FindNone
  <2>3. ASSUME NEW s \in running, IsLauncher(s) PROVE c \in claimed
    BY <2>1, <2>2, <2>3, PoolSessionAssumption
       DEF Alive, Guarded, IsLauncher, Shells
  <2>4. QED
    BY <2>1, <2>3 DEF Guarded, IsLauncher
<1>10. ASSUME NEW c \in Clients, CallNewSession(c) PROVE Guarded'
  BY <1>10 DEF CallNewSession, Goes, poolVars, Guarded, IsLauncher
<1>11. ASSUME NEW c \in Clients, SpawnSubshell(c) PROVE Guarded'
  BY <1>11 DEF SpawnSubshell, Goes, Guarded, Redeemed, IsLauncher, Holding, Spawned
<1>12. ASSUME NEW c \in Clients, InsertSession(c) PROVE Guarded'
  <2>1. pc[c] = "spawned" /\ pc' = [pc EXCEPT ![c] = "inserted"] /\ table' = of[c]
        /\ UNCHANGED <<claimed, kind, running, live>>
    BY <1>12 DEF InsertSession, Goes
  <2>2. of[c] \in Shells /\ kind[of[c]] # "unused"
    BY <2>1, PoolSessionAssumption DEF Locked, Used, Shells
  <2>3. ASSUME NEW s \in running, IsLauncher(s) PROVE c \in claimed /\ table' = s
    BY <2>1, <2>2, <2>3, OnlyShell DEF Guarded
  <2>4. QED
    BY <2>1, <2>3 DEF Guarded, IsLauncher
<1>13. ASSUME NEW c \in Clients, LockNew(c) PROVE Guarded'
  BY <1>13 DEF LockNew, Goes, Guarded, IsLauncher, PoolTypeOK
<1>14. ASSUME NEW c \in Clients, LockWaited(c) PROVE Guarded'
  BY <1>14 DEF LockWaited, Goes, Guarded, IsLauncher
<1>15. ASSUME NEW c \in Clients, SpawnFails(c) PROVE Guarded'
  BY <1>15 DEF SpawnFails, Goes, poolVars, Guarded, IsLauncher
<1>16. ASSUME NEW c \in Clients, PrepareFails(c) PROVE Guarded'
  BY <1>16 DEF PrepareFails, Goes, Guarded, IsLauncher
<1>17. ASSUME NEW c \in Clients, Begin(c) PROVE Guarded'
  BY <1>17 DEF Begin, Goes, Guarded, IsLauncher, PoolTypeOK
<1>18. ASSUME NEW c \in Clients, StreamEnds(c) PROVE Guarded'
  BY <1>18 DEF StreamEnds, Goes, poolVars, Guarded, IsLauncher, PoolTypeOK
<1>19. ASSUME NEW c \in Clients, RecordDetached(c) PROVE Guarded'
  BY <1>19 DEF RecordDetached, Goes, poolVars, Guarded, IsLauncher
<1>20. ASSUME NEW c \in Clients, CallClientDisconnect(c) PROVE Guarded'
  BY <1>20 DEF CallClientDisconnect, Goes, poolVars, Guarded, IsLauncher
<1>21. ASSUME NEW c \in Clients, CallShellDisconnect(c) PROVE Guarded'
  BY <1>21 DEF CallShellDisconnect, Goes, poolVars, Guarded, IsLauncher
<1>22. ASSUME NEW c \in Clients, RemoveSession(c) PROVE Guarded'
  <2>1. pc[c] = "removing" /\ pc' = [pc EXCEPT ![c] = "releasing"]
        /\ UNCHANGED <<claimed, kind, running, live>>
    BY <1>22 DEF RemoveSession, Goes
  <2>2. of[c] \in Shells /\ kind[of[c]] # "unused" /\ of[c] \notin running
    BY <2>1, PoolSessionAssumption DEF Locked, Used, Holding, Shells
  <2>3. ASSUME NEW s \in running, IsLauncher(s) PROVE FALSE
    BY <2>2, <2>3, OnlyShell
  <2>4. QED
    BY <2>1, <2>3 DEF Guarded, IsLauncher
<1>23. ASSUME NEW c \in Clients, Release(c) PROVE Guarded'
  BY <1>23 DEF Release, Goes, Guarded, IsLauncher
<1>24. CASE LauncherUp
  BY <1>24 DEF LauncherUp, clientVars, poolVars, Guarded, IsLauncher
<1>25. ASSUME NEW s \in Shells, ChildExits(s) PROVE Guarded'
  BY <1>25 DEF ChildExits, clientVars, Guarded, IsLauncher
<1>26. CASE UNCHANGED vars
  BY <1>26 DEF vars, clientVars, poolVars, Guarded, IsLauncher
<1>27. QED
  BY <1>1, <1>2, <1>3, <1>4, <1>5, <1>6, <1>7, <1>8, <1>9, <1>10, <1>11, <1>12,
     <1>13, <1>14, <1>15, <1>16, <1>17, <1>18, <1>19, <1>20, <1>21, <1>22, <1>23,
     <1>24, <1>25, <1>26
     DEF Next, AttachStep, SelectStep, ServeStep

\* Hooks run in the order of the lock.
LEMMA ServedStep ==
    ASSUME PoolInv, [Next]_vars
    PROVE  Served'
<1> USE DEF PoolInv
<1>1. ASSUME NEW c \in Clients, ReadPending(c) PROVE Served'
  BY <1>1 DEF ReadPending, Goes, poolVars, Served, IsLauncher
<1>2. ASSUME NEW c \in Clients, Claim(c) PROVE Served'
  BY <1>2 DEF Claim, Goes, poolVars, Served, IsLauncher, PoolTypeOK
<1>3. ASSUME NEW c \in Clients, CheckLive(c) PROVE Served'
  BY <1>3 DEF CheckLive, Goes, poolVars, Served, IsLauncher, PoolTypeOK
<1>4. ASSUME NEW c \in Clients, ListPool(c) PROVE Served'
  BY <1>4 DEF ListPool, Goes, poolVars, Served, IsLauncher, PoolTypeOK
<1>5. ASSUME NEW c \in Clients, GiveUp(c) PROVE Served'
  BY <1>5 DEF GiveUp, Goes, poolVars, Served, IsLauncher
<1>6. ASSUME NEW c \in Clients, TakeOver(c) PROVE Served'
  BY <1>6 DEF TakeOver, Goes, Served
<1>7. ASSUME NEW c \in Clients, FindBusy(c) PROVE Served'
  BY <1>7 DEF FindBusy, Goes, Served, IsLauncher
<1>8. ASSUME NEW c \in Clients, CallBusy(c) PROVE Served'
  BY <1>8 DEF CallBusy, Goes, Served
<1>9. ASSUME NEW c \in Clients, FindNone(c) PROVE Served'
  BY <1>9 DEF FindNone, Goes, poolVars, Served, IsLauncher
<1>10. ASSUME NEW c \in Clients, CallNewSession(c) PROVE Served'
  BY <1>10 DEF CallNewSession, Goes, poolVars, Served
<1>11. ASSUME NEW c \in Clients, SpawnSubshell(c) PROVE Served'
  BY <1>11 DEF SpawnSubshell, Goes, Served, IsLauncher
<1>12. ASSUME NEW c \in Clients, InsertSession(c) PROVE Served'
  BY <1>12 DEF InsertSession, Goes, Served, IsLauncher
<1>13. ASSUME NEW c \in Clients, LockNew(c) PROVE Served'
  BY <1>13 DEF LockNew, Goes, Served, IsLauncher, PoolTypeOK
<1>14. ASSUME NEW c \in Clients, LockWaited(c) PROVE Served'
  BY <1>14 DEF LockWaited, Goes, Served, IsLauncher
<1>15. ASSUME NEW c \in Clients, SpawnFails(c) PROVE Served'
  BY <1>15 DEF SpawnFails, Goes, poolVars, Served, IsLauncher
<1>16. ASSUME NEW c \in Clients, PrepareFails(c) PROVE Served'
  BY <1>16 DEF PrepareFails, Goes, Served, IsLauncher
<1>17. ASSUME NEW c \in Clients, Begin(c) PROVE Served'
  BY <1>17 DEF Begin, Goes, Served, IsLauncher, PoolTypeOK
<1>18. ASSUME NEW c \in Clients, StreamEnds(c) PROVE Served'
  BY <1>18 DEF StreamEnds, Goes, poolVars, Served, IsLauncher, PoolTypeOK
<1>19. ASSUME NEW c \in Clients, RecordDetached(c) PROVE Served'
  BY <1>19 DEF RecordDetached, Goes, poolVars, Served, IsLauncher
<1>20. ASSUME NEW c \in Clients, CallClientDisconnect(c) PROVE Served'
  <2>1. pc[c] = "detached" /\ pc' = [pc EXCEPT ![c] = "releasing"]
        /\ UNCHANGED <<claimed, of, kind, running, stream, inner>>
    BY <1>20 DEF CallClientDisconnect, Goes, poolVars
  <2>2. of[c] \in Shells /\ kind[of[c]] # "unused" /\ inner[of[c]] = c /\ of[c] \notin stream
    BY <2>1, PoolSessionAssumption DEF Locked, Used, Holding, Shells
  <2>3. ASSUME NEW d \in claimed, pc[d] = "spawning" PROVE FALSE
    BY <2>2, <2>3 DEF Guarded, Redeemed, IsLauncher, PoolTypeOK, Spawned, Holding
  <2>4. ASSUME NEW s \in running, IsLauncher(s),
               s \in stream \/ \E d \in Clients : pc[d] = "streaming" /\ of[d] = s
        PROVE  FALSE
    <3>1. of[c] = s
      BY <2>2, <2>4, OnlyShell
    <3>2. QED
      BY <2>1, <2>2, <2>4, <3>1 DEF Locked, Holding
  <2>5. QED
    BY <2>1, <2>3, <2>4 DEF Served, IsLauncher
<1>21. ASSUME NEW c \in Clients, CallShellDisconnect(c) PROVE Served'
  <2>1. pc[c] = "ending" /\ pc' = [pc EXCEPT ![c] = "removing"]
        /\ UNCHANGED <<claimed, of, kind, running, stream, inner>>
    BY <1>21 DEF CallShellDisconnect, Goes, poolVars
  <2>2. of[c] \in Shells /\ kind[of[c]] # "unused" /\ of[c] \notin running
    BY <2>1, PoolSessionAssumption DEF Locked, Used, Holding, Shells
  <2>3. ASSUME NEW d \in claimed, pc[d] = "spawning" PROVE FALSE
    BY <2>2, <2>3 DEF Guarded, Redeemed, IsLauncher, PoolTypeOK, Spawned, Holding
  <2>4. ASSUME NEW s \in running, IsLauncher(s) PROVE FALSE
    BY <2>2, <2>4, OnlyShell
  <2>5. QED
    BY <2>1, <2>3, <2>4 DEF Served, IsLauncher
<1>22. ASSUME NEW c \in Clients, RemoveSession(c) PROVE Served'
  BY <1>22 DEF RemoveSession, Goes, Served, IsLauncher
<1>23. ASSUME NEW c \in Clients, Release(c) PROVE Served'
  BY <1>23 DEF Release, Goes, Served, IsLauncher
<1>24. CASE LauncherUp
  BY <1>24 DEF LauncherUp, clientVars, poolVars, Served, IsLauncher
<1>25. ASSUME NEW s \in Shells, ChildExits(s) PROVE Served'
  BY <1>25 DEF ChildExits, clientVars, Served, IsLauncher
<1>26. CASE UNCHANGED vars
  BY <1>26 DEF vars, clientVars, poolVars, Served, IsLauncher
<1>27. QED
  BY <1>1, <1>2, <1>3, <1>4, <1>5, <1>6, <1>7, <1>8, <1>9, <1>10, <1>11, <1>12,
     <1>13, <1>14, <1>15, <1>16, <1>17, <1>18, <1>19, <1>20, <1>21, <1>22, <1>23,
     <1>24, <1>25, <1>26
     DEF Next, AttachStep, SelectStep, ServeStep

------------------------------------------------------------------------------
(* Theorems *)

LEMMA PoolInit == Init => PoolInv
<1> SUFFICES ASSUME Init PROVE PoolInv
  OBVIOUS
<1>1. PoolTypeOK
  <2>1. failures \in 0..MaxFailures
    BY PoolSessionAssumption DEF Init
  <2>2. /\ pc \in [Clients -> Phase]
        /\ kind \in [Shells -> {"unused", "launcher", "login"}]
        /\ of \in [Clients -> Shells \cup {None}]
        /\ inner \in [Shells -> Clients \cup {None}]
    BY DEF Init, Phase, AtClient
  <2>3. \A s \in Shells : inner[s] = None
    BY DEF Init
  <2>4. QED
    BY <2>1, <2>2, <2>3 DEF Init, PoolTypeOK
<1>2. Redeemed /\ Locked /\ Used
  BY DEF Init, Redeemed, RedeemedOnce, Locked, Used, IsLauncher, Holding
<1>3. Guarded /\ Served
  BY DEF Init, Guarded, Served, IsLauncher
<1>4. QED
  BY <1>1, <1>2, <1>3 DEF PoolInv

\* The invariant of the pool, for any number of clients, steals and shells.
THEOREM PoolInvariant == Spec => []PoolInv
<1>1. PoolInv /\ [Next]_vars => PoolInv'
  BY PoolTypeOKStep, RedeemedStep, LockedStep, UsedStep, GuardedStep, ServedStep
     DEF PoolInv
<1>2. QED
  BY PoolInit, <1>1, PTL DEF Spec

\* The state keeps its type, and nobody keeps a lock past the steps that hold it.
THEOREM PoolTypeCorrect == Spec => []PoolTypeOK
<1>1. PoolInv => PoolTypeOK
  BY DEF PoolInv
<1>2. QED
  BY PoolInvariant, <1>1, PTL

\* However many windows race for a reservation, one launcher comes of it.
THEOREM ReservationIsRedeemedOnce == Spec => []RedeemedOnce
<1>1. PoolInv => RedeemedOnce
  BY DEF PoolInv, Redeemed
<1>2. QED
  BY PoolInvariant, <1>1, PTL

\* A session somebody is on is served as attached, whoever was kicked for it.
THEOREM HookOrder == Spec => []HeldIsNotFree
<1>1. PoolInv => HeldIsNotFree
  BY DEF PoolInv, HeldIsNotFree, Served, Used, IsLauncher, PoolTypeOK
<1>2. QED
  BY PoolInvariant, <1>1, PTL
-----------------------------------------------------------------------------
(* The bindings of the dashboard.                                           *)

(* A window that is w of session t, or none.                                *)
IsOf(w, t) == w = 0 \/ (w \in Windows /\ wins[w].of = t)

(* What is remembered of a session's window is a window of that session.    *)
Own ==
    \A t \in Tokens :
        /\ IsOf(bound[t], t) /\ IsOf(pruned[t], t) /\ IsOf(file[t], t)
        /\ opening[t] # Nil => IsOf(opening[t], t)

(* One window at a time: a session that has one is not given another, and   *)
(* what the snapshot took is not what is being opened.                      *)
OneByOne ==
    \A t \in Tokens :
        /\ bound[t] # 0 => pruned[t] = 0 /\ opening[t] = Nil
        /\ opening[t] \notin {Nil, 0} => pruned[t] # opening[t]

(* A dashboard that is not running knows nothing.                           *)
Forgotten ==
    ~up =>
        /\ conn = "down" /\ rows = {} /\ presumed = {} /\ expected = {} /\ swept = {}
        /\ bound = Unbound /\ pruned = Unbound /\ opening = [t \in Tokens |-> Nil]
        /\ shot = Nil /\ refocus = Nil /\ closes = {} /\ detached = {} /\ starts < MaxStarts

(* The epoch counts the losses that have been made up for.                  *)
Counted ==
    /\ epoch <= drops
    /\ (up /\ conn = "down" /\ drops > 0) => epoch < drops

(* What the user detached is neither expected nor on its way.               *)
Aside ==
    /\ \A t \in detached : t \notin expected /\ opening[t] = Nil
    /\ \A t \in swept : opening[t] # Nil

(* The window of a hangup that is yet to be reported was closed by hand, or *)
(* its report finds nothing to answer.                                      *)
HungUp ==
    \A w \in Windows : wins[w].st = "hup" =>
        /\ wins[w].of \in asked \cup overtaken \/ Answers(wins[w].of) = 0
        /\ opening[wins[w].of] = w => wins[w].of \in asked

(* A snapshot that nothing overtook saw every bound window there still is.  *)
Seen ==
    (shot # Nil /\ ~shot.stale) =>
        \A t \in Tokens : bound[t] # 0 /\ bound[t] \notin shot.live => bound[t] \notin Shown

BindInv ==
    /\ WindowBindingsTypeOK /\ Own /\ OneByOne /\ Forgotten /\ Counted
    /\ Aside /\ HungUp /\ Seen
-----------------------------------------------------------------------------
(* The windows.                                                             *)

\* Windows that end stay the windows they are; those of W that were live end.
LEMMA EndFacts ==
    ASSUME NEW ws \in Seq(AttachWindow), NEW W, NEW how \in {"hup", "lost", "quit"},
           Reports \in BOOLEAN
    PROVE  /\ End(ws, W, how) \in Seq(AttachWindow) /\ Len(End(ws, W, how)) = Len(ws)
           /\ \A w \in 1..Len(ws) :
                 /\ End(ws, W, how)[w].of = ws[w].of
                 /\ End(ws, W, how)[w].st =
                       IF w \in W /\ ws[w].st = "live"
                       THEN IF Reports THEN how ELSE "done" ELSE ws[w].st
  <1>1. /\ DOMAIN ws = 1..Len(ws) /\ Len(ws) \in Nat
        /\ \A w \in 1..Len(ws) : ws[w] \in AttachWindow
    OBVIOUS
  <1>2. DOMAIN End(ws, W, how) = 1..Len(ws)
    BY <1>1 DEF End
  <1>3. ASSUME NEW w \in 1..Len(ws)
        PROVE  /\ End(ws, W, how)[w] \in AttachWindow
               /\ End(ws, W, how)[w].of = ws[w].of
               /\ End(ws, W, how)[w].st =
                     IF w \in W /\ ws[w].st = "live"
                     THEN IF Reports THEN how ELSE "done" ELSE ws[w].st
    BY <1>1, <1>3 DEF End, AttachWindow, Owing
  <1>4. End(ws, W, how) \in [1..Len(ws) -> AttachWindow]
    BY <1>1, <1>3 DEF End
  <1>5. End(ws, W, how) \in Seq(AttachWindow)
    BY <1>1, <1>4, SeqDef
  <1>6. Len(End(ws, W, how)) = Len(ws)
    BY <1>1, <1>2, <1>5
  <1>. QED
    BY <1>3, <1>5, <1>6

LEMMA ReportReadFacts ==
    ASSUME NEW ws \in Seq(AttachWindow), NEW w \in 1..Len(ws)
    PROVE  /\ ReportRead(ws, w) \in Seq(AttachWindow) /\ Len(ReportRead(ws, w)) = Len(ws)
           /\ \A v \in 1..Len(ws) :
                 /\ ReportRead(ws, w)[v].of = ws[v].of
                 /\ ReportRead(ws, w)[v].st =
                       IF v # w THEN ws[v].st
                       ELSE IF ws[w].st = "refused" THEN "held" ELSE "done"
  <1>1. /\ DOMAIN ws = 1..Len(ws) /\ Len(ws) \in Nat
        /\ \A v \in 1..Len(ws) : ws[v] \in AttachWindow
    OBVIOUS
  <1>2. ASSUME NEW v \in 1..Len(ws)
        PROVE  /\ ReportRead(ws, w)[v] \in AttachWindow
               /\ ReportRead(ws, w)[v].of = ws[v].of
               /\ ReportRead(ws, w)[v].st =
                     IF v # w THEN ws[v].st
                     ELSE IF ws[w].st = "refused" THEN "held" ELSE "done"
    BY <1>1, <1>2 DEF ReportRead, AttachWindow, Owing
  <1>3. DOMAIN ReportRead(ws, w) = 1..Len(ws)
    BY <1>1 DEF ReportRead
  <1>4. ReportRead(ws, w) \in [1..Len(ws) -> AttachWindow]
    BY <1>1, <1>2, <1>3 DEF ReportRead
  <1>5. ReportRead(ws, w) \in Seq(AttachWindow)
    BY <1>1, <1>4, SeqDef
  <1>. QED
    BY <1>1, <1>2, <1>3, <1>5

\* What happens to the windows there are: none is given to another session,
\* and none comes back on screen.
Later ==
    /\ wins' \in Seq(AttachWindow) /\ Len(wins) <= Len(wins') /\ Len(wins') <= MaxWins
    /\ \A w \in Windows :
          /\ w \in Windows' /\ wins'[w].of = wins[w].of
          /\ w \notin Shown => w \notin Shown'

LEMMA SameIsLater ==
    ASSUME WindowBindingsTypeOK, wins' = wins
    PROVE  Later /\ \A w \in Windows' : w \in Windows
  BY DEF WindowBindingsTypeOK, WinTypes, Later, Windows, Shown

LEMMA EndIsLater ==
    ASSUME WindowBindingsTypeOK, NEW W, NEW how \in {"hup", "lost", "quit"},
           wins' = End(wins, W, how)
    PROVE  /\ Later /\ Windows' = Windows
           /\ \A w \in Windows :
                 wins'[w].st = "hup" => wins[w].st = "hup" \/ (w \in W /\ how = "hup")
  <1>1. /\ wins \in Seq(AttachWindow) /\ Len(wins) <= MaxWins /\ Len(wins) \in Nat
        /\ Reports \in BOOLEAN
    BY WindowBindingsAssumption DEF WindowBindingsTypeOK, WinTypes, OpTypes
  <1>2. /\ wins' \in Seq(AttachWindow) /\ Len(wins') = Len(wins)
        /\ \A w \in 1..Len(wins) :
              /\ wins'[w].of = wins[w].of
              /\ wins'[w].st =
                    IF w \in W /\ wins[w].st = "live"
                    THEN IF Reports THEN how ELSE "done" ELSE wins[w].st
    BY <1>1, EndFacts
  <1>. QED
    BY <1>1, <1>2 DEF Later, Windows, Shown

LEMMA OpensIsLater ==
    ASSUME WindowBindingsTypeOK, NEW t \in Tokens, Opens(t)
    PROVE  /\ Later /\ Len(wins') = Len(wins) + 1 /\ Len(wins') \in Windows'
           /\ opening'[t] = Len(wins') /\ wins'[Len(wins')].of = t
           /\ wins'[Len(wins')].st # "hup"
           /\ \A w \in Windows : wins'[w] = wins[w]
  <1>1. /\ wins \in Seq(AttachWindow) /\ Len(wins) \in Nat /\ MaxWins \in Nat
        /\ opening \in [Tokens -> {Nil} \cup 0..MaxWins] /\ Len(wins) < MaxWins
    BY WindowBindingsAssumption DEF WindowBindingsTypeOK, WinTypes, OpTypes, Opens
  <1>2. PICK x \in AttachWindow : wins' = Append(wins, x) /\ x.of = t /\ x.st # "hup"
    BY DEF Opens, AttachWindow, Owing
  <1>3. /\ wins' \in Seq(AttachWindow) /\ Len(wins') = Len(wins) + 1 /\ wins'[Len(wins')] = x
        /\ \A w \in 1..Len(wins) : wins'[w] = wins[w]
    BY <1>1, <1>2
  <1>4. opening'[t] = Len(wins')
    BY <1>1 DEF Opens
  <1>. QED
    BY <1>1, <1>2, <1>3, <1>4 DEF Later, Windows, Shown

LEMMA ApplyReportIsLater ==
    ASSUME WindowBindingsTypeOK, NEW w \in Windows, ApplyReport(w)
    PROVE  /\ Later /\ Windows' = Windows /\ wins'[w].st # "hup"
           /\ \A v \in Windows \ {w} :
                 wins'[v].st = "hup" =>
                     wins[v].st = "hup" \/ (v = Answers(wins[w].of) /\ v # 0)
  <1>. DEFINE ws == ReportRead(wins, w)
  <1>1. /\ wins \in Seq(AttachWindow) /\ Len(wins) <= MaxWins /\ Len(wins) \in Nat
        /\ Reports \in BOOLEAN
    BY WindowBindingsAssumption DEF WindowBindingsTypeOK, WinTypes, OpTypes
  <1>2. wins' = ws \/ wins' = End(ws, {Answers(wins[w].of)}, "hup")
    BY DEF ApplyReport
  <1>3. /\ ws \in Seq(AttachWindow) /\ Len(ws) = Len(wins)
        /\ \A v \in 1..Len(wins) :
              /\ ws[v].of = wins[v].of
              /\ ws[v].st = IF v # w THEN wins[v].st
                            ELSE IF wins[w].st = "refused" THEN "held" ELSE "done"
    BY <1>1, ReportReadFacts DEF Windows
  <1>4. wins[w].st \in Owing
    BY DEF ApplyReport
  <1>5. CASE wins' = ws
    BY <1>1, <1>3, <1>4, <1>5 DEF Later, Windows, Shown, Owing
  <1>6. CASE wins' = End(ws, {Answers(wins[w].of)}, "hup")
    <2>1. /\ wins' \in Seq(AttachWindow) /\ Len(wins') = Len(ws)
          /\ \A v \in 1..Len(ws) :
                /\ wins'[v].of = ws[v].of
                /\ wins'[v].st =
                      IF v \in {Answers(wins[w].of)} /\ ws[v].st = "live"
                      THEN IF Reports THEN "hup" ELSE "done" ELSE ws[v].st
      BY <1>1, <1>3, <1>6, EndFacts
    <2>. HIDE DEF ws
    <2>2. Windows' = Windows /\ Len(ws) = Len(wins)
      BY <1>3, <2>1 DEF Windows
    <2>3. Later
      BY <1>1, <1>3, <1>4, <2>1 DEF Later, Windows, Shown, Owing
    <2>4. wins'[w].st # "hup"
      BY <1>3, <1>4, <2>1 DEF Windows, Owing
    <2>5. ASSUME NEW v \in Windows \ {w}, wins'[v].st = "hup"
          PROVE  wins[v].st = "hup" \/ (v = Answers(wins[w].of) /\ v # 0)
      BY <1>3, <2>1, <2>5 DEF Windows
    <2>. QED
      BY <2>2, <2>3, <2>4, <2>5
  <1>. QED
    BY <1>2, <1>5, <1>6

\* A dashboard that starts reads every report that waits.
LEMMA StartIsLater ==
    ASSUME WindowBindingsTypeOK, Start
    PROVE  /\ Later /\ Windows' = Windows
           /\ \A w \in Windows : wins'[w].st = "hup" =>
                 \E t \in Tokens : file[t] = w /\ bound'[t] = 0
  <1>. DEFINE gone == {w \in Windows : wins[w].st \in Owing}
              told == {wins[w].of : w \in gone}
              ws == [w \in Windows |->
                        IF w \in gone
                        THEN [wins[w] EXCEPT !.st = IF @ = "refused" THEN "held" ELSE "done"]
                        ELSE wins[w]]
  <1>1. /\ wins \in Seq(AttachWindow) /\ Len(wins) <= MaxWins /\ Len(wins) \in Nat
        /\ Reports \in BOOLEAN
        /\ \A w \in Windows : wins[w] \in AttachWindow
    BY WindowBindingsAssumption DEF WindowBindingsTypeOK, WinTypes, OpTypes, Windows
  <1>2. /\ wins' = End(ws, {file[t] : t \in told}, "hup")
        /\ bound' = [t \in Tokens |-> IF t \in told THEN 0 ELSE file[t]]
    BY DEF Start
  <1>3. ASSUME NEW w \in Windows
        PROVE  /\ ws[w] \in AttachWindow /\ ws[w].of = wins[w].of
               /\ ws[w].st = IF wins[w].st \notin Owing THEN wins[w].st
                             ELSE IF wins[w].st = "refused" THEN "held" ELSE "done"
    BY <1>1, <1>3 DEF AttachWindow, Owing
  <1>4. ws \in [1..Len(wins) -> AttachWindow]
    BY <1>3 DEF Windows
  <1>5. ws \in Seq(AttachWindow) /\ Len(ws) = Len(wins)
    BY <1>1, <1>4, SeqDef
  <1>6. told \subseteq Tokens
    BY <1>1 DEF AttachWindow
  <1>. HIDE DEF ws
  <1>7. /\ wins' \in Seq(AttachWindow) /\ Len(wins') = Len(wins)
        /\ \A w \in 1..Len(wins) :
              /\ wins'[w].of = ws[w].of
              /\ wins'[w].st =
                    IF w \in {file[t] : t \in told} /\ ws[w].st = "live"
                    THEN IF Reports THEN "hup" ELSE "done" ELSE ws[w].st
    BY <1>1, <1>2, <1>5, EndFacts
  <1>8. ASSUME NEW w \in Windows, wins'[w].st = "hup"
        PROVE  \E t \in Tokens : file[t] = w /\ bound'[t] = 0
    <2>1. w \in {file[t] : t \in told}
      BY <1>3, <1>7, <1>8 DEF Windows, Owing
    <2>2. PICK t \in told : file[t] = w
      BY <2>1
    <2>. QED
      BY <2>2, <1>2, <1>6
  <1>9. Later
    BY <1>1, <1>3, <1>7 DEF Later, Windows, Shown, Owing
  <1>. QED
    BY <1>1, <1>7, <1>8, <1>9 DEF Windows
-----------------------------------------------------------------------------
(* The types.                                                               *)

\* A report finds nothing to answer, or retires what it answers.
LEMMA ReportCases ==
    ASSUME NEW w \in Windows, ApplyReport(w), NEW t, t = wins[w].of
    PROVE  \/ Answers(t) = 0 /\ UNCHANGED <<bindVars, presumed, dirty, closes, shot, file>>
           \/ /\ Answers(t) # 0 /\ shot' = Stale /\ file' = Saved(rows, bound')
              /\ bound' = [bound EXCEPT ![t] = 0] /\ UNCHANGED expected
              /\ pruned' = IF bound[t] # 0 THEN pruned ELSE [pruned EXCEPT ![t] = 0]
              /\ \/ UNCHANGED <<closes, presumed, dirty>>
                 \/ /\ wins[w].st = "hup" /\ t \in rows /\ closes' = closes \cup {t}
                    /\ presumed' = presumed \cup {t} /\ dirty' = TRUE
  <1>1. CASE Answers(t) = 0
    BY <1>1 DEF ApplyReport
  <1>2. CASE Answers(t) # 0
    BY <1>2 DEF ApplyReport, PruneToken
  <1>. QED
    BY <1>1, <1>2

LEMMA PartsStay ==
    /\ HostTypes /\ UNCHANGED <<hostVars, lifeVars>> => HostTypes'
    /\ RowTypes /\ UNCHANGED rowVars => RowTypes'
    /\ BindTypes /\ UNCHANGED <<bindVars, file>> => BindTypes'
    /\ OpTypes /\ UNCHANGED <<opVars, closes>> => OpTypes'
    /\ WinTypes /\ UNCHANGED wins => WinTypes'
    /\ GhostTypes /\ UNCHANGED ghostVars => GhostTypes'
  <1>1. HostTypes /\ UNCHANGED <<hostVars, lifeVars>> => HostTypes'
    BY DEF HostTypes, hostVars, lifeVars
  <1>2. RowTypes /\ UNCHANGED rowVars => RowTypes'
    BY DEF RowTypes, rowVars
  <1>3. BindTypes /\ UNCHANGED <<bindVars, file>> => BindTypes'
    BY DEF BindTypes, bindVars
  <1>4. OpTypes /\ UNCHANGED <<opVars, closes>> => OpTypes'
    BY DEF OpTypes, opVars
  <1>5. WinTypes /\ UNCHANGED wins => WinTypes'
    BY DEF WinTypes
  <1>6. GhostTypes /\ UNCHANGED ghostVars => GhostTypes'
    BY DEF GhostTypes, ghostVars
  <1>. QED
    BY <1>1, <1>2, <1>3, <1>4, <1>5, <1>6

LEMMA WindowFacts ==
    ASSUME WindowBindingsTypeOK
    PROVE  /\ \A w \in Windows : wins[w] \in AttachWindow /\ wins[w].of \in Tokens
           /\ Windows \subseteq 1..MaxWins /\ Shown \subseteq 1..MaxWins
  <1>1. wins \in Seq(AttachWindow) /\ Len(wins) \in Nat /\ Len(wins) <= MaxWins
    BY DEF WindowBindingsTypeOK, WinTypes
  <1>2. \A w \in 1..Len(wins) : wins[w] \in AttachWindow
    BY <1>1
  <1>3. Windows \subseteq 1..MaxWins
    BY <1>1, WindowBindingsAssumption DEF Windows
  <1>. QED
    BY <1>2, <1>3 DEF Windows, Shown, AttachWindow

\* A snapshot that is marked stale is a snapshot.
LEMMA StaleIsShot ==
    ASSUME OpTypes, shot' = Stale
    PROVE  shot' = Nil \/ shot' \in [live : SUBSET (1..MaxWins), stale : BOOLEAN]
  BY DEF OpTypes, Stale

\* What is saved, and what a prune leaves, are bindings.
LEMMA BindingsFacts ==
    /\ Unbound \in Remembered
    /\ \A r : \A b \in Remembered : Saved(r, b) \in Remembered
  BY WindowBindingsAssumption DEF Saved, Unbound, Remembered

LEMMA PruneTypes ==
    ASSUME BindTypes, NEW kept, PruneDead(kept)
    PROVE  BindTypes'
  <1>1. bound' \in Remembered /\ pruned' \in Remembered
    BY WindowBindingsAssumption DEF BindTypes, PruneDead, Remembered
  <1>2. file' \in Remembered
    BY <1>1, BindingsFacts DEF BindTypes, PruneDead
  <1>. QED
    BY <1>1, <1>2 DEF BindTypes, PruneDead

LEMMA BindingsTypes ==
    ASSUME WindowBindingsTypeOK, Forgotten, Counted, [BindingsNext]_bindingVars
    PROVE  Later /\ WindowBindingsTypeOK'
  <1>1. ASSUME Connected
        PROVE  Later /\ WindowBindingsTypeOK'
    <2>1. Later
      BY <1>1, SameIsLater DEF Connected
    <2>2. HostTypes'
      BY <1>1, WindowBindingsAssumption
         DEF WindowBindingsTypeOK, HostTypes, Connected, Counted, lifeVars
    <2>3. RowTypes'
      BY <1>1 DEF WindowBindingsTypeOK, RowTypes, Connected
    <2>4. WinTypes'
      BY <2>1 DEF Later, WinTypes
    <2>. QED
      BY <1>1, <2>1, <2>2, <2>3, <2>4, PartsStay DEF WindowBindingsTypeOK, Connected
  <1>2. ASSUME SnapshotArrives
        PROVE  Later /\ WindowBindingsTypeOK'
    <2>1. Later
      BY <1>2, SameIsLater DEF SnapshotArrives
    <2>2. HostTypes'
      BY <1>2 DEF WindowBindingsTypeOK, HostTypes, SnapshotArrives, lifeVars
    <2>3. RowTypes'
      BY <1>2 DEF WindowBindingsTypeOK, RowTypes, SnapshotArrives
    <2>4. WinTypes'
      BY <2>1 DEF Later, WinTypes
    <2>. QED
      BY <1>2, <2>1, <2>2, <2>3, <2>4, PartsStay DEF WindowBindingsTypeOK, SnapshotArrives
  <1>3. ASSUME NEW W \in SUBSET Windows, LinkDrops(W)
        PROVE  Later /\ WindowBindingsTypeOK'
    <2>1. Later
      BY <1>3, EndIsLater DEF LinkDrops
    <2>2. HostTypes'
      BY <1>3, WindowBindingsAssumption
         DEF WindowBindingsTypeOK, HostTypes, LinkDrops, lifeVars
    <2>3. RowTypes'
      BY <1>3 DEF WindowBindingsTypeOK, HostTypes, RowTypes, LinkDrops
    <2>4. GhostTypes'
      BY <1>3 DEF WindowBindingsTypeOK, BindTypes, GhostTypes, LinkDrops
    <2>5. WinTypes'
      BY <2>1 DEF Later, WinTypes
    <2>. QED
      BY <1>3, <2>1, <2>2, <2>3, <2>4, <2>5, PartsStay DEF WindowBindingsTypeOK, LinkDrops
  <1>4. ASSUME NEW t \in Tokens, SessionEnds(t)
        PROVE  Later /\ WindowBindingsTypeOK'
    <2>1. Later
      BY <1>4, EndIsLater DEF SessionEnds
    <2>2. HostTypes'
      BY <1>4 DEF WindowBindingsTypeOK, HostTypes, SessionEnds, lifeVars
    <2>3. RowTypes'
      BY <1>4 DEF WindowBindingsTypeOK, HostTypes, RowTypes, SessionEnds
    <2>4. GhostTypes'
      BY <1>4 DEF WindowBindingsTypeOK, GhostTypes, SessionEnds
    <2>5. WinTypes'
      BY <2>1 DEF Later, WinTypes
    <2>. QED
      BY <1>4, <2>1, <2>2, <2>3, <2>4, <2>5, PartsStay DEF WindowBindingsTypeOK, SessionEnds
  <1>5. ASSUME Reload
        PROVE  Later /\ WindowBindingsTypeOK'
    <2>1. Later
      BY <1>5, EndIsLater DEF Reload
    <2>2. RowTypes'
      BY <1>5 DEF WindowBindingsTypeOK, HostTypes, RowTypes, Reload, Mirror
    <2>3. BindTypes'
      BY <1>5, WindowBindingsAssumption, BindingsFacts
         DEF WindowBindingsTypeOK, BindTypes, Reload, Remembered
    <2>4. OpTypes'
      BY <1>5, StaleIsShot, WindowBindingsAssumption
         DEF WindowBindingsTypeOK, BindTypes, OpTypes, Reload, SweepTargets
    <2>5. WinTypes'
      BY <2>1 DEF Later, WinTypes
    <2>. QED
      BY <1>5, <2>1, <2>2, <2>3, <2>4, <2>5, PartsStay DEF WindowBindingsTypeOK, Reload
  <1>6. ASSUME NEW t \in Tokens, Enter(t)
        PROVE  Later /\ WindowBindingsTypeOK'
    <2>1. Later
      BY <1>6, SameIsLater DEF Enter
    <2>2. OpTypes'
      BY <1>6, WindowBindingsAssumption DEF WindowBindingsTypeOK, OpTypes, Enter
    <2>3. GhostTypes'
      BY <1>6 DEF WindowBindingsTypeOK, GhostTypes, Enter
    <2>4. WinTypes'
      BY <2>1 DEF Later, WinTypes
    <2>. QED
      BY <1>6, <2>1, <2>2, <2>3, <2>4, PartsStay DEF WindowBindingsTypeOK, Enter
  <1>7. ASSUME NEW t \in Tokens, Opens(t)
        PROVE  Later /\ WindowBindingsTypeOK'
    <2>1. Later
      BY <1>7, OpensIsLater
    <2>2. OpTypes'
      BY <1>7, OpensIsLater, WindowBindingsAssumption
         DEF WindowBindingsTypeOK, OpTypes, WinTypes, Opens
    <2>3. WinTypes'
      BY <2>1 DEF Later, WinTypes
    <2>. QED
      BY <1>7, <2>1, <2>2, <2>3, PartsStay DEF WindowBindingsTypeOK, Opens
  <1>8. ASSUME NEW t \in Tokens, Bound(t)
        PROVE  Later /\ WindowBindingsTypeOK'
    <2>1. Later
      BY <1>8, SameIsLater DEF Bound
    <2>2. BindTypes'
      <3>1. opening[t] \in 0..MaxWins
        BY <1>8, WindowFacts, WindowBindingsAssumption DEF Bound
      <3>2. /\ bound' = [bound EXCEPT ![t] = opening[t]] /\ pruned' = [pruned EXCEPT ![t] = 0]
            /\ expected' = expected \cup {t} /\ file' = Saved(rows, bound')
        BY <1>8 DEF Bound, Record
      <3>3. bound' \in Remembered /\ pruned' \in Remembered
        BY <3>1, <3>2, WindowBindingsAssumption
           DEF WindowBindingsTypeOK, BindTypes, Remembered
      <3>. QED
        BY <3>2, <3>3, BindingsFacts DEF WindowBindingsTypeOK, BindTypes
    <2>3. OpTypes'
      BY <1>8, StaleIsShot DEF WindowBindingsTypeOK, OpTypes, Bound
    <2>4. GhostTypes'
      BY <1>8 DEF WindowBindingsTypeOK, GhostTypes, Bound
    <2>5. WinTypes'
      BY <2>1 DEF Later, WinTypes
    <2>. QED
      BY <1>8, <2>1, <2>2, <2>3, <2>4, <2>5, PartsStay DEF WindowBindingsTypeOK, Bound
  <1>9. ASSUME NEW w \in Windows, UserCloses(w)
        PROVE  Later /\ WindowBindingsTypeOK'
    <2>1. Later
      BY <1>9, EndIsLater DEF UserCloses
    <2>2. GhostTypes'
      BY <1>9, WindowFacts DEF WindowBindingsTypeOK, GhostTypes, UserCloses
    <2>3. WinTypes'
      BY <2>1 DEF Later, WinTypes
    <2>. QED
      BY <1>9, <2>1, <2>2, <2>3, PartsStay DEF WindowBindingsTypeOK, UserCloses
  <1>10. ASSUME NEW w \in Windows, AttachReturns(w)
        PROVE  Later /\ WindowBindingsTypeOK'
    <2>1. Later
      BY <1>10, EndIsLater DEF AttachReturns
    <2>2. WinTypes'
      BY <2>1 DEF Later, WinTypes
    <2>. QED
      BY <1>10, <2>1, <2>2, PartsStay DEF WindowBindingsTypeOK, AttachReturns
  <1>11. ASSUME NEW t \in Tokens, Detach(t)
        PROVE  Later /\ WindowBindingsTypeOK'
    <2>1. Later
      BY <1>11, EndIsLater DEF Detach
    <2>2. RowTypes'
      BY <1>11 DEF WindowBindingsTypeOK, RowTypes, Detach
    <2>3. BindTypes'
      BY <1>11, WindowBindingsAssumption
         DEF WindowBindingsTypeOK, BindTypes, Detach, Remove, Remembered
    <2>4. OpTypes'
      BY <1>11, StaleIsShot DEF WindowBindingsTypeOK, OpTypes, Detach
    <2>5. GhostTypes'
      BY <1>11 DEF WindowBindingsTypeOK, GhostTypes, Detach
    <2>6. WinTypes'
      BY <2>1 DEF Later, WinTypes
    <2>. QED
      BY <1>11, <2>1, <2>2, <2>3, <2>4, <2>5, <2>6, PartsStay
         DEF WindowBindingsTypeOK, Detach
  <1>12. ASSUME NEW w \in Windows, ApplyReport(w)
        PROVE  Later /\ WindowBindingsTypeOK'
    <2>1. Later
      BY <1>12, ApplyReportIsLater
    <2>2. wins[w].of \in Tokens
      BY <1>12, WindowFacts
    <2>3. RowTypes'
      <3>1. /\ presumed' \in {presumed, presumed \cup {wins[w].of}}
            /\ dirty' = dirty \/ dirty' = TRUE
            /\ UNCHANGED <<rows, seen>>
        BY <1>12 DEF ApplyReport
      <3>. QED
        BY <2>2, <3>1 DEF WindowBindingsTypeOK, RowTypes
    <2>4. BindTypes'
      <3>1. CASE UNCHANGED <<bindVars, file>>
        BY <3>1, PartsStay DEF WindowBindingsTypeOK
      <3>2. CASE /\ bound' = [bound EXCEPT ![wins[w].of] = 0] /\ UNCHANGED expected
                 /\ file' = Saved(rows, bound')
                 /\ pruned' = IF bound[wins[w].of] # 0
                              THEN pruned ELSE [pruned EXCEPT ![wins[w].of] = 0]
        <4>1. bound' \in Remembered /\ pruned' \in Remembered
          BY <2>2, <3>2, WindowBindingsAssumption
             DEF WindowBindingsTypeOK, BindTypes, Remembered
        <4>. QED
          BY <3>2, <4>1, BindingsFacts DEF WindowBindingsTypeOK, BindTypes
      <3>. QED
        BY <1>12, <3>1, <3>2, ReportCases
    <2>5. OpTypes'
      BY <1>12, <2>2, StaleIsShot DEF WindowBindingsTypeOK, OpTypes, ApplyReport
    <2>6. GhostTypes'
      BY <1>12 DEF WindowBindingsTypeOK, GhostTypes, ApplyReport
    <2>7. WinTypes'
      BY <2>1 DEF Later, WinTypes
    <2>. QED
      BY <1>12, <2>1, <2>2, <2>3, <2>4, <2>5, <2>6, <2>7, PartsStay
         DEF WindowBindingsTypeOK, ApplyReport
  <1>13. ASSUME NEW t \in Tokens, CloseDue(t)
        PROVE  Later /\ WindowBindingsTypeOK'
    <2>1. Later
      BY <1>13, SameIsLater, EndIsLater DEF CloseDue
    <2>2. HostTypes'
      BY <1>13 DEF WindowBindingsTypeOK, HostTypes, CloseDue, lifeVars
    <2>3. RowTypes'
      BY <1>13 DEF WindowBindingsTypeOK, RowTypes, CloseDue
    <2>4. OpTypes'
      BY <1>13 DEF WindowBindingsTypeOK, OpTypes, CloseDue, opVars
    <2>5. GhostTypes'
      BY <1>13 DEF WindowBindingsTypeOK, GhostTypes, CloseDue
    <2>6. WinTypes'
      BY <2>1 DEF Later, WinTypes
    <2>. QED
      BY <1>13, <2>1, <2>2, <2>3, <2>4, <2>5, <2>6, PartsStay
         DEF WindowBindingsTypeOK, CloseDue
  <1>14. ASSUME TakeShot
        PROVE  Later /\ WindowBindingsTypeOK'
    <2>1. Later
      BY <1>14, SameIsLater DEF TakeShot
    <2>2. OpTypes'
      BY <1>14, WindowFacts DEF WindowBindingsTypeOK, OpTypes, TakeShot
    <2>3. WinTypes'
      BY <2>1 DEF Later, WinTypes
    <2>. QED
      BY <1>14, <2>1, <2>2, <2>3, PartsStay DEF WindowBindingsTypeOK, TakeShot
  <1>15. ASSUME ApplyShot
        PROVE  Later /\ WindowBindingsTypeOK'
    <2>1. Later
      BY <1>15, SameIsLater DEF ApplyShot
    <2>2. BindTypes'
      BY <1>15, PruneTypes, PartsStay DEF WindowBindingsTypeOK, ApplyShot
    <2>3. OpTypes'
      BY <1>15 DEF WindowBindingsTypeOK, OpTypes, ApplyShot
    <2>4. WinTypes'
      BY <2>1 DEF Later, WinTypes
    <2>. QED
      BY <1>15, <2>1, <2>2, <2>3, <2>4, PartsStay DEF WindowBindingsTypeOK, ApplyShot
  <1>16. ASSUME ApplyRefocus
        PROVE  Later /\ WindowBindingsTypeOK'
    <2>1. Later
      BY <1>16, SameIsLater DEF ApplyRefocus
    <2>2. BindTypes'
      BY <1>16, PruneTypes DEF WindowBindingsTypeOK, ApplyRefocus
    <2>3. OpTypes'
      BY <1>16, StaleIsShot DEF WindowBindingsTypeOK, OpTypes, ApplyRefocus
    <2>4. WinTypes'
      BY <2>1 DEF Later, WinTypes
    <2>. QED
      BY <1>16, <2>1, <2>2, <2>3, <2>4, PartsStay DEF WindowBindingsTypeOK, ApplyRefocus
  <1>17. ASSUME NEW t \in Tokens, FocusFails(t)
        PROVE  Later /\ WindowBindingsTypeOK'
    <2>1. Later
      BY <1>17, SameIsLater DEF FocusFails
    <2>2. OpTypes'
      BY <1>17, WindowFacts DEF WindowBindingsTypeOK, OpTypes, FocusFails
    <2>3. WinTypes'
      BY <2>1 DEF Later, WinTypes
    <2>. QED
      BY <1>17, <2>1, <2>2, <2>3, PartsStay DEF WindowBindingsTypeOK, FocusFails
  <1>18. ASSUME NEW t \in Tokens, GraceEnds(t)
        PROVE  Later /\ WindowBindingsTypeOK'
    <2>1. Later
      BY <1>18, SameIsLater DEF GraceEnds
    <2>2. BindTypes'
      BY <1>18, WindowBindingsAssumption
         DEF WindowBindingsTypeOK, BindTypes, GraceEnds, Remembered
    <2>3. WinTypes'
      BY <2>1 DEF Later, WinTypes
    <2>. QED
      BY <1>18, <2>1, <2>2, <2>3, PartsStay DEF WindowBindingsTypeOK, GraceEnds
  <1>19. ASSUME NEW b \in BOOLEAN, Quit(b)
        PROVE  Later /\ WindowBindingsTypeOK'
    <2>1. Later
      BY <1>19, SameIsLater, EndIsLater DEF Quit
    <2>2. HostTypes'
      BY <1>19 DEF WindowBindingsTypeOK, HostTypes, Quit
    <2>3. RowTypes'
      <3>1. rows' = {} /\ presumed' = {} /\ dirty' = FALSE /\ seen' = 0
        BY <1>19 DEF Quit
      <3>. QED
        <4>1. dirty' \in BOOLEAN
          BY <3>1, Zenon
        <4>. QED
          BY <3>1, <4>1, WindowBindingsAssumption DEF RowTypes
    <2>4. BindTypes'
      BY <1>19, BindingsFacts DEF WindowBindingsTypeOK, BindTypes, Quit
    <2>5. OpTypes'
      BY <1>19 DEF WindowBindingsTypeOK, OpTypes, Quit
    <2>6. GhostTypes'
      BY <1>19 DEF WindowBindingsTypeOK, BindTypes, GhostTypes, Quit
    <2>7. WinTypes'
      BY <2>1 DEF Later, WinTypes
    <2>. QED
      BY <1>19, <2>1, <2>2, <2>3, <2>4, <2>5, <2>6, <2>7, PartsStay
         DEF WindowBindingsTypeOK, Quit
  <1>20. ASSUME Start
        PROVE  Later /\ WindowBindingsTypeOK'
    <2>1. Later
      BY <1>20, StartIsLater
    <2>2. HostTypes'
      <3>1. /\ up' = TRUE /\ epoch' = 0 /\ drops' = 0 /\ UNCHANGED <<hosted, conn>>
            /\ starts' = starts + 1 /\ starts < MaxStarts
        BY <1>20 DEF Start, Forgotten
      <3>. QED
        BY <3>1, WindowBindingsAssumption DEF WindowBindingsTypeOK, HostTypes
    <2>3. RowTypes'
      BY <1>20, WindowBindingsAssumption
         DEF WindowBindingsTypeOK, HostTypes, RowTypes, Start, Mirror
    <2>4. BindTypes'
      BY <1>20, WindowBindingsAssumption, BindingsFacts
         DEF WindowBindingsTypeOK, BindTypes, Start, Remembered
    <2>5. WinTypes'
      BY <2>1 DEF Later, WinTypes
    <2>. QED
      BY <1>20, <2>1, <2>2, <2>3, <2>4, <2>5, PartsStay DEF WindowBindingsTypeOK, Start
  <1>21. CASE UNCHANGED bindingVars
    BY <1>21, SameIsLater, PartsStay DEF WindowBindingsTypeOK, bindingVars
  <1>. QED
    BY <1>1, <1>2, <1>3, <1>4, <1>5, <1>6, <1>7, <1>8, <1>9, <1>10, <1>11, <1>12, <1>13,
       <1>14, <1>15, <1>16, <1>17, <1>18, <1>19, <1>20, <1>21
       DEF BindingsNext
-----------------------------------------------------------------------------
(* Each part of the invariant is kept.                                      *)

LEMMA CountedStep ==
    ASSUME WindowBindingsTypeOK, Counted, [BindingsNext]_bindingVars
    PROVE  Counted'
  <1>1. ASSUME UNCHANGED <<epoch, drops, conn, up>> PROVE Counted'
    BY <1>1 DEF Counted
  <1>2. ASSUME Connected PROVE Counted'
    BY <1>2 DEF WindowBindingsTypeOK, HostTypes, Counted, Connected, lifeVars
  <1>3. ASSUME SnapshotArrives PROVE Counted'
    BY <1>3 DEF Counted, SnapshotArrives, lifeVars
  <1>4. ASSUME NEW W \in SUBSET Windows, LinkDrops(W) PROVE Counted'
    BY <1>4 DEF WindowBindingsTypeOK, HostTypes, Counted, LinkDrops, lifeVars
  <1>5. ASSUME NEW t \in Tokens, SessionEnds(t) PROVE Counted'
    BY <1>5, <1>1 DEF SessionEnds, lifeVars
  <1>6. ASSUME Reload PROVE Counted'
    BY <1>6, <1>1 DEF Reload, hostVars, lifeVars
  <1>7. ASSUME NEW t \in Tokens, Enter(t) PROVE Counted'
    BY <1>7, <1>1 DEF Enter, hostVars, lifeVars
  <1>8. ASSUME NEW t \in Tokens, Opens(t) PROVE Counted'
    BY <1>8, <1>1 DEF Opens, hostVars, lifeVars
  <1>9. ASSUME NEW t \in Tokens, Bound(t) PROVE Counted'
    BY <1>9, <1>1 DEF Bound, hostVars, lifeVars
  <1>10. ASSUME NEW w \in Windows, UserCloses(w) PROVE Counted'
    BY <1>10, <1>1 DEF UserCloses, hostVars, lifeVars
  <1>11. ASSUME NEW w \in Windows, AttachReturns(w) PROVE Counted'
    BY <1>11, <1>1 DEF AttachReturns, hostVars, lifeVars
  <1>12. ASSUME NEW t \in Tokens, Detach(t) PROVE Counted'
    BY <1>12, <1>1 DEF Detach, hostVars, lifeVars
  <1>13. ASSUME NEW w \in Windows, ApplyReport(w) PROVE Counted'
    BY <1>13, <1>1 DEF ApplyReport, hostVars, lifeVars
  <1>14. ASSUME NEW t \in Tokens, CloseDue(t) PROVE Counted'
    BY <1>14, <1>1 DEF CloseDue, lifeVars
  <1>15. ASSUME TakeShot PROVE Counted'
    BY <1>15, <1>1 DEF TakeShot, hostVars, lifeVars
  <1>16. ASSUME ApplyShot PROVE Counted'
    BY <1>16, <1>1 DEF ApplyShot, hostVars, lifeVars
  <1>17. ASSUME ApplyRefocus PROVE Counted'
    BY <1>17, <1>1 DEF ApplyRefocus, hostVars, lifeVars
  <1>18. ASSUME NEW t \in Tokens, FocusFails(t) PROVE Counted'
    BY <1>18, <1>1 DEF FocusFails, hostVars, lifeVars
  <1>19. ASSUME NEW t \in Tokens, GraceEnds(t) PROVE Counted'
    BY <1>19, <1>1 DEF GraceEnds, hostVars, lifeVars
  <1>20. ASSUME NEW b \in BOOLEAN, Quit(b) PROVE Counted'
    BY <1>20 DEF Counted, Quit
  <1>21. ASSUME Start PROVE Counted'
    BY <1>21 DEF Counted, Start
  <1>22. ASSUME UNCHANGED bindingVars PROVE Counted'
    BY <1>22, <1>1 DEF Counted, bindingVars, hostVars, lifeVars
  <1>. QED
    BY <1>2, <1>3, <1>4, <1>5, <1>6, <1>7, <1>8, <1>9, <1>10, <1>11, <1>12, <1>13, <1>14,
       <1>15, <1>16, <1>17, <1>18, <1>19, <1>20, <1>21, <1>22
       DEF BindingsNext

LEMMA ForgottenStep ==
    ASSUME WindowBindingsTypeOK, Own, Forgotten, [BindingsNext]_bindingVars
    PROVE  Forgotten'
  <1>1. ASSUME UNCHANGED <<up, conn, rows, presumed, expected, swept, bound, pruned,
                           opening, shot, refocus, closes, detached, starts>>
        PROVE  Forgotten'
    BY <1>1 DEF Forgotten
  <1>2. ASSUME Connected PROVE Forgotten'
    BY <1>2 DEF Forgotten, Connected, lifeVars, bindVars, opVars, ghostVars
  <1>3. ASSUME SnapshotArrives PROVE Forgotten'
    BY <1>3 DEF Forgotten, SnapshotArrives, lifeVars, bindVars, opVars, ghostVars
  <1>4. ASSUME NEW W \in SUBSET Windows, LinkDrops(W) PROVE Forgotten'
    BY <1>4 DEF Forgotten, LinkDrops, lifeVars, bindVars, opVars
  <1>5. ASSUME NEW t \in Tokens, SessionEnds(t) PROVE Forgotten'
    BY <1>5 DEF Forgotten, SessionEnds, lifeVars, bindVars, opVars
  <1>6. ASSUME Reload PROVE Forgotten'
    BY <1>6 DEF Forgotten, Reload, SweepTargets, Saved, hostVars, lifeVars, ghostVars
  <1>7. ASSUME NEW t \in Tokens, Enter(t) PROVE Forgotten'
    BY <1>7 DEF Forgotten, Enter, hostVars, lifeVars, rowVars, bindVars
  <1>8. ASSUME NEW t \in Tokens, Opens(t) PROVE Forgotten'
    <2>1. opening # [x \in Tokens |-> Nil]
      BY <1>8, WindowBindingsAssumption DEF Opens
    <2>. QED
      BY <1>8, <2>1 DEF Forgotten, Opens, lifeVars
  <1>9. ASSUME NEW t \in Tokens, Bound(t) PROVE Forgotten'
    BY <1>9 DEF Forgotten, Bound, Record, Saved, hostVars, lifeVars, rowVars
  <1>10. ASSUME NEW w \in Windows, UserCloses(w) PROVE Forgotten'
    BY <1>10 DEF Forgotten, UserCloses, hostVars, lifeVars, rowVars, bindVars, opVars
  <1>11. ASSUME NEW w \in Windows, AttachReturns(w) PROVE Forgotten'
    BY <1>11, <1>1
       DEF AttachReturns, hostVars, lifeVars, rowVars, bindVars, opVars, ghostVars
  <1>12. ASSUME NEW t \in Tokens, Detach(t) PROVE Forgotten'
    BY <1>12 DEF Forgotten, Detach, Remove, hostVars, lifeVars
  <1>13. ASSUME NEW w \in Windows, ApplyReport(w) PROVE Forgotten'
    BY <1>13 DEF Forgotten, ApplyReport, hostVars, lifeVars, bindVars
  <1>14. ASSUME NEW t \in Tokens, CloseDue(t) PROVE Forgotten'
    BY <1>14 DEF Forgotten, CloseDue, lifeVars, bindVars, opVars
  <1>15. ASSUME TakeShot PROVE Forgotten'
    BY <1>15 DEF Forgotten, TakeShot, hostVars, lifeVars, rowVars, bindVars, ghostVars
  <1>16. ASSUME ApplyShot PROVE Forgotten'
    BY <1>16
       DEF Forgotten, ApplyShot, PruneDead, Saved, hostVars, lifeVars, rowVars, bindVars,
           ghostVars
  <1>17. ASSUME ApplyRefocus PROVE Forgotten'
    BY <1>17
       DEF Forgotten, ApplyRefocus, PruneDead, Saved, hostVars, lifeVars, rowVars,
           ghostVars
  <1>18. ASSUME NEW t \in Tokens, FocusFails(t) PROVE Forgotten'
    BY <1>18 DEF Forgotten, FocusFails, hostVars, lifeVars, rowVars, bindVars, ghostVars
  <1>19. ASSUME NEW t \in Tokens, GraceEnds(t) PROVE Forgotten'
    <2>1. pruned # Unbound
      BY <1>19 DEF GraceEnds, Unbound
    <2>. QED
      BY <1>19, <2>1 DEF Forgotten, GraceEnds, lifeVars
  <1>20. ASSUME NEW b \in BOOLEAN, Quit(b) PROVE Forgotten'
    BY <1>20 DEF Forgotten, Quit
  <1>21. ASSUME Start PROVE Forgotten'
    BY <1>21 DEF Forgotten, Start
  <1>22. ASSUME UNCHANGED bindingVars PROVE Forgotten'
    BY <1>22, <1>1
       DEF Forgotten, bindingVars, hostVars, lifeVars, rowVars, bindVars, opVars,
           ghostVars
  <1>. QED
    BY <1>2, <1>3, <1>4, <1>5, <1>6, <1>7, <1>8, <1>9, <1>10, <1>11, <1>12, <1>13, <1>14,
       <1>15, <1>16, <1>17, <1>18, <1>19, <1>20, <1>21, <1>22
       DEF BindingsNext

\* Where what is remembered of a window comes from.
Traced ==
    \A t \in Tokens :
        /\ bound'[t] \in {0, bound[t], file[t]} \/ (opening[t] # Nil /\ bound'[t] = opening[t])
        /\ pruned'[t] \in {0, pruned[t], bound[t]}
        /\ file'[t] \in {0, file[t], bound'[t]}
        /\ opening'[t] \in {Nil, 0, opening[t], Len(wins')}
        /\ opening'[t] \notin {Nil, 0, opening[t]} =>
              Len(wins') \in Windows' /\ wins'[Len(wins')].of = t

LEMMA TracedStep ==
    ASSUME WindowBindingsTypeOK, [BindingsNext]_bindingVars
    PROVE  Traced
  <1>1. ASSUME UNCHANGED <<bound, pruned, file, opening>> PROVE Traced
    BY <1>1 DEF Traced
  <1>2. ASSUME Connected PROVE Traced
    BY <1>2, <1>1 DEF Connected, bindVars, opVars
  <1>3. ASSUME SnapshotArrives PROVE Traced
    BY <1>3, <1>1 DEF SnapshotArrives, bindVars, opVars
  <1>4. ASSUME NEW W \in SUBSET Windows, LinkDrops(W) PROVE Traced
    BY <1>4, <1>1 DEF LinkDrops, bindVars, opVars
  <1>5. ASSUME NEW t \in Tokens, SessionEnds(t) PROVE Traced
    BY <1>5, <1>1 DEF SessionEnds, bindVars, opVars
  <1>6. ASSUME Reload PROVE Traced
    <2>1. /\ bound' = [s \in Tokens |-> IF s \in Departed THEN 0 ELSE bound[s]]
          /\ pruned' = [s \in Tokens |-> IF s \in Departed THEN 0 ELSE pruned[s]]
          /\ file' = Saved(Mirror, bound')
          /\ \A s \in Tokens : opening'[s] \in {0, opening[s]}
      BY <1>6 DEF Reload
    <2>. QED
      BY <2>1 DEF Traced, Saved
  <1>7. ASSUME NEW t \in Tokens, Enter(t) PROVE Traced
    BY <1>7 DEF WindowBindingsTypeOK, OpTypes, Traced, Enter, bindVars
  <1>8. ASSUME NEW t \in Tokens, Opens(t) PROVE Traced
    <2>1. UNCHANGED <<bound, pruned, file>> /\ opening' = [opening EXCEPT ![t] = Len(wins')]
      BY <1>8 DEF Opens, bindVars
    <2>. QED
      BY <1>8, <2>1, OpensIsLater DEF WindowBindingsTypeOK, OpTypes, Traced
  <1>9. ASSUME NEW t \in Tokens, Bound(t) PROVE Traced
    <2>1. /\ bound' = [bound EXCEPT ![t] = opening[t]] /\ pruned' = [pruned EXCEPT ![t] = 0]
          /\ file' = Saved(rows, bound') /\ opening' = [opening EXCEPT ![t] = Nil]
          /\ opening[t] \in Nat
      BY <1>9 DEF Bound, Record, Windows
    <2>. QED
      BY <2>1, WindowBindingsAssumption
         DEF WindowBindingsTypeOK, BindTypes, OpTypes, Remembered, Traced, Saved
  <1>10. ASSUME NEW w \in Windows, UserCloses(w) PROVE Traced
    BY <1>10, <1>1 DEF UserCloses, bindVars, opVars
  <1>11. ASSUME NEW w \in Windows, AttachReturns(w) PROVE Traced
    BY <1>11, <1>1 DEF AttachReturns, bindVars, opVars
  <1>12. ASSUME NEW t \in Tokens, Detach(t) PROVE Traced
    BY <1>12 DEF WindowBindingsTypeOK, BindTypes, Remembered, Traced, Detach, Remove
  <1>13. ASSUME NEW w \in Windows, ApplyReport(w) PROVE Traced
    <2>1. wins[w].of \in Tokens /\ UNCHANGED opening
      BY <1>13, WindowFacts DEF ApplyReport
    <2>2. CASE UNCHANGED <<bindVars, file>>
      BY <2>1, <2>2 DEF Traced, bindVars
    <2>3. CASE /\ bound' = [bound EXCEPT ![wins[w].of] = 0] /\ file' = Saved(rows, bound')
               /\ pruned' = IF bound[wins[w].of] # 0
                            THEN pruned ELSE [pruned EXCEPT ![wins[w].of] = 0]
      BY <2>1, <2>3 DEF WindowBindingsTypeOK, BindTypes, Remembered, Traced, Saved
    <2>. QED
      BY <1>13, <2>2, <2>3, ReportCases
  <1>14. ASSUME NEW t \in Tokens, CloseDue(t) PROVE Traced
    BY <1>14, <1>1 DEF CloseDue, bindVars, opVars
  <1>15. ASSUME TakeShot PROVE Traced
    BY <1>15, <1>1 DEF TakeShot, bindVars
  <1>16. ASSUME ApplyShot PROVE Traced
    BY <1>16 DEF Traced, ApplyShot, PruneDead, Saved, bindVars
  <1>17. ASSUME ApplyRefocus PROVE Traced
    BY <1>17 DEF Traced, ApplyRefocus, PruneDead, Saved
  <1>18. ASSUME NEW t \in Tokens, FocusFails(t) PROVE Traced
    BY <1>18, <1>1 DEF FocusFails, bindVars
  <1>19. ASSUME NEW t \in Tokens, GraceEnds(t) PROVE Traced
    BY <1>19 DEF WindowBindingsTypeOK, BindTypes, Remembered, Traced, GraceEnds, opVars
  <1>20. ASSUME NEW b \in BOOLEAN, Quit(b) PROVE Traced
    BY <1>20 DEF Traced, Quit, Unbound
  <1>21. ASSUME Start PROVE Traced
    BY <1>21 DEF Traced, Start, Saved, opVars
  <1>22. ASSUME UNCHANGED bindingVars PROVE Traced
    BY <1>22, <1>1 DEF Traced, bindingVars, bindVars, opVars
  <1>. QED
    BY <1>2, <1>3, <1>4, <1>5, <1>6, <1>7, <1>8, <1>9, <1>10, <1>11, <1>12, <1>13, <1>14,
       <1>15, <1>16, <1>17, <1>18, <1>19, <1>20, <1>21, <1>22
       DEF BindingsNext

LEMMA OwnStep ==
    ASSUME Later, Traced, Own
    PROVE  Own'
  <1>1. ASSUME NEW w, NEW t \in Tokens, IsOf(w, t)
        PROVE  w = 0 \/ (w \in Windows' /\ wins'[w].of = t)
    BY <1>1 DEF IsOf, Later
  <1>2. ASSUME NEW t \in Tokens
        PROVE  /\ bound'[t] = 0 \/ (bound'[t] \in Windows' /\ wins'[bound'[t]].of = t)
               /\ pruned'[t] = 0 \/ (pruned'[t] \in Windows' /\ wins'[pruned'[t]].of = t)
               /\ file'[t] = 0 \/ (file'[t] \in Windows' /\ wins'[file'[t]].of = t)
               /\ \/ opening'[t] \in {Nil, 0}
                  \/ (opening'[t] \in Windows' /\ wins'[opening'[t]].of = t)
    <2>1. /\ IsOf(bound[t], t) /\ IsOf(pruned[t], t) /\ IsOf(file[t], t)
          /\ opening[t] # Nil => IsOf(opening[t], t)
      BY DEF Own
    <2>2. bound'[t] = 0 \/ (bound'[t] \in Windows' /\ wins'[bound'[t]].of = t)
      BY <1>1, <2>1 DEF Traced
    <2>3. pruned'[t] = 0 \/ (pruned'[t] \in Windows' /\ wins'[pruned'[t]].of = t)
      BY <1>1, <2>1 DEF Traced
    <2>4. file'[t] = 0 \/ (file'[t] \in Windows' /\ wins'[file'[t]].of = t)
      BY <1>1, <2>1, <2>2 DEF Traced
    <2>5. \/ opening'[t] \in {Nil, 0}
          \/ (opening'[t] \in Windows' /\ wins'[opening'[t]].of = t)
      BY <1>1, <2>1 DEF Traced
    <2>. QED
      BY <2>2, <2>3, <2>4, <2>5
  <1>. QED
    BY <1>2 DEF Own, IsOf

\* What the actions do to what is remembered of a session.
Keeps(s) ==
    /\ bound'[s] \in {0, bound[s]} /\ pruned'[s] \in {0, pruned[s]} /\ opening'[s] = opening[s]

LEMMA ReloadAt ==
    ASSUME WindowBindingsTypeOK, Reload, NEW s \in Tokens
    PROVE  /\ \/ s \notin Departed /\ bound'[s] = bound[s] /\ pruned'[s] = pruned[s]
              \/ s \in Departed /\ bound'[s] = 0 /\ pruned'[s] = 0
           /\ \/ opening'[s] = opening[s] /\ (s \in swept' => s \in swept)
              \/ opening[s] = Nil /\ opening'[s] = 0 /\ bound'[s] = 0 /\ s \in expected
  <1>. DEFINE b == [t \in Tokens |-> IF t \in Departed THEN 0 ELSE bound[t]]
              e == (expected \ Departed) \cap Mirror
              T == SweepTargets(b, e)
  <1>1. /\ bound' = b /\ opening' = [t \in Tokens |-> IF t \in T THEN 0 ELSE opening[t]]
        /\ pruned' = [t \in Tokens |-> IF t \in Departed THEN 0 ELSE pruned[t]]
        /\ swept' = swept \cup T
    BY DEF Reload
  <1>2. s \in T => opening[s] = Nil /\ b[s] = 0 /\ s \in expected
    BY DEF SweepTargets
  <1>. HIDE DEF T
  <1>3. CASE s \in T
    BY <1>1, <1>2, <1>3
  <1>4. CASE s \notin T
    BY <1>1, <1>4
  <1>. QED
    BY <1>3, <1>4

LEMMA EnterAt ==
    ASSUME WindowBindingsTypeOK, NEW t \in Tokens, Enter(t), NEW s \in Tokens
    PROVE  /\ bound'[s] = bound[s] /\ pruned'[s] = pruned[s]
           /\ opening'[s] = IF s = t THEN 0 ELSE opening[s]
  BY DEF Enter, bindVars, WindowBindingsTypeOK, OpTypes

LEMMA OpensAt ==
    ASSUME WindowBindingsTypeOK, NEW t \in Tokens, Opens(t), NEW s \in Tokens
    PROVE  /\ bound'[s] = bound[s] /\ pruned'[s] = pruned[s] /\ opening[t] = 0 /\ 0 # Nil
           /\ opening'[s] = IF s = t THEN Len(wins) + 1 ELSE opening[s]
  <1>1. /\ UNCHANGED bindVars /\ opening[t] = 0 /\ Len(wins') = Len(wins) + 1
        /\ opening' = [opening EXCEPT ![t] = Len(wins')]
    BY OpensIsLater DEF Opens
  <1>. QED
    BY <1>1, WindowBindingsAssumption DEF bindVars, WindowBindingsTypeOK, OpTypes

LEMMA BoundAt ==
    ASSUME WindowBindingsTypeOK, NEW t \in Tokens, Bound(t), NEW s \in Tokens
    PROVE  /\ bound'[s] = IF s = t THEN opening[t] ELSE bound[s]
           /\ pruned'[s] = IF s = t THEN 0 ELSE pruned[s]
           /\ opening'[s] = IF s = t THEN Nil ELSE opening[s]
           /\ opening[t] # Nil /\ opening[t] \in Windows
  <1>1. /\ bound' = [bound EXCEPT ![t] = opening[t]] /\ pruned' = [pruned EXCEPT ![t] = 0]
        /\ opening' = [opening EXCEPT ![t] = Nil] /\ opening[t] \in Windows
    BY DEF Bound, Record
  <1>2. opening[t] # Nil
    BY <1>1, WindowFacts, WindowBindingsAssumption
  <1>. QED
    BY <1>1, <1>2 DEF WindowBindingsTypeOK, BindTypes, OpTypes, Remembered

LEMMA DetachAt ==
    ASSUME WindowBindingsTypeOK, NEW t \in Tokens, Detach(t), NEW s \in Tokens
    PROVE  /\ bound'[s] = IF s = t THEN 0 ELSE bound[s]
           /\ pruned'[s] = IF s = t THEN 0 ELSE pruned[s]
           /\ opening'[s] = opening[s] /\ bound[t] # 0
  BY DEF Detach, Remove, WindowBindingsTypeOK, BindTypes, Remembered

LEMMA ReportAt ==
    ASSUME WindowBindingsTypeOK, NEW w \in Windows, ApplyReport(w), NEW s \in Tokens
    PROVE  /\ Keeps(s)
           /\ (s = wins[w].of /\ (bound[s] # 0 => pruned[s] = 0))
                 => bound'[s] = 0 /\ pruned'[s] = 0
  <1>1. wins[w].of \in Tokens /\ opening' = opening
    BY WindowFacts DEF ApplyReport
  <1>2. CASE Answers(wins[w].of) = 0 /\ UNCHANGED bindVars
    BY <1>1, <1>2 DEF Answers, Keeps, bindVars
  <1>3. CASE /\ bound' = [bound EXCEPT ![wins[w].of] = 0]
             /\ pruned' = IF bound[wins[w].of] # 0
                          THEN pruned ELSE [pruned EXCEPT ![wins[w].of] = 0]
    BY <1>1, <1>3 DEF Keeps, WindowBindingsTypeOK, BindTypes, Remembered
  <1>. QED
    BY <1>2, <1>3, ReportCases

LEMMA PruneAt ==
    ASSUME WindowBindingsTypeOK, NEW kept, PruneDead(kept), NEW s \in Tokens
    PROVE  \/ bound'[s] = bound[s] /\ pruned'[s] = pruned[s]
           \/ /\ bound[s] # 0 /\ bound[s] \notin kept
              /\ bound'[s] = 0 /\ pruned'[s] = bound[s]
  BY DEF PruneDead

LEMMA GraceAt ==
    ASSUME WindowBindingsTypeOK, NEW t \in Tokens, GraceEnds(t), NEW s \in Tokens
    PROVE  bound'[s] = bound[s] /\ Keeps(s)
  BY DEF GraceEnds, opVars, Keeps, WindowBindingsTypeOK, BindTypes, Remembered

LEMMA StartAt ==
    ASSUME Forgotten, Start, NEW s \in Tokens
    PROVE  /\ bound'[s] \in {0, file[s]} /\ pruned'[s] = 0 /\ opening'[s] = Nil
           /\ shot' = Nil /\ detached' = {} /\ swept' = {}
  BY DEF Start, Forgotten, opVars, ghostVars, Unbound

LEMMA OneByOneStep ==
    ASSUME WindowBindingsTypeOK, Own, OneByOne, Forgotten, [BindingsNext]_bindingVars
    PROVE  OneByOne'
  <1>1. ASSUME UNCHANGED <<bound, pruned, opening>> PROVE OneByOne'
    BY <1>1 DEF OneByOne
  <1>2. ASSUME \A s \in Tokens : Keeps(s) PROVE OneByOne'
    BY <1>2 DEF OneByOne, Keeps
  <1>3. ASSUME Connected PROVE OneByOne'
    BY <1>3, <1>1 DEF Connected, bindVars, opVars
  <1>4. ASSUME SnapshotArrives PROVE OneByOne'
    BY <1>4, <1>1 DEF SnapshotArrives, bindVars, opVars
  <1>5. ASSUME NEW W \in SUBSET Windows, LinkDrops(W) PROVE OneByOne'
    BY <1>5, <1>1 DEF LinkDrops, bindVars, opVars
  <1>6. ASSUME NEW t \in Tokens, SessionEnds(t) PROVE OneByOne'
    BY <1>6, <1>1 DEF SessionEnds, bindVars, opVars
  <1>7. ASSUME NEW w \in Windows, UserCloses(w) PROVE OneByOne'
    BY <1>7, <1>1 DEF UserCloses, bindVars, opVars
  <1>8. ASSUME NEW w \in Windows, AttachReturns(w) PROVE OneByOne'
    BY <1>8, <1>1 DEF AttachReturns, bindVars, opVars
  <1>9. ASSUME NEW t \in Tokens, CloseDue(t) PROVE OneByOne'
    BY <1>9, <1>1 DEF CloseDue, bindVars, opVars
  <1>10. ASSUME TakeShot PROVE OneByOne'
    BY <1>10, <1>1 DEF TakeShot, bindVars
  <1>11. ASSUME NEW t \in Tokens, FocusFails(t) PROVE OneByOne'
    BY <1>11, <1>1 DEF FocusFails, bindVars
  <1>12. ASSUME UNCHANGED bindingVars PROVE OneByOne'
    BY <1>12, <1>1 DEF bindingVars, bindVars, opVars
  <1>13. ASSUME Reload PROVE OneByOne'
    <2>1. ASSUME NEW s \in Tokens
          PROVE  /\ bound'[s] # 0 => pruned'[s] = 0 /\ opening'[s] = Nil
                 /\ opening'[s] \notin {Nil, 0} => pruned'[s] # opening'[s]
      <3>1. /\ bound[s] # 0 => pruned[s] = 0 /\ opening[s] = Nil
            /\ opening[s] \notin {Nil, 0} => pruned[s] # opening[s]
        BY DEF OneByOne
      <3>2. /\ bound'[s] \in {0, bound[s]} /\ pruned'[s] \in {0, pruned[s]}
            /\ opening'[s] = opening[s] \/ (opening'[s] = 0 /\ bound'[s] = 0)
        BY <1>13, ReloadAt
      <3>. QED
        BY <3>1, <3>2
    <2>. QED
      BY <2>1 DEF OneByOne
  <1>14. ASSUME NEW t \in Tokens, Enter(t) PROVE OneByOne'
    <2>1. bound[t] = 0
      BY <1>14 DEF Enter
    <2>2. ASSUME NEW s \in Tokens
          PROVE  /\ bound'[s] # 0 => pruned'[s] = 0 /\ opening'[s] = Nil
                 /\ opening'[s] \notin {Nil, 0} => pruned'[s] # opening'[s]
      <3>1. /\ bound'[s] = bound[s] /\ pruned'[s] = pruned[s]
            /\ opening'[s] = IF s = t THEN 0 ELSE opening[s]
        BY <1>14, EnterAt
      <3>. QED
        BY <2>1, <3>1 DEF OneByOne
    <2>. QED
      BY <2>2 DEF OneByOne
  <1>15. ASSUME NEW t \in Tokens, Opens(t) PROVE OneByOne'
    <2>1. pruned[t] # Len(wins) + 1
      BY WindowFacts DEF Own, IsOf, Windows, WindowBindingsTypeOK, WinTypes
    <2>. QED
      BY <1>15, <2>1, OpensAt DEF OneByOne
  <1>16. ASSUME NEW t \in Tokens, Bound(t) PROVE OneByOne'
    BY <1>16, BoundAt DEF OneByOne
  <1>17. ASSUME NEW t \in Tokens, Detach(t) PROVE OneByOne'
    BY <1>17, DetachAt DEF OneByOne
  <1>18. ASSUME NEW w \in Windows, ApplyReport(w) PROVE OneByOne'
    BY <1>18, <1>2, ReportAt
  <1>19. ASSUME NEW kept, PruneDead(kept), UNCHANGED opening PROVE OneByOne'
    BY <1>19, PruneAt DEF OneByOne
  <1>20. ASSUME ApplyShot PROVE OneByOne'
    BY <1>20, <1>1, <1>19 DEF ApplyShot, bindVars
  <1>21. ASSUME ApplyRefocus PROVE OneByOne'
    BY <1>21, <1>19 DEF ApplyRefocus
  <1>22. ASSUME NEW t \in Tokens, GraceEnds(t) PROVE OneByOne'
    BY <1>22, <1>2, GraceAt
  <1>23. ASSUME NEW b \in BOOLEAN, Quit(b) PROVE OneByOne'
    BY <1>23 DEF Quit, OneByOne, Unbound
  <1>24. ASSUME Start PROVE OneByOne'
    BY <1>24, StartAt DEF OneByOne
  <1>. QED
    BY <1>3, <1>4, <1>5, <1>6, <1>7, <1>8, <1>9, <1>10, <1>11, <1>12, <1>13, <1>14, <1>15,
       <1>16, <1>17, <1>18, <1>20, <1>21, <1>22, <1>23, <1>24
       DEF BindingsNext

LEMMA AsideStep ==
    ASSUME WindowBindingsTypeOK, OneByOne, Forgotten, Aside, [BindingsNext]_bindingVars
    PROVE  Aside'
  <1>1. ASSUME UNCHANGED <<expected, opening, detached, swept>> PROVE Aside'
    BY <1>1 DEF Aside
  <1>2. ASSUME Connected PROVE Aside'
    BY <1>2, <1>1 DEF Connected, bindVars, opVars, ghostVars
  <1>3. ASSUME SnapshotArrives PROVE Aside'
    BY <1>3, <1>1 DEF SnapshotArrives, bindVars, opVars, ghostVars
  <1>4. ASSUME NEW W \in SUBSET Windows, LinkDrops(W) PROVE Aside'
    BY <1>4, <1>1 DEF LinkDrops, bindVars, opVars
  <1>5. ASSUME NEW t \in Tokens, SessionEnds(t) PROVE Aside'
    BY <1>5, <1>1 DEF SessionEnds, bindVars, opVars
  <1>6. ASSUME NEW w \in Windows, UserCloses(w) PROVE Aside'
    BY <1>6, <1>1 DEF UserCloses, bindVars, opVars
  <1>7. ASSUME NEW w \in Windows, AttachReturns(w) PROVE Aside'
    BY <1>7, <1>1 DEF AttachReturns, bindVars, opVars, ghostVars
  <1>8. ASSUME NEW t \in Tokens, CloseDue(t) PROVE Aside'
    BY <1>8, <1>1 DEF CloseDue, bindVars, opVars
  <1>9. ASSUME TakeShot PROVE Aside'
    BY <1>9, <1>1 DEF TakeShot, bindVars, ghostVars
  <1>10. ASSUME NEW t \in Tokens, FocusFails(t) PROVE Aside'
    BY <1>10, <1>1 DEF FocusFails, bindVars, ghostVars
  <1>11. ASSUME NEW w \in Windows, ApplyReport(w) PROVE Aside'
    BY <1>11, <1>1 DEF ApplyReport, PruneToken, bindVars
  <1>12. ASSUME ApplyShot PROVE Aside'
    BY <1>12, <1>1 DEF ApplyShot, PruneDead, bindVars, ghostVars
  <1>13. ASSUME ApplyRefocus PROVE Aside'
    BY <1>13, <1>1 DEF ApplyRefocus, PruneDead, ghostVars
  <1>14. ASSUME NEW t \in Tokens, GraceEnds(t) PROVE Aside'
    BY <1>14, <1>1 DEF GraceEnds, opVars, ghostVars
  <1>15. ASSUME UNCHANGED bindingVars PROVE Aside'
    BY <1>15, <1>1 DEF bindingVars, bindVars, opVars, ghostVars
  <1>16. ASSUME Reload PROVE Aside'
    <2>1. expected' \subseteq expected /\ detached' = detached /\ swept' \subseteq Tokens
      BY <1>16 DEF Reload, ghostVars, SweepTargets, WindowBindingsTypeOK, OpTypes, BindTypes
    <2>2. detached \subseteq Tokens /\ 0 # Nil
      BY WindowBindingsAssumption DEF WindowBindingsTypeOK, GhostTypes
    <2>. QED
      BY <1>16, <2>1, <2>2, ReloadAt DEF Aside
  <1>17. ASSUME NEW t \in Tokens, Enter(t) PROVE Aside'
    <2>1. expected' = expected /\ detached' = detached \ {t} /\ swept' = swept \ {t}
      BY <1>17 DEF Enter, bindVars
    <2>2. detached \subseteq Tokens /\ swept \subseteq Tokens
      BY DEF WindowBindingsTypeOK, GhostTypes, OpTypes
    <2>. QED
      BY <1>17, <2>1, <2>2, EnterAt DEF Aside
  <1>18. ASSUME NEW t \in Tokens, Opens(t) PROVE Aside'
    <2>1. UNCHANGED <<expected, detached, swept>>
      BY <1>18 DEF Opens, bindVars, ghostVars
    <2>2. /\ detached \subseteq Tokens /\ swept \subseteq Tokens
          /\ Len(wins) + 1 # Nil
      BY WindowBindingsAssumption DEF WindowBindingsTypeOK, GhostTypes, OpTypes, WinTypes
    <2>. QED
      BY <1>18, <2>1, <2>2, OpensAt DEF Aside
  <1>19. ASSUME NEW t \in Tokens, Bound(t) PROVE Aside'
    <2>1. expected' = expected \cup {t} /\ detached' = detached /\ swept' = swept \ {t}
      BY <1>19 DEF Bound, Record
    <2>2. detached \subseteq Tokens /\ swept \subseteq Tokens
      BY DEF WindowBindingsTypeOK, GhostTypes, OpTypes
    <2>. QED
      BY <1>19, <2>1, <2>2, BoundAt DEF Aside
  <1>20. ASSUME NEW t \in Tokens, Detach(t) PROVE Aside'
    <2>1. /\ expected' = expected \ {t} /\ detached' = detached \cup {t}
          /\ UNCHANGED <<swept, opening>> /\ bound[t] # 0
      BY <1>20 DEF Detach, Remove
    <2>. QED
      BY <2>1 DEF Aside, OneByOne
  <1>21. ASSUME NEW b \in BOOLEAN, Quit(b) PROVE Aside'
    BY <1>21 DEF Quit, Aside
  <1>22. ASSUME Start PROVE Aside'
    <2>1. detached' = {} /\ swept' = {}
      BY <1>22 DEF Start, Forgotten, opVars, ghostVars
    <2>. QED
      BY <2>1 DEF Aside
  <1>. QED
    BY <1>2, <1>3, <1>4, <1>5, <1>6, <1>7, <1>8, <1>9, <1>10, <1>11, <1>12, <1>13, <1>14,
       <1>15, <1>16, <1>17, <1>18, <1>19, <1>20, <1>21, <1>22
       DEF BindingsNext

\* A step that hangs up no window, drops no answer and asks for no less.
LEMMA HungUpStays ==
    ASSUME WindowBindingsTypeOK, HungUp, 
           \A w \in Windows' : wins'[w].st = "hup" =>
               w \in Windows /\ wins[w].st = "hup" /\ wins'[w].of = wins[w].of,
           UNCHANGED overtaken, asked \subseteq asked',
           \A s \in Tokens : /\ Answers(s) = 0 => bound'[s] = 0 /\ pruned'[s] = 0
                             /\ opening'[s] \in Windows => opening'[s] = opening[s]
    PROVE  HungUp'
  <1>1. ASSUME NEW w \in Windows', wins'[w].st = "hup"
        PROVE  LET t == wins'[w].of
               IN  /\ t \in asked' \cup overtaken' \/ (bound'[t] = 0 /\ pruned'[t] = 0)
                   /\ opening'[t] = w => t \in asked'
    <2>1. /\ w \in Windows /\ wins[w].st = "hup" /\ wins'[w].of = wins[w].of
          /\ wins[w].of \in Tokens
      BY <1>1, WindowFacts
    <2>2. /\ wins[w].of \in asked \cup overtaken \/ Answers(wins[w].of) = 0
          /\ opening[wins[w].of] = w => wins[w].of \in asked
      BY <2>1 DEF HungUp
    <2>. QED
      BY <2>1, <2>2
  <1>. QED
    BY <1>1 DEF HungUp, Answers

\* The same where the windows in W, of session t and no others, are hung up,
\* and nothing is left to answer their reports.
LEMMA HungUpOf ==
    ASSUME WindowBindingsTypeOK, HungUp, NEW W,
           Windows' = Windows, \A w \in Windows : wins'[w].of = wins[w].of,
           \A w \in Windows : wins'[w].st = "hup" => wins[w].st = "hup" \/ w \in W,
           UNCHANGED <<asked, overtaken>>,
           \A s \in Tokens : /\ Answers(s) = 0 => bound'[s] = 0 /\ pruned'[s] = 0
                             /\ opening'[s] \in Windows => opening'[s] = opening[s],
           \A w \in W \cap Windows : LET t == wins[w].of
               IN  bound'[t] = 0 /\ pruned'[t] = 0 /\ opening'[t] # w
    PROVE  HungUp'
  <1>1. ASSUME NEW w \in Windows, wins'[w].st = "hup"
        PROVE  LET t == wins[w].of
               IN  /\ t \in asked \cup overtaken \/ (bound'[t] = 0 /\ pruned'[t] = 0)
                   /\ opening'[t] = w => t \in asked
    <2>1. wins[w].of \in Tokens
      BY <1>1, WindowFacts
    <2>2. CASE w \in W
      BY <2>2, <1>1
    <2>3. CASE wins[w].st = "hup"
      <3>1. /\ wins[w].of \in asked \cup overtaken \/ Answers(wins[w].of) = 0
            /\ opening[wins[w].of] = w => wins[w].of \in asked
        BY <2>3 DEF HungUp
      <3>. QED
        BY <2>1, <3>1
    <2>. QED
      BY <1>1, <2>2, <2>3
  <1>. QED
    BY <1>1 DEF HungUp, Answers

LEMMA HungUpStep ==
    ASSUME WindowBindingsTypeOK, Own, OneByOne, Forgotten, HungUp, [BindingsNext]_bindingVars
    PROVE  HungUp'
  <1>1. 0 \notin Windows /\ Nil \notin Windows
    BY WindowFacts, WindowBindingsAssumption
  <1>2. ASSUME UNCHANGED <<bound, pruned, opening, asked, overtaken>>, Windows' = Windows,
               \A w \in Windows : /\ wins'[w].of = wins[w].of
                                  /\ wins'[w].st = "hup" => wins[w].st = "hup"
        PROVE  HungUp'
    BY <1>2, HungUpStays DEF Answers
  <1>3. ASSUME UNCHANGED <<bound, pruned, opening, asked, overtaken, wins>> PROVE HungUp'
    BY <1>3 DEF HungUp, Answers, Windows
  <1>4. ASSUME NEW W, NEW how \in {"lost", "quit"}, wins' = End(wins, W, how)
        PROVE  /\ Windows' = Windows
               /\ \A w \in Windows : /\ wins'[w].of = wins[w].of
                                     /\ wins'[w].st = "hup" => wins[w].st = "hup"
    BY <1>4, EndIsLater DEF Later
  <1>5. ASSUME Connected PROVE HungUp'
    BY <1>5, <1>3 DEF Connected, bindVars, opVars, ghostVars
  <1>6. ASSUME SnapshotArrives PROVE HungUp'
    BY <1>6, <1>3 DEF SnapshotArrives, bindVars, opVars, ghostVars
  <1>7. ASSUME TakeShot PROVE HungUp'
    BY <1>7, <1>3 DEF TakeShot, bindVars, ghostVars
  <1>8. ASSUME NEW t \in Tokens, FocusFails(t) PROVE HungUp'
    BY <1>8, <1>3 DEF FocusFails, bindVars, ghostVars
  <1>9. ASSUME UNCHANGED bindingVars PROVE HungUp'
    BY <1>9, <1>3 DEF bindingVars, bindVars, opVars, ghostVars
  <1>10. ASSUME NEW W \in SUBSET Windows, LinkDrops(W) PROVE HungUp'
    <2>1. /\ wins' = End(wins, W, "lost")
          /\ UNCHANGED <<bound, pruned, opening, asked, overtaken>>
      BY <1>10 DEF LinkDrops, bindVars, opVars
    <2>. QED
      BY <2>1, <1>4, <1>2
  <1>11. ASSUME NEW t \in Tokens, SessionEnds(t) PROVE HungUp'
    <2>1. /\ \E W : wins' = End(wins, W, "quit")
          /\ UNCHANGED <<bound, pruned, opening, asked, overtaken>>
      BY <1>11 DEF SessionEnds, bindVars, opVars
    <2>. QED
      BY <2>1, <1>4, <1>2
  <1>12. ASSUME NEW w \in Windows, AttachReturns(w) PROVE HungUp'
    <2>1. /\ \E W : wins' = End(wins, W, "quit")
          /\ UNCHANGED <<bound, pruned, opening, asked, overtaken>>
      BY <1>12 DEF AttachReturns, bindVars, opVars, ghostVars
    <2>. QED
      BY <2>1, <1>4, <1>2
  <1>13. ASSUME NEW t \in Tokens, CloseDue(t) PROVE HungUp'
    <2>1. /\ wins' = wins \/ \E W : wins' = End(wins, W, "quit")
          /\ UNCHANGED <<bound, pruned, opening, asked, overtaken>>
      BY <1>13 DEF CloseDue, bindVars, opVars
    <2>. QED
      BY <2>1, <1>4, <1>2, <1>3
  <1>14. ASSUME NEW w \in Windows, UserCloses(w) PROVE HungUp'
    <2>1. /\ wins' = End(wins, {w}, "hup") /\ asked' = asked \cup {wins[w].of}
          /\ UNCHANGED <<bound, pruned, opening, overtaken>>
      BY <1>14 DEF UserCloses, bindVars, opVars
    <2>2. /\ Windows' = Windows /\ \A v \in Windows : wins'[v].of = wins[v].of
          /\ \A v \in Windows : wins'[v].st = "hup" => wins[v].st = "hup" \/ v \in {w}
      BY <2>1, EndIsLater DEF Later
    <2>. QED
      BY <2>1, <2>2 DEF HungUp, Answers
  <1>15. ASSUME Reload PROVE HungUp'
    <2>1. /\ wins' = End(wins, {bound[t] : t \in Departed}, "hup") /\ UNCHANGED <<asked, overtaken>>
          /\ Departed \subseteq Tokens
      BY <1>15 DEF Reload, ghostVars, Departed, WindowBindingsTypeOK, RowTypes
    <2>2. ASSUME NEW s \in Tokens
          PROVE  /\ Answers(s) = 0 => bound'[s] = 0 /\ pruned'[s] = 0
                 /\ opening'[s] \in Windows => opening'[s] = opening[s]
      BY <1>15, <1>1, ReloadAt DEF Answers
    <2>3. ASSUME NEW w \in {bound[t] : t \in Departed} \cap Windows
          PROVE  /\ bound'[wins[w].of] = 0 /\ pruned'[wins[w].of] = 0
                 /\ opening'[wins[w].of] # w
      <3>1. PICK t \in Departed : w = bound[t]
        BY <2>3
      <3>2. wins[w].of = t /\ t \in Tokens /\ w # 0 /\ opening[t] = Nil
        BY <2>1, <3>1, <1>1 DEF Own, IsOf, OneByOne
      <3>3. /\ bound'[t] = 0 /\ pruned'[t] = 0 /\ opening'[t] \in {Nil, 0}
        BY <1>15, <3>1, <3>2, ReloadAt
      <3>. QED
        BY <3>2, <3>3, <1>1
    <2>. QED
      <3>. DEFINE W == {bound[t] : t \in Departed}
      <3>1. /\ Windows' = Windows /\ \A w \in Windows : wins'[w].of = wins[w].of
            /\ \A w \in Windows : wins'[w].st = "hup" => wins[w].st = "hup" \/ w \in W
        BY <2>1, EndIsLater DEF Later
      <3>2. \A w \in W \cap Windows :
               bound'[wins[w].of] = 0 /\ pruned'[wins[w].of] = 0 /\ opening'[wins[w].of] # w
        BY <2>3
      <3>. HIDE DEF W
      <3>. QED
        BY <2>1, <2>2, <3>1, <3>2, HungUpOf
  <1>16. ASSUME NEW t \in Tokens, Enter(t) PROVE HungUp'
    <2>1. UNCHANGED <<asked, overtaken, wins>>
      BY <1>16 DEF Enter
    <2>2. ASSUME NEW s \in Tokens
          PROVE  /\ Answers(s) = 0 => bound'[s] = 0 /\ pruned'[s] = 0
                 /\ opening'[s] \in Windows => opening'[s] = opening[s]
      BY <1>16, <1>1, EnterAt DEF Answers
    <2>. QED
      BY <2>1, <2>2, HungUpStays DEF Windows
  <1>17. ASSUME NEW t \in Tokens, Opens(t) PROVE HungUp'
    <2>0. UNCHANGED <<asked, overtaken>> /\ Len(wins) \in Nat
      BY <1>17 DEF Opens, ghostVars, WindowBindingsTypeOK, WinTypes
    <2>1. /\ UNCHANGED <<asked, overtaken>> /\ Len(wins') = Len(wins) + 1
          /\ wins'[Len(wins')].st # "hup" /\ \A w \in Windows : wins'[w] = wins[w]
          /\ Len(wins) \in Nat
      BY <1>17, <2>0, OpensIsLater
    <2>2. ASSUME NEW s \in Tokens
          PROVE  /\ Answers(s) = 0 => bound'[s] = 0 /\ pruned'[s] = 0
                 /\ opening'[s] \in Windows => opening'[s] = opening[s]
      BY <1>17, <2>1, OpensAt DEF Answers, Windows
    <2>3. \A w \in Windows' : w \in Windows \/ w = Len(wins')
      BY <2>1 DEF Windows
    <2>. QED
      BY <2>1, <2>2, <2>3, HungUpStays
  <1>18. ASSUME NEW t \in Tokens, Bound(t) PROVE HungUp'
    <2>1. /\ wins' = wins
          /\ overtaken' = IF \E w \in Windows \ {opening[t]} : wins[w].of = t /\ wins[w].st \in Owing
                          THEN overtaken \cup {t} ELSE overtaken \ {t}
          /\ asked' = IF wins[opening[t]].st = "live" THEN asked \ {t} ELSE asked
      BY <1>18 DEF Bound, Live
    <2>2. ASSUME NEW w \in Windows, wins[w].st = "hup"
          PROVE  LET s == wins[w].of
                 IN  /\ s \in asked' \cup overtaken' \/ (bound'[s] = 0 /\ pruned'[s] = 0)
                     /\ opening'[s] = w => s \in asked'
      <3>1. wins[w].of \in Tokens
        BY WindowFacts
      <3>2. /\ wins[w].of \in asked \cup overtaken \/ Answers(wins[w].of) = 0
            /\ opening[wins[w].of] = w => wins[w].of \in asked
        BY <2>2 DEF HungUp
      <3>3. CASE wins[w].of # t
        <4>1. wins[w].of \in asked \cup overtaken => wins[w].of \in asked' \cup overtaken'
          BY <2>1, <3>3
        <4>2. /\ bound'[wins[w].of] = bound[wins[w].of] /\ pruned'[wins[w].of] = pruned[wins[w].of]
              /\ opening'[wins[w].of] = opening[wins[w].of]
          BY <1>18, <3>1, <3>3, BoundAt
        <4>3. wins[w].of \in asked => wins[w].of \in asked'
          BY <2>1, <3>3
        <4>. QED
          BY <3>2, <4>1, <4>2, <4>3 DEF Answers
      <3>4. CASE wins[w].of = t
        <4>1. opening'[t] = Nil
          BY <1>18, BoundAt
        <4>2. CASE w = opening[t]
          BY <2>1, <2>2, <3>2, <3>4, <4>1, <4>2, <1>1
        <4>3. CASE w # opening[t]
          <5>1. t \in overtaken'
            BY <2>1, <2>2, <3>4, <4>3 DEF Owing
          <5>. QED
            BY <3>4, <4>1, <5>1, <1>1
        <4>. QED
          BY <4>2, <4>3
      <3>. QED
        BY <3>3, <3>4
    <2>. QED
      BY <2>1, <2>2 DEF HungUp, Answers, Windows
  <1>19. ASSUME NEW t \in Tokens, Detach(t) PROVE HungUp'
    <2>1. wins' = End(wins, {bound[t]}, "hup") /\ UNCHANGED <<asked, overtaken>>
      BY <1>19 DEF Detach
    <2>2. ASSUME NEW s \in Tokens
          PROVE  /\ Answers(s) = 0 => bound'[s] = 0 /\ pruned'[s] = 0
                 /\ opening'[s] \in Windows => opening'[s] = opening[s]
      BY <1>19, DetachAt DEF Answers
    <2>3. /\ bound'[t] = 0 /\ pruned'[t] = 0 /\ opening'[t] = Nil
          /\ bound[t] \in Windows => wins[bound[t]].of = t
      BY <1>19, <1>1, DetachAt DEF OneByOne, Own, IsOf
    <2>4. /\ Windows' = Windows /\ \A w \in Windows : wins'[w].of = wins[w].of
          /\ \A w \in Windows : wins'[w].st = "hup" => wins[w].st = "hup" \/ w \in {bound[t]}
      BY <2>1, EndIsLater DEF Later
    <2>5. \A w \in {bound[t]} \cap Windows :
             bound'[wins[w].of] = 0 /\ pruned'[wins[w].of] = 0 /\ opening'[wins[w].of] # w
      BY <2>3, <1>1
    <2>. DEFINE W == {bound[t]}
    <2>. HIDE DEF W
    <2>6. /\ \A w \in Windows : wins'[w].st = "hup" => wins[w].st = "hup" \/ w \in W
          /\ \A w \in W \cap Windows :
                bound'[wins[w].of] = 0 /\ pruned'[wins[w].of] = 0 /\ opening'[wins[w].of] # w
      BY <2>4, <2>5 DEF W
    <2>. QED
      BY <2>1, <2>2, <2>4, <2>6, HungUpOf
  <1>20. ASSUME NEW w \in Windows, ApplyReport(w) PROVE HungUp'
    <2>. DEFINE t == wins[w].of
                W == IF Answers(t) = 0 THEN {} ELSE {Answers(t)}
    <2>1. UNCHANGED <<asked, overtaken>> /\ t \in Tokens
      BY <1>20, WindowFacts DEF ApplyReport
    <2>2. ASSUME NEW s \in Tokens
          PROVE  /\ Answers(s) = 0 => bound'[s] = 0 /\ pruned'[s] = 0
                 /\ opening'[s] \in Windows => opening'[s] = opening[s]
      BY <1>20, ReportAt DEF Answers, Keeps
    <2>3. /\ bound'[t] = 0 /\ pruned'[t] = 0 /\ opening'[t] = opening[t]
      BY <1>20, <2>1, ReportAt DEF OneByOne, Keeps
    <2>4. Answers(t) \in Windows => wins[Answers(t)].of = t /\ opening[t] # Answers(t)
      BY <2>1, <1>1 DEF Answers, Own, IsOf, OneByOne
    <2>5. /\ Windows' = Windows /\ \A v \in Windows : wins'[v].of = wins[v].of
          /\ \A v \in Windows : wins'[v].st = "hup" => wins[v].st = "hup" \/ v \in W
      BY <1>20, ApplyReportIsLater DEF Later
    <2>6. \A v \in W \cap Windows :
             bound'[wins[v].of] = 0 /\ pruned'[wins[v].of] = 0 /\ opening'[wins[v].of] # v
      BY <2>3, <2>4
    <2>. HIDE DEF W
    <2>. QED
      BY <2>1, <2>2, <2>5, <2>6, HungUpOf
  <1>21. ASSUME NEW kept, PruneDead(kept), UNCHANGED <<opening, asked, overtaken, wins>>
         PROVE  HungUp'
    <2>1. ASSUME NEW s \in Tokens
          PROVE  /\ Answers(s) = 0 => bound'[s] = 0 /\ pruned'[s] = 0
                 /\ opening'[s] \in Windows => opening'[s] = opening[s]
      BY <1>21, PruneAt DEF Answers
    <2>. QED
      BY <1>21, <2>1, HungUpStays DEF Windows
  <1>22. ASSUME ApplyShot PROVE HungUp'
    BY <1>22, <1>3, <1>21 DEF ApplyShot, bindVars, ghostVars
  <1>23. ASSUME ApplyRefocus PROVE HungUp'
    BY <1>23, <1>21 DEF ApplyRefocus, ghostVars
  <1>24. ASSUME NEW t \in Tokens, GraceEnds(t) PROVE HungUp'
    <2>1. UNCHANGED <<asked, overtaken, wins>>
      BY <1>24 DEF GraceEnds, ghostVars
    <2>2. ASSUME NEW s \in Tokens
          PROVE  /\ Answers(s) = 0 => bound'[s] = 0 /\ pruned'[s] = 0
                 /\ opening'[s] \in Windows => opening'[s] = opening[s]
      BY <1>24, GraceAt DEF Answers, Keeps
    <2>. QED
      BY <2>1, <2>2, HungUpStays DEF Windows
  <1>25. ASSUME NEW b \in BOOLEAN, Quit(b) PROVE HungUp'
    <2>1. /\ bound' = Unbound /\ pruned' = Unbound /\ opening' = [s \in Tokens |-> Nil]
          /\ Windows' = Windows /\ \A w \in Windows : wins'[w].of = wins[w].of
      BY <1>25, EndIsLater DEF Quit, Later, Windows
    <2>. QED
      BY <2>1, <1>1, WindowFacts DEF HungUp, Answers, Unbound
  <1>26. ASSUME Start PROVE HungUp'
    <2>1. ASSUME NEW w \in Windows, wins'[w].st = "hup"
          PROVE  /\ bound'[wins[w].of] = 0 /\ pruned'[wins[w].of] = 0
                 /\ opening'[wins[w].of] # w
      <3>1. PICK t \in Tokens : file[t] = w /\ bound'[t] = 0
        BY <1>26, <2>1, StartIsLater
      <3>2. wins[w].of = t
        BY <3>1, <1>1 DEF Own, IsOf
      <3>. QED
        BY <1>26, <1>1, <3>1, <3>2, StartAt
    <2>2. Windows' = Windows /\ \A w \in Windows : wins'[w].of = wins[w].of
      BY <1>26, StartIsLater DEF Later
    <2>. QED
      BY <2>1, <2>2 DEF HungUp, Answers
  <1>. QED
    BY <1>5, <1>6, <1>7, <1>8, <1>9, <1>10, <1>11, <1>12, <1>13, <1>15, <1>16, <1>17,
       <1>18, <1>19, <1>20, <1>22, <1>23, <1>24, <1>25, <1>26, <1>14
       DEF BindingsNext

LEMMA SeenStep ==
    ASSUME WindowBindingsTypeOK, Own, Forgotten, Seen, Later, [BindingsNext]_bindingVars
    PROVE  Seen'
  <1>1. ASSUME UNCHANGED <<shot, bound>> PROVE Seen'
    <2>1. ASSUME NEW t \in Tokens, bound[t] # 0, bound[t] \notin Shown
          PROVE  bound[t] \notin Shown'
      BY <2>1 DEF Own, IsOf, Later
    <2>. QED
      BY <1>1, <2>1 DEF Seen
  <1>2. ASSUME shot' = Stale PROVE Seen'
    BY <1>2 DEF Seen, Stale, WindowBindingsTypeOK, OpTypes
  <1>3. ASSUME Connected PROVE Seen'
    BY <1>3, <1>1 DEF Connected, bindVars, opVars
  <1>4. ASSUME SnapshotArrives PROVE Seen'
    BY <1>4, <1>1 DEF SnapshotArrives, bindVars, opVars
  <1>5. ASSUME NEW W \in SUBSET Windows, LinkDrops(W) PROVE Seen'
    BY <1>5, <1>1 DEF LinkDrops, bindVars, opVars
  <1>6. ASSUME NEW t \in Tokens, SessionEnds(t) PROVE Seen'
    BY <1>6, <1>1 DEF SessionEnds, bindVars, opVars
  <1>7. ASSUME NEW t \in Tokens, Enter(t) PROVE Seen'
    BY <1>7, <1>1 DEF Enter, bindVars
  <1>8. ASSUME NEW t \in Tokens, Opens(t) PROVE Seen'
    BY <1>8, <1>1 DEF Opens, bindVars
  <1>9. ASSUME NEW w \in Windows, UserCloses(w) PROVE Seen'
    BY <1>9, <1>1 DEF UserCloses, bindVars, opVars
  <1>10. ASSUME NEW w \in Windows, AttachReturns(w) PROVE Seen'
    BY <1>10, <1>1 DEF AttachReturns, bindVars, opVars
  <1>11. ASSUME NEW t \in Tokens, CloseDue(t) PROVE Seen'
    BY <1>11, <1>1 DEF CloseDue, bindVars, opVars
  <1>12. ASSUME NEW t \in Tokens, FocusFails(t) PROVE Seen'
    BY <1>12, <1>1 DEF FocusFails, bindVars
  <1>13. ASSUME NEW t \in Tokens, GraceEnds(t) PROVE Seen'
    BY <1>13, <1>1 DEF GraceEnds, opVars
  <1>14. ASSUME UNCHANGED bindingVars PROVE Seen'
    BY <1>14, <1>1 DEF bindingVars, bindVars, opVars
  <1>15. ASSUME TakeShot PROVE Seen'
    BY <1>15 DEF TakeShot, Seen, Shown, Windows, bindVars
  <1>16. ASSUME ApplyShot PROVE Seen'
    BY <1>16 DEF ApplyShot, Seen
  <1>17. ASSUME NEW b \in BOOLEAN, Quit(b) PROVE Seen'
    BY <1>17 DEF Quit, Seen
  <1>18. ASSUME Start PROVE Seen'
    <2>1. shot' = Nil
      BY <1>18 DEF Start, Forgotten, opVars
    <2>. QED
      BY <2>1 DEF Seen
  <1>19. ASSUME Reload PROVE Seen'
    BY <1>19, <1>2 DEF Reload
  <1>20. ASSUME NEW t \in Tokens, Bound(t) PROVE Seen'
    BY <1>20, <1>2 DEF Bound
  <1>21. ASSUME NEW t \in Tokens, Detach(t) PROVE Seen'
    BY <1>21, <1>2 DEF Detach
  <1>22. ASSUME NEW w \in Windows, ApplyReport(w) PROVE Seen'
    BY <1>22, <1>1, <1>2 DEF ApplyReport, bindVars
  <1>23. ASSUME ApplyRefocus PROVE Seen'
    BY <1>23, <1>2 DEF ApplyRefocus
  <1>. QED
    BY <1>3, <1>4, <1>5, <1>6, <1>7, <1>8, <1>9, <1>10, <1>11, <1>12, <1>13, <1>14, <1>15,
       <1>16, <1>17, <1>18, <1>19, <1>20, <1>21, <1>22, <1>23
       DEF BindingsNext

LEMMA BindInvStep ==
    ASSUME BindInv, [BindingsNext]_bindingVars
    PROVE  BindInv'
  <1>1. Later /\ WindowBindingsTypeOK'
    BY BindingsTypes DEF BindInv
  <1>2. Own'
    BY <1>1, TracedStep, OwnStep DEF BindInv
  <1>3. OneByOne' /\ Forgotten' /\ Counted'
    BY OneByOneStep, ForgottenStep, CountedStep DEF BindInv
  <1>4. Aside' /\ HungUp'
    BY AsideStep, HungUpStep DEF BindInv
  <1>5. Seen'
    BY <1>1, SeenStep DEF BindInv
  <1>. QED
    BY <1>1, <1>2, <1>3, <1>4, <1>5 DEF BindInv

LEMMA BindInvInit == BindingsInit => BindInv
  <1>. SUFFICES ASSUME BindingsInit PROVE BindInv
    OBVIOUS
  <1>1. WindowBindingsTypeOK
    <2>1. HostTypes /\ RowTypes
      <3>1. up \in BOOLEAN /\ dirty \in BOOLEAN
        BY Zenon DEF BindingsInit
      <3>. QED
        BY <3>1, WindowBindingsAssumption DEF BindingsInit, HostTypes, RowTypes
    <2>2. BindTypes /\ GhostTypes
      BY BindingsFacts DEF BindingsInit, BindTypes, GhostTypes
    <2>3. OpTypes
      BY DEF BindingsInit, OpTypes
    <2>4. WinTypes
      BY WindowBindingsAssumption DEF BindingsInit, WinTypes
    <2>. QED
      BY <2>1, <2>2, <2>3, <2>4 DEF WindowBindingsTypeOK
  <1>2. Own /\ OneByOne /\ Forgotten /\ Counted /\ Aside /\ Seen
    BY DEF BindingsInit, Own, IsOf, OneByOne, Forgotten, Counted, Aside, Seen, Unbound
  <1>3. HungUp
    <2>1. Windows = {}
      BY DEF BindingsInit, Windows
    <2>. QED
      BY <2>1 DEF HungUp
  <1>. QED
    BY <1>1, <1>2, <1>3 DEF BindInv

(* In every reachable state the bindings, the windows and what is under way *)
(* are in the relation BindInv states.                                      *)
THEOREM BindingsInvariant == BindingsSpec => []BindInv
  BY BindInvInit, BindInvStep, PTL DEF BindingsSpec

(* The variables of app/bindings.rs, of the operations and of the windows   *)
(* keep their types, the counters their bounds.                             *)
THEOREM WindowBindingsTypeCorrect == BindingsSpec => []WindowBindingsTypeOK
  <1>1. BindInv => WindowBindingsTypeOK
    BY DEF BindInv
  <1>. QED
    BY <1>1, BindingsInvariant, PTL

(* A session the user detached is never attached again by a reconnect: it   *)
(* is neither expected nor being opened, so the sweep finds nothing.        *)
THEOREM DetachIsKept == BindingsSpec => []DetachedStays
  <1>1. BindInv => DetachedStays
    BY DEF BindInv, Aside, DetachedStays
  <1>. QED
    BY <1>1, BindingsInvariant, PTL

(* apply_detach_reports ends a session only for a window that was closed by *)
(* hand, or that one bound later overtook.                                  *)
THEOREM OnlyAskedEnds == BindingsSpec => EndIsAsked
  <1>1. BindInv /\ [BindingsNext]_bindingVars
           => [closes' \subseteq closes \cup asked \cup overtaken]_bindingVars
    <2>. SUFFICES ASSUME BindInv, BindingsNext
                  PROVE  closes' \subseteq closes \cup asked \cup overtaken
      BY DEF bindingVars
    <2>. DEFINE Justified == closes' \subseteq closes \cup asked \cup overtaken
    <2>1. ASSUME UNCHANGED closes PROVE Justified
      BY <2>1
    <2>2. ASSUME Connected PROVE Justified
      BY <2>2, <2>1 DEF Connected
    <2>3. ASSUME SnapshotArrives PROVE Justified
      BY <2>3, <2>1 DEF SnapshotArrives
    <2>4. ASSUME NEW W \in SUBSET Windows, LinkDrops(W) PROVE Justified
      BY <2>4, <2>1 DEF LinkDrops
    <2>5. ASSUME NEW t \in Tokens, SessionEnds(t) PROVE Justified
      BY <2>5, <2>1 DEF SessionEnds
    <2>6. ASSUME Reload PROVE Justified
      BY <2>6, <2>1 DEF Reload
    <2>7. ASSUME NEW t \in Tokens, Enter(t) PROVE Justified
      BY <2>7, <2>1 DEF Enter
    <2>8. ASSUME NEW t \in Tokens, Opens(t) PROVE Justified
      BY <2>8, <2>1 DEF Opens
    <2>9. ASSUME NEW t \in Tokens, Bound(t) PROVE Justified
      BY <2>9, <2>1 DEF Bound
    <2>10. ASSUME NEW w \in Windows, UserCloses(w) PROVE Justified
      BY <2>10, <2>1 DEF UserCloses
    <2>11. ASSUME NEW w \in Windows, AttachReturns(w) PROVE Justified
      BY <2>11, <2>1 DEF AttachReturns
    <2>12. ASSUME NEW t \in Tokens, Detach(t) PROVE Justified
      BY <2>12, <2>1 DEF Detach
    <2>13. ASSUME TakeShot PROVE Justified
      BY <2>13, <2>1 DEF TakeShot
    <2>14. ASSUME ApplyShot PROVE Justified
      BY <2>14, <2>1 DEF ApplyShot
    <2>15. ASSUME ApplyRefocus PROVE Justified
      BY <2>15, <2>1 DEF ApplyRefocus
    <2>16. ASSUME NEW t \in Tokens, FocusFails(t) PROVE Justified
      BY <2>16, <2>1 DEF FocusFails
    <2>17. ASSUME NEW t \in Tokens, GraceEnds(t) PROVE Justified
      BY <2>17, <2>1 DEF GraceEnds
    <2>18. ASSUME Start PROVE Justified
      BY <2>18, <2>1 DEF Start, opVars
    <2>19. ASSUME NEW w \in Windows, ApplyReport(w) PROVE Justified
      <3>. DEFINE t == wins[w].of
      <3>1. CASE Answers(t) = 0
        BY <2>19, <3>1, ReportCases
      <3>2. CASE Answers(t) # 0 /\ wins[w].st = "hup" /\ closes' = closes \cup {t}
        BY <3>2 DEF BindInv, HungUp
      <3>3. CASE UNCHANGED closes
        BY <3>3
      <3>. QED
        BY <2>19, <3>1, <3>2, <3>3, ReportCases
    <2>20. ASSUME NEW t \in Tokens, CloseDue(t) PROVE Justified
      BY <2>20 DEF CloseDue
    <2>21. ASSUME NEW b \in BOOLEAN, Quit(b) PROVE Justified
      BY <2>21 DEF Quit
    <2>. QED
      BY <2>2, <2>3, <2>4, <2>5, <2>6, <2>7, <2>8, <2>9, <2>10, <2>11, <2>12, <2>13, <2>14,
         <2>15, <2>16, <2>17, <2>18, <2>19, <2>20, <2>21
         DEF BindingsNext
  <1>. QED
    BY <1>1, BindingsInvariant, PTL DEF BindingsSpec, EndIsAsked

(* prune_dead, fed by the periodic snapshot, takes no binding from a window *)
(* that is on screen.                                                       *)
THEOREM PruneSpares == BindingsSpec => PrunedIsDead
  <1>1. BindInv /\ [BindingsNext]_bindingVars
           => [ApplyShot => \A t \in Tokens : bound'[t] # bound[t] => bound[t] \notin Shown]_bindingVars
    <2>. SUFFICES ASSUME BindInv, ApplyShot, NEW t \in Tokens, bound'[t] # bound[t]
                  PROVE  bound[t] \notin Shown
      OBVIOUS
    <2>1. shot # Nil /\ ~shot.stale /\ PruneDead(shot.live)
      BY DEF ApplyShot, bindVars
    <2>2. bound[t] # 0 /\ bound[t] \notin shot.live
      BY <2>1, PruneAt DEF BindInv
    <2>. QED
      BY <2>1, <2>2 DEF BindInv, Seen
  <1>. QED
    BY <1>1, BindingsInvariant, PTL DEF BindingsSpec, PrunedIsDead
==============================================================================
