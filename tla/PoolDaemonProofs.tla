-------------------------- MODULE PoolDaemonProofs --------------------------
(***************************************************************************)
(* For any number of daemons, pids, sessions and stops: server.pid names   *)
(* the daemon whose pool there is, a reservation goes only by its claim or *)
(* with its daemon, and a stop that succeeded has left no session behind.  *)
(*                                                                         *)
(* The flock makes the daemons one after another (PoolDaemonTypeOK's last  *)
(* conjunct), so whoever prunes prunes a dead daemon's reservations        *)
(* (Minted), and whoever a stop found has its pid until it is dead         *)
(* (Pursued); then no session of its pool can come up any more (Hosted).   *)
(***************************************************************************)
EXTENDS PoolDaemon, TLAPS

\* A daemon that is past its record is the one in server.pid.
Recorded ==
    \A d \in Daemons :
        phase[d] \in {"recorded", "pooled", "serving", "exiting", "idling"} => pidFile = pid[d]

\* Only a daemon that serves reserves.
Minted ==
    \A l \in Launchers : launch[l] # "unused" =>
        minter[l] \in Daemons /\ phase[minter[l]] \in {"serving", "exiting", "idling", "dead"}

\* A session that has no state file yet goes with the daemon of its pty.
Hosted ==
    \A l \in Launchers : launch[l] = "starting" => host[l] \in Daemons /\ Up(host[l])

\* The daemon a stop found has the pid it found, and is dead when the stop has
\* seen that pid go.
Pursued ==
    \A s \in Stops :
        /\ stop[s] = "idle" => found[s] = None
        /\ found[s] # None =>
             /\ phase[found[s]] # "unborn" /\ pid[found[s]] = target[s]
             /\ stop[s] \in {"draining", "signalled", "ok"} => phase[found[s]] = "dead"

Inv == PoolDaemonTypeOK /\ Recorded /\ Minted /\ Hosted /\ Pursued /\ StopIsQuiet

------------------------------------------------------------------------------
\* Nothing has been started.
LEMMA DaemonInit == Init => Inv
  BY PoolDaemonAssumption DEF Init, Inv, PoolDaemonTypeOK, Recorded, Minted, Hosted, Pursued,
     StopIsQuiet, Up, Listed

\* Types, and that the flock has one holder, the daemon that is up.
LEMMA TypeStep ==
    PoolDaemonTypeOK /\ [Next]_vars => PoolDaemonTypeOK'
<1> SUFFICES ASSUME PoolDaemonTypeOK, [Next]_vars PROVE PoolDaemonTypeOK'
  OBVIOUS
<1> USE PoolDaemonAssumption
    DEF daemonVars, idleVars, alienVars, launchVars, stopVars,
        PoolDaemonTypeOK, Up, Alive, Listed, ListedNow
<1>1. ASSUME NEW d \in Daemons, DaemonStep(d) PROVE PoolDaemonTypeOK'
  <2>1. CASE \E p \in Pids : Acquire(d, p)
    BY <2>1 DEF Acquire
  <2>2. CASE Record(d) \/ StartPool(d)
    BY <2>2 DEF Record, StartPool
  <2>3. CASE Reap(d) \/ TermArm(d)
    BY <2>3 DEF Reap, TermArm, SignalPoolLaunchers
  <2>4. CASE Exit(d) \/ Crash(d)
    BY <2>4 DEF Exit, Crash, Dies, Missing
  <2>5. CASE \/ Connect(d) \/ Disconnect(d)
             \/ (\E l \in Launchers : Reserve(d, l)) \/ IdleTick(d) \/ IdleExit(d)
    BY <2>5 DEF Connect, Disconnect, Reserve, IdleTick, IdleExit
  <2>6. QED
    BY <1>1, <2>1, <2>2, <2>3, <2>4, <2>5 DEF DaemonStep
<1>2. ASSUME NEW l \in Launchers, LauncherStep(l) PROVE PoolDaemonTypeOK'
  BY <1>2 DEF LauncherStep, Claim, Spawn, DialFails, WriteState, ReadNews, ExitSeen,
     Cleanup, AgentEnds
<1>3. ASSUME NEW s \in Stops, StopStep(s) PROVE PoolDaemonTypeOK'
  <2>1. CASE Escalate(s)
    BY <2>1 DEF Escalate, Dies, Missing, StopGoes
  <2>2. CASE SignalLeftovers(s)
    BY <2>2 DEF SignalLeftovers, SignalPoolLaunchers, StopGoes
  <2>3. CASE Find(s) \/ SendTerm(s) \/ SeeExit(s) \/ Drained(s) \/ GiveUp(s)
    BY <2>3 DEF Find, SendTerm, SeeExit, Drained, GiveUp, StopGoes
  <2>4. QED
    BY <1>3, <2>1, <2>2, <2>3 DEF StopStep
<1>4. ASSUME NEW p \in Pids, AlienStarts(p) \/ AlienEnds(p) PROVE PoolDaemonTypeOK'
  BY <1>4 DEF AlienStarts, AlienEnds
<1>5. CASE UNCHANGED vars
  BY <1>5 DEF vars
<1>6. QED
  BY <1>1, <1>2, <1>3, <1>4, <1>5 DEF Next

\* Only the holder of the flock writes server.pid.
LEMMA RecordedStep ==
    PoolDaemonTypeOK /\ Recorded /\ [Next]_vars => Recorded'
<1> SUFFICES ASSUME PoolDaemonTypeOK /\ Recorded, [Next]_vars PROVE Recorded'
  OBVIOUS
<1> USE DEF daemonVars, idleVars, alienVars, launchVars, stopVars,
        PoolDaemonTypeOK, Recorded, Up
<1>1. ASSUME NEW d \in Daemons, DaemonStep(d) PROVE Recorded'
  <2>1. CASE \E p \in Pids : Acquire(d, p)
    BY <2>1 DEF Acquire
  <2>2. CASE Record(d) \/ StartPool(d)
    BY <2>2 DEF Record, StartPool
  <2>3. CASE Reap(d) \/ TermArm(d)
    BY <2>3 DEF Reap, TermArm, SignalPoolLaunchers
  <2>4. CASE Exit(d) \/ Crash(d)
    BY <2>4 DEF Exit, Crash, Dies, Missing
  <2>5. CASE \/ Connect(d) \/ Disconnect(d)
             \/ (\E l \in Launchers : Reserve(d, l)) \/ IdleTick(d) \/ IdleExit(d)
    BY <2>5 DEF Connect, Disconnect, Reserve, IdleTick, IdleExit
  <2>6. QED
    BY <1>1, <2>1, <2>2, <2>3, <2>4, <2>5 DEF DaemonStep
<1>2. ASSUME NEW l \in Launchers, LauncherStep(l) PROVE Recorded'
  BY <1>2 DEF LauncherStep, Claim, Spawn, DialFails, WriteState, ReadNews, ExitSeen,
     Cleanup, AgentEnds
<1>3. ASSUME NEW s \in Stops, StopStep(s) PROVE Recorded'
  <2>1. CASE Escalate(s)
    BY <2>1 DEF Escalate, Dies, Missing, StopGoes
  <2>2. CASE SignalLeftovers(s)
    BY <2>2 DEF SignalLeftovers, SignalPoolLaunchers, StopGoes
  <2>3. CASE Find(s) \/ SendTerm(s) \/ SeeExit(s) \/ Drained(s) \/ GiveUp(s)
    BY <2>3 DEF Find, SendTerm, SeeExit, Drained, GiveUp, StopGoes
  <2>4. QED
    BY <1>3, <2>1, <2>2, <2>3 DEF StopStep
<1>4. ASSUME NEW p \in Pids, AlienStarts(p) \/ AlienEnds(p) PROVE Recorded'
  BY <1>4 DEF AlienStarts, AlienEnds
<1>5. CASE UNCHANGED vars
  BY <1>5 DEF vars
<1>6. QED
  BY <1>1, <1>2, <1>3, <1>4, <1>5 DEF Next

\* A daemon that serves goes on serving, or leaves.
LEMMA MintedStep ==
    PoolDaemonTypeOK /\ Minted /\ [Next]_vars => Minted'
<1> SUFFICES ASSUME PoolDaemonTypeOK /\ Minted, [Next]_vars PROVE Minted'
  OBVIOUS
<1> USE DEF daemonVars, idleVars, alienVars, launchVars, stopVars,
        PoolDaemonTypeOK, Minted, Up, Listed
<1>1. ASSUME NEW d \in Daemons, DaemonStep(d) PROVE Minted'
  <2>1. CASE \E p \in Pids : Acquire(d, p)
    BY <2>1 DEF Acquire
  <2>2. CASE Record(d) \/ StartPool(d)
    BY <2>2 DEF Record, StartPool
  <2>3. CASE Reap(d) \/ TermArm(d)
    BY <2>3 DEF Reap, TermArm, SignalPoolLaunchers
  <2>4. CASE Exit(d) \/ Crash(d)
    BY <2>4 DEF Exit, Crash, Dies, Missing
  <2>5. CASE \/ Connect(d) \/ Disconnect(d)
             \/ (\E l \in Launchers : Reserve(d, l)) \/ IdleTick(d) \/ IdleExit(d)
    BY <2>5 DEF Connect, Disconnect, Reserve, IdleTick, IdleExit
  <2>6. QED
    BY <1>1, <2>1, <2>2, <2>3, <2>4, <2>5 DEF DaemonStep
<1>2. ASSUME NEW l \in Launchers, LauncherStep(l) PROVE Minted'
  BY <1>2 DEF LauncherStep, Claim, Spawn, DialFails, WriteState, ReadNews, ExitSeen,
     Cleanup, AgentEnds
<1>3. ASSUME NEW s \in Stops, StopStep(s) PROVE Minted'
  <2>1. CASE Escalate(s)
    BY <2>1 DEF Escalate, Dies, Missing, StopGoes
  <2>2. CASE SignalLeftovers(s)
    BY <2>2 DEF SignalLeftovers, SignalPoolLaunchers, StopGoes
  <2>3. CASE Find(s) \/ SendTerm(s) \/ SeeExit(s) \/ Drained(s) \/ GiveUp(s)
    BY <2>3 DEF Find, SendTerm, SeeExit, Drained, GiveUp, StopGoes
  <2>4. QED
    BY <1>3, <2>1, <2>2, <2>3 DEF StopStep
<1>4. ASSUME NEW p \in Pids, AlienStarts(p) \/ AlienEnds(p) PROVE Minted'
  BY <1>4 DEF AlienStarts, AlienEnds
<1>5. CASE UNCHANGED vars
  BY <1>5 DEF vars
<1>6. QED
  BY <1>1, <1>2, <1>3, <1>4, <1>5 DEF Next

\* A daemon's end is the end of what is starting in its pool.
LEMMA HostedStep ==
    PoolDaemonTypeOK /\ Hosted /\ [Next]_vars => Hosted'
<1> SUFFICES ASSUME PoolDaemonTypeOK /\ Hosted, [Next]_vars PROVE Hosted'
  OBVIOUS
<1> USE DEF daemonVars, idleVars, alienVars, launchVars, stopVars,
        PoolDaemonTypeOK, Hosted, Up, Pooled, Listed
<1>1. ASSUME NEW d \in Daemons, DaemonStep(d) PROVE Hosted'
  <2>1. CASE \E p \in Pids : Acquire(d, p)
    BY <2>1 DEF Acquire
  <2>2. CASE Record(d) \/ StartPool(d)
    BY <2>2 DEF Record, StartPool
  <2>3. CASE Reap(d) \/ TermArm(d)
    BY <2>3 DEF Reap, TermArm, SignalPoolLaunchers
  <2>4. CASE Exit(d) \/ Crash(d)
    BY <2>4 DEF Exit, Crash, Dies, Missing
  <2>5. CASE \/ Connect(d) \/ Disconnect(d)
             \/ (\E l \in Launchers : Reserve(d, l)) \/ IdleTick(d) \/ IdleExit(d)
    BY <2>5 DEF Connect, Disconnect, Reserve, IdleTick, IdleExit
  <2>6. QED
    BY <1>1, <2>1, <2>2, <2>3, <2>4, <2>5 DEF DaemonStep
<1>2. ASSUME NEW l \in Launchers, LauncherStep(l) PROVE Hosted'
  BY <1>2 DEF LauncherStep, Claim, Spawn, DialFails, WriteState, ReadNews, ExitSeen,
     Cleanup, AgentEnds
<1>3. ASSUME NEW s \in Stops, StopStep(s) PROVE Hosted'
  <2>1. CASE Escalate(s)
    BY <2>1 DEF Escalate, Dies, Missing, StopGoes
  <2>2. CASE SignalLeftovers(s)
    BY <2>2 DEF SignalLeftovers, SignalPoolLaunchers, StopGoes
  <2>3. CASE Find(s) \/ SendTerm(s) \/ SeeExit(s) \/ Drained(s) \/ GiveUp(s)
    BY <2>3 DEF Find, SendTerm, SeeExit, Drained, GiveUp, StopGoes
  <2>4. QED
    BY <1>3, <2>1, <2>2, <2>3 DEF StopStep
<1>4. ASSUME NEW p \in Pids, AlienStarts(p) \/ AlienEnds(p) PROVE Hosted'
  BY <1>4 DEF AlienStarts, AlienEnds
<1>5. CASE UNCHANGED vars
  BY <1>5 DEF vars
<1>6. QED
  BY <1>1, <1>2, <1>3, <1>4, <1>5 DEF Next

\* A daemon keeps its pid, and nobody else gets it while it is up.
LEMMA PursuedStep ==
    PoolDaemonTypeOK /\ Pursued /\ [Next]_vars => Pursued'
<1> SUFFICES ASSUME PoolDaemonTypeOK /\ Pursued, [Next]_vars PROVE Pursued'
  OBVIOUS
<1> USE PoolDaemonAssumption
    DEF daemonVars, idleVars, alienVars, launchVars, stopVars,
        PoolDaemonTypeOK, Pursued, Up, Alive
<1>1. ASSUME NEW d \in Daemons, DaemonStep(d) PROVE Pursued'
  <2>1. CASE \E p \in Pids : Acquire(d, p)
    BY <2>1 DEF Acquire
  <2>2. CASE Record(d) \/ StartPool(d)
    BY <2>2 DEF Record, StartPool
  <2>3. CASE Reap(d) \/ TermArm(d)
    BY <2>3 DEF Reap, TermArm, SignalPoolLaunchers
  <2>4. CASE Exit(d) \/ Crash(d)
    BY <2>4 DEF Exit, Crash, Dies, Missing
  <2>5. CASE \/ Connect(d) \/ Disconnect(d)
             \/ (\E l \in Launchers : Reserve(d, l)) \/ IdleTick(d) \/ IdleExit(d)
    BY <2>5 DEF Connect, Disconnect, Reserve, IdleTick, IdleExit
  <2>6. QED
    BY <1>1, <2>1, <2>2, <2>3, <2>4, <2>5 DEF DaemonStep
<1>2. ASSUME NEW l \in Launchers, LauncherStep(l) PROVE Pursued'
  BY <1>2 DEF LauncherStep, Claim, Spawn, DialFails, WriteState, ReadNews, ExitSeen,
     Cleanup, AgentEnds
<1>3. ASSUME NEW s \in Stops, StopStep(s) PROVE Pursued'
  <2>1. CASE Find(s)
    BY <2>1 DEF Find, StopGoes
  <2>2. CASE SeeExit(s)
    BY <2>2 DEF SeeExit, StopGoes
  <2>3. CASE Escalate(s)
    BY <2>3 DEF Escalate, Dies, Missing, StopGoes
  <2>4. CASE SendTerm(s) \/ Drained(s) \/ SignalLeftovers(s) \/ GiveUp(s)
    BY <2>4 DEF SendTerm, Drained, SignalLeftovers, GiveUp, StopGoes, SignalPoolLaunchers
  <2>5. QED
    BY <1>3, <2>1, <2>2, <2>3, <2>4 DEF StopStep
<1>4. ASSUME NEW p \in Pids, AlienStarts(p) \/ AlienEnds(p) PROVE Pursued'
  BY <1>4 DEF AlienStarts, AlienEnds
<1>5. CASE UNCHANGED vars
  BY <1>5 DEF vars
<1>6. QED
  BY <1>1, <1>2, <1>3, <1>4, <1>5 DEF Next

\* Once no session is listed and the daemon is dead, none of its pool will be.
LEMMA QuietStep ==
    PoolDaemonTypeOK /\ Hosted /\ Pursued /\ StopIsQuiet /\ [Next]_vars => StopIsQuiet'
<1> SUFFICES ASSUME PoolDaemonTypeOK /\ Hosted /\ Pursued /\ StopIsQuiet, [Next]_vars
      PROVE StopIsQuiet'
  OBVIOUS
<1> USE PoolDaemonAssumption
    DEF daemonVars, idleVars, alienVars, launchVars, stopVars,
        PoolDaemonTypeOK, Hosted, Pursued, StopIsQuiet, Up, Listed, ListedNow, Pooled
<1>1. ASSUME NEW d \in Daemons, DaemonStep(d) PROVE StopIsQuiet'
  <2>1. CASE \E p \in Pids : Acquire(d, p)
    BY <2>1 DEF Acquire
  <2>2. CASE Record(d) \/ StartPool(d)
    BY <2>2 DEF Record, StartPool
  <2>3. CASE Reap(d) \/ TermArm(d)
    BY <2>3 DEF Reap, TermArm, SignalPoolLaunchers
  <2>4. CASE Exit(d) \/ Crash(d)
    BY <2>4 DEF Exit, Crash, Dies, Missing
  <2>5. CASE \/ Connect(d) \/ Disconnect(d)
             \/ (\E l \in Launchers : Reserve(d, l)) \/ IdleTick(d) \/ IdleExit(d)
    BY <2>5 DEF Connect, Disconnect, Reserve, IdleTick, IdleExit
  <2>6. QED
    BY <1>1, <2>1, <2>2, <2>3, <2>4, <2>5 DEF DaemonStep
<1>2. ASSUME NEW l \in Launchers, LauncherStep(l) PROVE StopIsQuiet'
  <2>1. CASE \E d \in Daemons : Spawn(l, d)
    BY <2>1 DEF Spawn
  <2>2. CASE WriteState(l)
    BY <2>2 DEF WriteState
  <2>3. CASE \/ Claim(l) \/ DialFails(l) \/ ReadNews(l) \/ ExitSeen(l)
             \/ Cleanup(l) \/ AgentEnds(l)
    BY <2>3 DEF Claim, DialFails, ReadNews, ExitSeen, Cleanup, AgentEnds
  <2>4. QED
    BY <1>2, <2>1, <2>2, <2>3 DEF LauncherStep
<1>3. ASSUME NEW s \in Stops, StopStep(s) PROVE StopIsQuiet'
  <2>1. CASE Find(s)
    BY <2>1 DEF Find, StopGoes
  <2>2. CASE Drained(s)
    BY <2>2 DEF Drained, StopGoes
  <2>3. CASE Escalate(s)
    BY <2>3 DEF Escalate, Dies, Missing, StopGoes
  <2>4. CASE SignalLeftovers(s)
    BY <2>4 DEF SignalLeftovers, SignalPoolLaunchers, StopGoes
  <2>5. CASE SendTerm(s) \/ SeeExit(s) \/ GiveUp(s)
    BY <2>5 DEF SendTerm, SeeExit, GiveUp, StopGoes
  <2>6. QED
    BY <1>3, <2>1, <2>2, <2>3, <2>4, <2>5 DEF StopStep
<1>4. ASSUME NEW p \in Pids, AlienStarts(p) \/ AlienEnds(p) PROVE StopIsQuiet'
  BY <1>4 DEF AlienStarts, AlienEnds
<1>5. CASE UNCHANGED vars
  BY <1>5 DEF vars
<1>6. QED
  BY <1>1, <1>2, <1>3, <1>4, <1>5 DEF Next

\* The inductive invariant holds in every state of every instance.
THEOREM DaemonInvariant == Spec => []Inv
<1>1. Inv /\ [Next]_vars => Inv'
  BY TypeStep, RecordedStep, MintedStep, HostedStep, PursuedStep, QuietStep DEF Inv
<1>2. QED
  BY DaemonInit, <1>1, PTL DEF Spec

\* The daemons' state keeps its type, and the one daemon that is up holds the
\* flock of server.pid.
THEOREM DaemonTypeCorrect == Spec => []PoolDaemonTypeOK
<1>1. Inv => PoolDaemonTypeOK
  BY DEF Inv
<1>2. QED
  BY DaemonInvariant, <1>1, PTL

\* While a daemon has a pool, server.pid names it, whatever other daemons were
\* killed or stopped before.
THEOREM PoolsAreRecorded == Spec => []PoolIsRecorded
<1>1. Inv => PoolIsRecorded
  BY DEF Inv, Recorded, PoolIsRecorded, Pooled
<1>2. QED
  BY DaemonInvariant, <1>1, PTL

\* However many stops, daemons and recycled pids there are, a stop that
\* succeeded has left nothing of the daemon it found, its sessions included.
THEOREM StopsAreQuiet == Spec => []StopIsQuiet
<1>1. Inv => StopIsQuiet
  BY DEF Inv
<1>2. QED
  BY DaemonInvariant, <1>1, PTL

\* One step.  Only prune_pending takes a reservation that is not claimed, and
\* who prunes holds the flock, so that its minter is dead.
LEMMA ReservationStep ==
    Inv /\ [Next]_vars =>
        \A l \in Launchers : launch[l] = "reserved" /\ launch'[l] # "reserved" =>
            launch'[l] = "claimed" \/ ~Up(minter[l])
<1> SUFFICES ASSUME Inv, [Next]_vars, NEW l \in Launchers,
                    launch[l] = "reserved", launch'[l] # "reserved"
             PROVE  launch'[l] = "claimed" \/ ~Up(minter[l])
  OBVIOUS
<1>1. /\ PoolDaemonTypeOK
      /\ minter[l] \in Daemons
      /\ phase[minter[l]] \in {"serving", "exiting", "idling", "dead"}
  BY DEF Inv, Minted
<1> USE <1>1 DEF daemonVars, idleVars, alienVars, launchVars, stopVars,
        PoolDaemonTypeOK, Up, Listed
<1>2. ASSUME NEW d \in Daemons, DaemonStep(d) PROVE launch'[l] = "claimed" \/ ~Up(minter[l])
  <2>1. CASE StartPool(d)
    BY <2>1 DEF StartPool
  <2>2. CASE Reap(d) \/ TermArm(d)
    BY <2>2 DEF Reap, TermArm, SignalPoolLaunchers
  <2>3. CASE Exit(d) \/ Crash(d)
    BY <2>3 DEF Exit, Crash, Dies
  <2>4. CASE \E k \in Launchers : Reserve(d, k)
    BY <2>4 DEF Reserve
  <2>5. CASE \/ \E p \in Pids : Acquire(d, p)
             \/ Record(d) \/ Connect(d) \/ Disconnect(d) \/ IdleTick(d) \/ IdleExit(d)
    BY <2>5 DEF Acquire, Record, Connect, Disconnect, IdleTick, IdleExit
  <2>6. QED
    BY <1>2, <2>1, <2>2, <2>3, <2>4, <2>5 DEF DaemonStep
<1>3. ASSUME NEW k \in Launchers, LauncherStep(k) PROVE launch'[l] = "claimed" \/ ~Up(minter[l])
  BY <1>3 DEF LauncherStep, Claim, Spawn, DialFails, WriteState, ReadNews, ExitSeen, Cleanup,
     AgentEnds
<1>4. ASSUME NEW s \in Stops, StopStep(s) PROVE launch'[l] = "claimed" \/ ~Up(minter[l])
  BY <1>4 DEF StopStep, Find, SendTerm, SeeExit, Escalate, Drained, SignalLeftovers, GiveUp,
     SignalPoolLaunchers, Dies
<1>5. ASSUME NEW p \in Pids, AlienStarts(p) \/ AlienEnds(p)
      PROVE  launch'[l] = "claimed" \/ ~Up(minter[l])
  BY <1>5 DEF AlienStarts, AlienEnds
<1>6. CASE UNCHANGED vars
  BY <1>6 DEF vars
<1>7. QED
  BY <1>2, <1>3, <1>4, <1>5, <1>6 DEF Next

\* A reservation is the next attach's until it is claimed or its daemon is dead,
\* however many daemons start meanwhile.
THEOREM ReservationsAreKept == Spec => ReservationIsKept
<1>1. Inv /\ [Next]_vars =>
        [\A l \in Launchers : launch[l] = "reserved" /\ launch'[l] # "reserved" =>
           launch'[l] = "claimed" \/ ~Up(minter[l])]_vars
  BY ReservationStep
<1>2. QED
  BY DaemonInvariant, <1>1, PTL DEF Spec, ReservationIsKept
=============================================================================
