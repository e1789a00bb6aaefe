----------------------------- MODULE PoolDaemon -----------------------------
(***************************************************************************)
(* The life of the host's daemon, which is also its pty pool:              *)
(* crates/cm-server/src/server.rs (ensure, run_daemon, serve, stop), the   *)
(* reservations it makes and prunes (server_pool.rs), and the launchers    *)
(* that run in it and watch it (cm-core/src/launcher.rs,                   *)
(* launcher/daemon_watch.rs).  Any number of `ensure` and `stop` processes *)
(* run beside it, kernels give a dead daemon's pid to another process, and *)
(* a daemon may be killed at any point.                                    *)
(*                                                                         *)
(* A launcher stands for one session from its reservation on; its pool     *)
(* name is its minter's pid and a sequence number.                         *)
(***************************************************************************)
EXTENDS Naturals

CONSTANTS
    Pids,       \* process ids a daemon may get
    Daemons,    \* incarnations of the daemon
    Launchers,  \* sessions
    Stops,      \* `daemon stop` processes
    Forced,     \* those of them that have --force
    MaxAliens,  \* bound: times an unrelated process takes a free pid
    None

ASSUME PoolDaemonAssumption ==
    /\ Forced \subseteq Stops
    /\ MaxAliens \in Nat
    /\ None \notin Pids /\ None \notin Daemons

VARIABLES
    phase,    \* how far a daemon is in its life
    pid,      \* its process id
    lock,     \* who holds the flock on server.pid
    pidFile,  \* what server.pid says
    aliens,   \* pids in use by processes that are no daemon
    born,     \* how many aliens there have been
    term,     \* daemons with a SIGTERM to handle
    client,   \* daemons a dashboard is connected to
    idle,     \* daemons whose watchdog has idle_since set
    quiet,    \* those of them that have had no client and no session since
    launch,   \* how far a session is
    minter,   \* the daemon that reserved it
    host,     \* the daemon in whose pool its pty is
    watched,  \* launchers whose watch is on their minter itself
    news,     \* launchers with an unread change of server.pid
    stop,     \* where a stop process is
    target,   \* the pid it found
    found,    \* the daemon that had that pid, if one had
    wronged   \* who has been signalled without being a leftover

daemonVars == <<phase, pid, lock, pidFile, term>>
idleVars   == <<client, idle, quiet>>
alienVars  == <<aliens, born>>
launchVars == <<launch, minter, host, watched, news>>
stopVars   == <<stop, target, found>>
vars == <<daemonVars, idleVars, alienVars, launchVars, stopVars, wronged>>

Up(d)      == phase[d] \notin {"unborn", "dead"}
Pooled(d)  == phase[d] \in {"pooled", "serving", "exiting", "idling"}
Alive(p)   == p \in aliens \/ \E d \in Daemons : Up(d) /\ pid[d] = p
Listed(l)  == launch[l] \in {"up", "stopping"}   \* has a state file, is alive
ListedNow  == {l \in Launchers : Listed(l)}

\* The values the state takes; and the lock is held by the one daemon there is.
PoolDaemonTypeOK ==
    /\ phase \in [Daemons -> {"unborn", "locked", "recorded", "pooled", "serving",
                              "exiting", "idling", "dead"}]
    /\ pid \in [Daemons -> Pids \cup {None}]
    /\ lock \in Daemons \cup {None}
    /\ pidFile \in Pids \cup {None}
    /\ aliens \subseteq Pids /\ born \in 0..MaxAliens
    /\ term \subseteq Daemons /\ client \subseteq Daemons
    /\ idle \subseteq Daemons /\ quiet \subseteq Daemons
    /\ launch \in [Launchers -> {"unused", "reserved", "claimed", "starting", "up",
                                 "stopping", "gone", "lost"}]
    /\ minter \in [Launchers -> Daemons \cup {None}]
    /\ host \in [Launchers -> Daemons \cup {None}]
    /\ watched \subseteq Launchers /\ news \subseteq Launchers
    /\ stop \in [Stops -> {"idle", "found", "exiting", "killed", "draining", "signalled",
                           "ok", "none", "refused", "failed"}]
    /\ target \in [Stops -> Pids \cup {None}]
    /\ found \in [Stops -> Daemons \cup {None}]
    /\ wronged \subseteq Launchers \cup Stops
    /\ \A d \in Daemons : lock = d <=> Up(d)

Init ==
    /\ phase = [d \in Daemons |-> "unborn"] /\ pid = [d \in Daemons |-> None]
    /\ lock = None /\ pidFile = None /\ term = {}
    /\ aliens = {} /\ born = 0
    /\ client = {} /\ idle = {} /\ quiet = {}
    /\ launch = [l \in Launchers |-> "unused"]
    /\ minter = [l \in Launchers |-> None] /\ host = [l \in Launchers |-> None]
    /\ watched = {} /\ news = {}
    /\ stop = [s \in Stops |-> "idle"] /\ target = [s \in Stops |-> None]
    /\ found = [s \in Stops |-> None]
    /\ wronged = {}

(***************************************************************************)
(* Signals and deaths                                                      *)
(***************************************************************************)
\* signal_pool_launchers: SIGTERM to every live launcher whose file names a
\* pool session.  A leftover is one whose daemon is over or was asked to stop.
Leftover(l) == ~Up(minter[l]) \/ minter[l] \in term \/ phase[minter[l]] = "exiting"

SignalPoolLaunchers ==
    /\ launch' = [l \in Launchers |-> IF Listed(l) THEN "stopping" ELSE launch[l]]
    /\ wronged' = wronged \cup {l \in ListedNow : launch[l] = "up" /\ ~Leftover(l)}

\* A daemon's process ends: the flock goes with it, and its pty masters close.
\* The hangup kills a launcher that has no handler yet; one that has a handler
\* may miss it.
Dies(d, missed) ==
    /\ phase' = [phase EXCEPT ![d] = "dead"]
    /\ lock' = IF lock = d THEN None ELSE lock
    /\ term' = term \ {d} /\ client' = client \ {d}
    /\ idle' = idle \ {d} /\ quiet' = quiet \ {d}
    /\ launch' = [l \in Launchers |->
                    CASE host[l] = d /\ launch[l] = "starting"              -> "gone"
                      [] host[l] = d /\ launch[l] = "up" /\ l \notin missed -> "stopping"
                      [] OTHER                                              -> launch[l]]
    /\ UNCHANGED <<pid, pidFile, minter, host, watched, news>>

Missing == SUBSET {l \in Launchers : launch[l] = "up"}

(***************************************************************************)
(* ensure and run_daemon                                                   *)
(***************************************************************************)
\* An ensure gets the lock and daemonizes.  One that does not get it waits for
\* the holder's sockets and changes nothing (acquire_singleton_lock, ensure).
Acquire(d, p) ==
    /\ phase[d] = "unborn" /\ lock = None
    /\ ~Alive(p)
    /\ lock' = d
    /\ phase' = [phase EXCEPT ![d] = "locked"] /\ pid' = [pid EXCEPT ![d] = p]
    /\ UNCHANGED <<pidFile, term, idleVars, alienVars, launchVars, stopVars, wronged>>

\* run_daemon writes server.pid, which wakes every launcher's watch of it.
Record(d) ==
    /\ phase[d] = "locked"
    /\ phase' = [phase EXCEPT ![d] = "recorded"] /\ pidFile' = pid[d]
    /\ news' = ListedNow
    /\ UNCHANGED <<pid, lock, term, idleVars, alienVars, launch, minter, host, watched,
                   stopVars, wronged>>

\* A mutant: the pool is started before the pid is written.
StartPool_First(d) ==
    /\ phase[d] = "locked"
    /\ phase' = [phase EXCEPT ![d] = "pooled"]
    /\ launch' = [l \in Launchers |-> IF launch[l] = "reserved" THEN "lost" ELSE launch[l]]
    /\ UNCHANGED <<pid, lock, pidFile, term, idleVars, alienVars, minter, host, watched, news,
                   stopVars, wronged>>

\* start_pool_thread: prune_pending, then the pool's socket is bound.
StartPool(d) ==
    /\ phase[d] = "recorded"
    /\ phase' = [phase EXCEPT ![d] = "pooled"]
    /\ launch' = [l \in Launchers |-> IF launch[l] = "reserved" THEN "lost" ELSE launch[l]]
    /\ UNCHANGED <<pid, lock, pidFile, term, idleVars, alienVars, minter, host, watched, news,
                   stopVars, wronged>>

\* reap_previous_pool_launchers, then serve binds the control socket.
Reap(d) ==
    /\ phase[d] = "pooled"
    /\ phase' = [phase EXCEPT ![d] = "serving"]
    /\ SignalPoolLaunchers
    /\ UNCHANGED <<pid, lock, pidFile, term, idleVars, alienVars, minter, host, watched, news,
                   stopVars>>

(***************************************************************************)
(* serve                                                                   *)
(***************************************************************************)
Connect(d) ==
    /\ phase[d] = "serving" /\ d \notin client
    /\ client' = client \cup {d} /\ quiet' = quiet \ {d}
    /\ UNCHANGED <<daemonVars, idle, alienVars, launchVars, stopVars, wronged>>

Disconnect(d) ==
    /\ d \in client
    /\ client' = client \ {d}
    /\ UNCHANGED <<daemonVars, idle, quiet, alienVars, launchVars, stopVars, wronged>>

\* open_in_pool, for a client: mint a name and write its reservation.
Reserve(d, l) ==
    /\ phase[d] = "serving" /\ d \in client
    /\ launch[l] = "unused"
    /\ launch' = [launch EXCEPT ![l] = "reserved"] /\ minter' = [minter EXCEPT ![l] = d]
    /\ UNCHANGED <<daemonVars, idleVars, alienVars, host, watched, news, stopVars, wronged>>

\* The watchdog samples: a busy host clears idle_since, a quiet one sets it.
Busy(d) == d \in client \/ ListedNow # {}

IdleTick(d) ==
    /\ phase[d] = "serving"
    /\ IF Busy(d) THEN /\ idle' = idle \ {d} /\ quiet' = quiet \ {d}
                  ELSE /\ d \notin idle
                       /\ idle' = idle \cup {d} /\ quiet' = quiet \cup {d}
    /\ UNCHANGED <<daemonVars, client, alienVars, launchVars, stopVars, wronged>>

\* A tick at which idle_since is IDLE_GRACE old: serve returns.
IdleExit(d) ==
    /\ phase[d] = "serving" /\ d \in idle
    /\ ~Busy(d)
    /\ phase' = [phase EXCEPT ![d] = "idling"]
    /\ UNCHANGED <<pid, lock, pidFile, term, idleVars, alienVars, launchVars, stopVars, wronged>>

\* A mutant: a daemon that leaves tidies its reservations.
TermArm_Prunes(d) ==
    /\ phase[d] = "serving" /\ d \in term
    /\ phase' = [phase EXCEPT ![d] = "exiting"]
    /\ launch' = [l \in Launchers |-> IF launch[l] = "reserved" THEN "lost" ELSE launch[l]]
    /\ UNCHANGED <<pid, lock, pidFile, term, idleVars, alienVars, minter, host, watched, news,
                   stopVars, wronged>>

\* The SIGTERM arm of serve: signal the launchers, and return.
TermArm(d) ==
    /\ phase[d] = "serving" /\ d \in term
    /\ phase' = [phase EXCEPT ![d] = "exiting"]
    /\ SignalPoolLaunchers
    /\ UNCHANGED <<pid, lock, pidFile, term, idleVars, alienVars, minter, host, watched, news,
                   stopVars>>

\* The process ends: serve returned, or SIGTERM's default action, or libshpool's
\* own handler, which exits.
Exit(d) ==
    /\ phase[d] \in {"exiting", "idling"} \/ (Up(d) /\ d \in term)
    /\ \E missed \in Missing : Dies(d, missed)
    /\ UNCHANGED <<alienVars, stopVars, wronged>>

\* Killed, with nothing of its own run.
Crash(d) ==
    /\ Up(d)
    /\ \E missed \in Missing : Dies(d, missed)
    /\ UNCHANGED <<alienVars, stopVars, wronged>>

\* An unrelated process gets a pid, and ends.
AlienStarts(p) ==
    /\ ~Alive(p) /\ born < MaxAliens
    /\ aliens' = aliens \cup {p} /\ born' = born + 1
    /\ UNCHANGED <<daemonVars, idleVars, launchVars, stopVars, wronged>>

AlienEnds(p) ==
    /\ p \in aliens
    /\ aliens' = aliens \ {p}
    /\ UNCHANGED <<daemonVars, idleVars, born, launchVars, stopVars, wronged>>

(***************************************************************************)
(* Sessions                                                                *)
(***************************************************************************)
\* The first attach claims the reservation and dials whatever pool there is.
Claim(l) ==
    /\ launch[l] = "reserved"
    /\ launch' = [launch EXCEPT ![l] = "claimed"]
    /\ UNCHANGED <<daemonVars, idleVars, alienVars, minter, host, watched, news, stopVars,
                   wronged>>

Spawn(l, d) ==
    /\ launch[l] = "claimed"
    /\ Pooled(d)
    /\ launch' = [launch EXCEPT ![l] = "starting"] /\ host' = [host EXCEPT ![l] = d]
    /\ quiet' = quiet \ {d}
    /\ UNCHANGED <<daemonVars, client, idle, alienVars, minter, watched, news, stopVars, wronged>>

DialFails(l) ==
    /\ launch[l] = "claimed"
    /\ launch' = [launch EXCEPT ![l] = "lost"]
    /\ UNCHANGED <<daemonVars, idleVars, alienVars, minter, host, watched, news, stopVars,
                   wronged>>

\* minting_pool_daemon_is_gone, with what server.pid says.
MintingGone(l) ==
    \/ ~Alive(pid[minter[l]])
    \/ pidFile # None /\ pidFile # pid[minter[l]] /\ Alive(pidFile)

\* The launcher writes its file and starts its watch: a read of server.pid and a
\* handle on whatever process has the minting pid.
WriteState(l) ==
    /\ launch[l] = "starting"
    /\ launch' = [launch EXCEPT ![l] = "up"]
    /\ watched' = IF Up(minter[l]) THEN watched \cup {l} ELSE watched
    /\ news' = news \cup {l}
    /\ UNCHANGED <<daemonVars, idleVars, alienVars, minter, host, stopVars, wronged>>

\* wait_with: server.pid changed; read it and decide.
ReadNews(l) ==
    /\ launch[l] = "up" /\ l \in news
    /\ news' = news \ {l}
    /\ launch' = IF MintingGone(l) THEN [launch EXCEPT ![l] = "stopping"] ELSE launch
    /\ UNCHANGED <<daemonVars, idleVars, alienVars, minter, host, watched, stopVars, wronged>>

\* A mutant: the watch hears of server.pid alone, and a crash does not rewrite it.
ExitSeen_FileOnly(l) == FALSE /\ l \in news /\ UNCHANGED vars

\* process_exited: the process the watch has a handle on is over.
ExitSeen(l) ==
    /\ launch[l] = "up"
    /\ IF l \in watched THEN ~Up(minter[l]) ELSE ~Alive(pid[minter[l]])
    /\ launch' = [launch EXCEPT ![l] = "stopping"]
    /\ UNCHANGED <<daemonVars, idleVars, alienVars, minter, host, watched, news, stopVars,
                   wronged>>

\* supervise stops the agent, cleanup_launcher_files removes the row.
Cleanup(l) ==
    /\ launch[l] = "stopping"
    /\ launch' = [launch EXCEPT ![l] = "gone"]
    /\ news' = news \ {l}
    /\ UNCHANGED <<daemonVars, idleVars, alienVars, minter, host, watched, stopVars, wronged>>

\* The agent exits on its own, or the user ends it.
AgentEnds(l) ==
    /\ launch[l] = "up"
    /\ launch' = [launch EXCEPT ![l] = "stopping"]
    /\ UNCHANGED <<daemonVars, idleVars, alienVars, minter, host, watched, news, stopVars,
                   wronged>>

(***************************************************************************)
(* stop                                                                    *)
(***************************************************************************)
StopGoes(s, to) == stop' = [stop EXCEPT ![s] = to]

\* running_pid, and the guard on live sessions.
Find(s) ==
    /\ stop[s] = "idle"
    /\ IF pidFile = None \/ ~Alive(pidFile)
       THEN StopGoes(s, "none") /\ UNCHANGED <<target, found>>
       ELSE /\ StopGoes(s, IF ListedNow # {} /\ s \notin Forced THEN "refused" ELSE "found")
            /\ target' = [target EXCEPT ![s] = pidFile]
            /\ \/ \E d \in Daemons : Up(d) /\ pid[d] = pidFile /\ found' = [found EXCEPT ![s] = d]
               \/ pidFile \in aliens /\ UNCHANGED found
    /\ UNCHANGED <<daemonVars, idleVars, alienVars, launchVars, wronged>>

\* kill(pid, SIGTERM), whoever has the pid by now.
SendTerm(s) ==
    /\ stop[s] = "found"
    /\ StopGoes(s, IF Alive(target[s]) THEN "exiting" ELSE "failed")
    /\ term' = term \cup {d \in Daemons : Up(d) /\ pid[d] = target[s]}
    /\ wronged' = IF target[s] \in aliens THEN wronged \cup {s} ELSE wronged
    /\ UNCHANGED <<phase, pid, lock, pidFile, idleVars, alienVars, launchVars, target, found>>

\* A mutant: stop returns once the daemon is gone.
SeeExit_Done(s) ==
    /\ stop[s] \in {"exiting", "killed"}
    /\ ~Alive(target[s])
    /\ StopGoes(s, "ok")
    /\ UNCHANGED <<daemonVars, idleVars, alienVars, launchVars, target, found, wronged>>

SeeExit(s) ==
    /\ stop[s] \in {"exiting", "killed"}
    /\ ~Alive(target[s])
    /\ StopGoes(s, "draining")
    /\ UNCHANGED <<daemonVars, idleVars, alienVars, launchVars, target, found, wronged>>

\* STOP_GRACE runs out: SIGKILL, once; then give up.
Escalate(s) ==
    /\ stop[s] = "exiting" /\ Alive(target[s])
    /\ StopGoes(s, "killed")
    /\ \/ \E d \in Daemons, missed \in Missing :
             Up(d) /\ pid[d] = target[s] /\ Dies(d, missed) /\ UNCHANGED alienVars
       \/ /\ target[s] \in aliens
          /\ aliens' = aliens \ {target[s]}
          /\ UNCHANGED <<daemonVars, idleVars, born, launchVars>>
    /\ UNCHANGED <<target, found, wronged>>

\* Every pooled session is gone.
Drained(s) ==
    /\ stop[s] \in {"draining", "signalled"}
    /\ ListedNow = {}
    /\ StopGoes(s, "ok")
    /\ UNCHANGED <<daemonVars, idleVars, alienVars, launchVars, target, found, wronged>>

\* STOP_GRACE runs out on the sessions: signal them, once; then give up.
SignalLeftovers(s) ==
    /\ stop[s] = "draining" /\ ListedNow # {}
    /\ StopGoes(s, "signalled")
    /\ SignalPoolLaunchers
    /\ UNCHANGED <<daemonVars, idleVars, alienVars, minter, host, watched, news, target, found>>

GiveUp(s) ==
    /\ \/ stop[s] = "killed" /\ Alive(target[s])
       \/ stop[s] = "signalled" /\ ListedNow # {}
    /\ StopGoes(s, "failed")
    /\ UNCHANGED <<daemonVars, idleVars, alienVars, launchVars, target, found, wronged>>

DaemonStep(d) ==
    \/ \E p \in Pids : Acquire(d, p)
    \/ Record(d) \/ StartPool(d) \/ Reap(d)
    \/ Connect(d) \/ Disconnect(d) \/ (\E l \in Launchers : Reserve(d, l))
    \/ IdleTick(d) \/ IdleExit(d) \/ TermArm(d) \/ Exit(d) \/ Crash(d)

LauncherStep(l) ==
    \/ Claim(l) \/ (\E d \in Daemons : Spawn(l, d)) \/ DialFails(l)
    \/ WriteState(l) \/ ReadNews(l) \/ ExitSeen(l) \/ Cleanup(l) \/ AgentEnds(l)

StopStep(s) ==
    \/ Find(s) \/ SendTerm(s) \/ SeeExit(s) \/ Escalate(s) \/ Drained(s) \/ SignalLeftovers(s)
    \/ GiveUp(s)

Next ==
    \/ \E d \in Daemons : DaemonStep(d)
    \/ \E l \in Launchers : LauncherStep(l)
    \/ \E s \in Stops : StopStep(s)
    \/ \E p \in Pids : AlienStarts(p) \/ AlienEnds(p)

Spec == Init /\ [][Next]_vars

\* A launcher handles its signals and its watch, whatever else happens.
FairSpec == Spec /\ \A l \in Launchers :
    WF_vars(Cleanup(l)) /\ WF_vars(ReadNews(l)) /\ WF_vars(ExitSeen(l))

(***************************************************************************)
(* Properties                                                              *)
(***************************************************************************)
\* While a daemon has a pool, server.pid names it: stop, the launchers' watches
\* and a second ensure all find it there (the comment on minting_pool_daemon_is_gone).
PoolIsRecorded == \A d \in Daemons : Pooled(d) => pidFile = pid[d]

\* A reservation of a live daemon goes only by being claimed: the pruning at a
\* daemon's start (prune_pending) takes the dead ones' only.
ReservationIsKept ==
    [][\A l \in Launchers : launch[l] = "reserved" /\ launch'[l] # "reserved" =>
         launch'[l] = "claimed" \/ ~Up(minter[l])]_vars

\* A stop that succeeded leaves no daemon that it found, and no session of that
\* daemon's pool, however the daemon ended (the contract of stop).
StopIsQuiet ==
    \A s \in Stops : stop[s] = "ok" /\ found[s] # None =>
        /\ phase[found[s]] = "dead"
        /\ \A l \in Launchers : host[l] = found[s] => ~Listed(l)

\* A launcher whose name no running daemon minted ends, whether or not a hangup
\* or a signal reached it (launcher.rs, wait_until_minting_daemon_gone), unless a
\* process that is no daemon has taken the minting pid.
Foreign(l) == ~\E d \in Daemons : Up(d) /\ pid[d] = pid[minter[l]]
ForeignEnds ==
    \A l \in Launchers : Listed(l) /\ Foreign(l) ~>
        ~Listed(l) \/ ~Foreign(l) \/ pid[minter[l]] \in aliens

\* Whoever signal_pool_launchers signals is a leftover: its daemon is over, or
\* has been asked to stop (the comment on signal_pool_launchers).
SignalledIsLeftover == wronged \cap Launchers = {}

\* What running_pid returns is a daemon's pid (its own comment), so stop
\* signals nothing else.
StopSignalsDaemon == wronged \cap Stops = {}

\* A daemon that leaves for idleness has had no client and no session for the
\* whole of its grace (docs/remote-sessions.md, Lifecycle).
IdleMeansQuiet == \A d \in Daemons : phase[d] = "idling" => d \in quiet
=============================================================================
