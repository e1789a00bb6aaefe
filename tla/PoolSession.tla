----------------------------- MODULE PoolSession -----------------------------
(***************************************************************************)
(* One name in the pty pool, from its reservation to its end: the attach   *)
(* processes that want it (crates/cm-server/src/pty_pool.rs, run_attach    *)
(* and its guard; server_pool.rs, claim_pending), the pool's threads that  *)
(* serve them (vendor/libshpool/src/daemon/server.rs, handle_attach and    *)
(* select_shell_desc; src/attach.rs, the forced retry) and the hooks that  *)
(* keep the attached bit the daemon serves (pty_pool.rs, PoolHooks).       *)
(*                                                                         *)
(* libshpool has two locks here: `shells`, the table's, held for a look    *)
(* into it, and each session's `inner`, held for as long as a client is    *)
(* attached.  What one thread does under `shells` is one step, unless it   *)
(* waits or calls a hook there.  Each client attaches once.                *)
(***************************************************************************)
EXTENDS Naturals

CONSTANTS
    Clients,      \* attach processes
    Forced,       \* those of them that steal (--force)
    MaxShells,    \* bound: shells the pool spawns under the name
    MaxFailures,  \* bound: attaches and spawns that fail halfway
    None

ASSUME PoolSessionAssumption ==
    /\ Forced \subseteq Clients
    /\ MaxShells \in Nat /\ MaxFailures \in Nat
    /\ None \notin Clients /\ None \notin 1..MaxShells

Shells == 1..MaxShells

VARIABLES
    reserved,   \* is there a pending-sessions record for the name?
    claimed,    \* clients that hold what it said
    pc,         \* where a client, or the thread that serves it, is
    of,         \* the shell that thread works on
    failures,   \* attaches and spawns that failed
    table,      \* the pool's entry for the name, a shell
    shells,     \* who keeps the table's lock across steps
    kind,       \* what runs in a shell: the reserved launcher or a login shell
    running,    \* shells whose child has not exited
    inner,      \* who holds the session's lock
    stream,     \* inner.client_stream: is there one to take?
    live,       \* does a live launcher's state file own the name?
    bit         \* ATTACHED: "unknown" (no entry), "attached" or "free"

clientVars == <<reserved, claimed, pc, of, failures>>
poolVars   == <<table, shells, kind, running, inner, stream>>
vars       == <<clientVars, poolVars, live, bit>>

AtClient == {"start", "claiming", "check", "list", "dial"}
InPool   == {"refusing", "spawn", "spawning", "spawned", "inserted", "waiting", "held",
             "leaving", "detached", "ending", "removing", "releasing"}
Phase    == AtClient \cup InPool \cup {"streaming", "gone"}

\* The values the state takes; and a lock taken is held by a thread that is
\* where it holds one: every way out of a step that locks lets go (the guards
\* of select_shell_desc, ArcMutexGuard in handle_attach).
PoolTypeOK ==
    /\ reserved \in BOOLEAN
    /\ claimed \subseteq Clients
    /\ pc \in [Clients -> Phase]
    /\ of \in [Clients -> Shells \cup {None}]
    /\ failures \in 0..MaxFailures
    /\ table \in Shells \cup {None}
    /\ shells \in Clients \cup {None}
    /\ kind \in [Shells -> {"unused", "launcher", "login"}]
    /\ running \subseteq Shells
    /\ inner \in [Shells -> Clients \cup {None}]
    /\ stream \subseteq Shells
    /\ live \in BOOLEAN
    /\ bit \in {"unknown", "attached", "free"}
    /\ shells # None => pc[shells] \in {"refusing", "waiting"}
    /\ \A s \in Shells : inner[s] # None =>
          /\ of[inner[s]] = s
          /\ pc[inner[s]] \in {"held", "streaming", "leaving", "detached", "ending",
                               "removing", "releasing"}

\* The daemon has answered OpenSession: the name is reserved.
Init ==
    /\ reserved = TRUE
    /\ claimed = {}
    /\ pc = [c \in Clients |-> "start"]
    /\ of = [c \in Clients |-> None]
    /\ failures = 0
    /\ table = None
    /\ shells = None
    /\ kind = [s \in Shells |-> "unused"]
    /\ running = {}
    /\ inner = [s \in Shells |-> None]
    /\ stream = {}
    /\ live = FALSE
    /\ bit = "unknown"

\* A client or its thread goes on, at most to a shell, and touches no more
\* than its step says.
Goes(c, from, to) == pc[c] = from /\ pc' = [pc EXCEPT ![c] = to]

\* What a look into the table finds under the name.
Held  == table # None /\ inner[table] # None
Alive == table # None /\ table \in running

------------------------------------------------------------------------------
(* The attach process: run_attach and its guard *)

\* claim_pending reads the record ...
ReadPending(c) ==
    /\ Goes(c, "start", IF reserved THEN "claiming" ELSE "check")
    /\ UNCHANGED <<reserved, claimed, of, failures, poolVars, live, bit>>

\* ... and only the one who removes it may create.
Claim_ByReading(c) ==
    /\ Goes(c, "claiming", "dial")
    /\ reserved' = FALSE
    /\ claimed' = claimed \cup {c}
    /\ UNCHANGED <<of, failures, poolVars, live, bit>>

Claim(c) ==
    /\ \/ reserved /\ Goes(c, "claiming", "dial") /\ claimed' = claimed \cup {c}
       \/ ~reserved /\ Goes(c, "claiming", "check") /\ UNCHANGED claimed
    /\ reserved' = FALSE
    /\ UNCHANGED <<of, failures, poolVars, live, bit>>

\* guard_plain_reattach: a live launcher must own the name; without one the
\* check is made again for a while, then the attach is refused as stale.
CheckLive(c) ==
    /\ \/ live /\ Goes(c, "check", "list")
       \/ ~live /\ Goes(c, "check", "gone")
    /\ UNCHANGED <<reserved, claimed, of, failures, poolVars, live, bit>>

\* Then the pool's list, which calls a session attached whose lock is taken:
\* stale if the pool has no such session, busy unless the client steals.  (A
\* list that fails for want of a pool is left to the dial, which has no other.)
ListPool(c) ==
    /\ shells = None
    /\ IF table = None \/ (Held /\ c \notin Forced)
       THEN Goes(c, "list", "gone")
       ELSE Goes(c, "list", "dial")
    /\ UNCHANGED <<reserved, claimed, of, failures, poolVars, live, bit>>

\* The window is closed, or the forced retries are used up.  Once its header
\* is read a thread of the pool carries the attach on by itself.
GiveUp_Anywhere(c) ==
    /\ pc[c] # "gone"
    /\ pc' = [pc EXCEPT ![c] = "gone"]
    /\ UNCHANGED <<reserved, claimed, of, failures, poolVars, live, bit>>

GiveUp(c) ==
    /\ pc[c] \in AtClient
    /\ pc' = [pc EXCEPT ![c] = "gone"]
    /\ UNCHANGED <<reserved, claimed, of, failures, poolVars, live, bit>>

------------------------------------------------------------------------------
(* The pool's thread: select_shell_desc *)

\* The session is there, free, and its child runs.
TakeOver(c) ==
    /\ shells = None
    /\ Alive /\ ~Held
    /\ Goes(c, "dial", "held")
    /\ of' = [of EXCEPT ![c] = table]
    /\ inner' = [inner EXCEPT ![table] = c]
    /\ stream' = stream \cup {table}
    /\ bit' = "attached"
    /\ UNCHANGED <<reserved, claimed, failures, table, shells, kind, running, live>>

\* It is held.  The refusal is written, and on_busy called, under the table's
\* lock, which the holder does not need for its own last steps.
FindBusy(c) ==
    /\ shells = None
    /\ Held
    /\ Goes(c, "dial", "refusing")
    /\ shells' = c
    /\ UNCHANGED <<reserved, claimed, of, failures, table, kind, running, inner, stream,
                   live, bit>>

\* A plain client has its answer.  A forced one has the holder detached, once,
\* and dials again; the holder may leave at any time, so nothing is recorded.
CallBusy(c) ==
    /\ Goes(c, "refusing", IF c \in Forced THEN "dial" ELSE "gone")
    /\ shells' = None
    /\ bit' = "attached"
    /\ UNCHANGED <<reserved, claimed, of, failures, table, kind, running, inner, stream, live>>

\* No such session, or one whose child is over: a new one, by that name.
FindNone(c) ==
    /\ shells = None
    /\ ~Held /\ ~Alive
    /\ Goes(c, "dial", "spawn")
    /\ UNCHANGED <<reserved, claimed, of, failures, poolVars, live, bit>>

CallNewSession(c) ==
    /\ Goes(c, "spawn", "spawning")
    /\ bit' = "attached"
    /\ UNCHANGED <<reserved, claimed, of, failures, poolVars, live>>

\* The reserved command, or a bare login shell for a client that has none.
SpawnSubshell(c) ==
    /\ Goes(c, "spawning", "spawned")
    /\ \E s \in Shells :
        /\ kind[s] = "unused" /\ \A t \in 1..(s - 1) : kind[t] # "unused"
        /\ kind' = [kind EXCEPT ![s] = IF c \in claimed THEN "launcher" ELSE "login"]
        /\ running' = running \cup {s}
        /\ stream' = stream \cup {s}
        /\ of' = [of EXCEPT ![c] = s]
    /\ UNCHANGED <<reserved, claimed, failures, table, shells, inner, live, bit>>

SpawnFails(c) ==
    /\ Goes(c, "spawning", "gone")
    /\ failures < MaxFailures
    /\ failures' = failures + 1
    /\ UNCHANGED <<reserved, claimed, of, poolVars, live, bit>>

\* Whatever the table had under the name goes.
InsertSession(c) ==
    /\ shells = None
    /\ Goes(c, "spawned", "inserted")
    /\ table' = of[c]
    /\ UNCHANGED <<reserved, claimed, of, failures, shells, kind, running, inner, stream,
                   live, bit>>

\* The table is looked up again for the session just put there, and its lock
\* is waited for with the table's in hand.
LockNew(c) ==
    /\ shells = None
    /\ of' = [of EXCEPT ![c] = table]
    /\ \/ /\ table = None
          /\ Goes(c, "inserted", "gone")
          /\ UNCHANGED <<shells, inner>>
       \/ /\ table # None /\ ~Held
          /\ Goes(c, "inserted", "held")
          /\ inner' = [inner EXCEPT ![table] = c]
          /\ UNCHANGED shells
       \/ /\ Held
          /\ Goes(c, "inserted", "waiting")
          /\ shells' = c
          /\ UNCHANGED inner
    /\ UNCHANGED <<reserved, claimed, failures, table, kind, running, stream, live, bit>>

LockWaited(c) ==
    /\ Goes(c, "waiting", "held")
    /\ inner[of[c]] = None
    /\ inner' = [inner EXCEPT ![of[c]] = c]
    /\ shells' = None
    /\ UNCHANGED <<reserved, claimed, of, failures, table, kind, running, stream, live, bit>>

------------------------------------------------------------------------------
(* The pool's thread: handle_attach *)

\* bidi_stream takes the client's stream; without one the attach is over.
Begin(c) ==
    /\ LET s == of[c] IN
       \/ s \in stream /\ Goes(c, "held", "streaming") /\ UNCHANGED inner
       \/ s \notin stream /\ Goes(c, "held", "gone") /\ inner' = [inner EXCEPT ![s] = None]
    /\ stream' = stream \ {of[c]}
    /\ UNCHANGED <<reserved, claimed, of, failures, table, shells, kind, running, live, bit>>

\* The agent socket's link or the environment file cannot be written.
PrepareFails(c) ==
    /\ Goes(c, "held", "gone")
    /\ failures < MaxFailures
    /\ failures' = failures + 1
    /\ inner' = [inner EXCEPT ![of[c]] = None]
    /\ UNCHANGED <<reserved, claimed, of, table, shells, kind, running, stream, live, bit>>

\* The client hung up, was detached by another, or its session's child is over.
StreamEnds(c) ==
    /\ \/ Goes(c, "streaming", "leaving")
       \/ of[c] \notin running /\ Goes(c, "streaming", "ending")
    /\ UNCHANGED <<reserved, claimed, of, failures, poolVars, live, bit>>

\* The child lives on: lifecycle under the table's lock, then the hook, and
\* only then is the session's lock released.
RecordDetached(c) ==
    /\ shells = None
    /\ Goes(c, "leaving", "detached")
    /\ UNCHANGED <<reserved, claimed, of, failures, poolVars, live, bit>>

CallClientDisconnect(c) ==
    /\ Goes(c, "detached", "releasing")
    /\ bit' = "free"
    /\ UNCHANGED <<reserved, claimed, of, failures, poolVars, live>>

\* The child is over: the hook first, then the table's entry.
CallShellDisconnect(c) ==
    /\ Goes(c, "ending", "removing")
    /\ bit' = "unknown"
    /\ UNCHANGED <<reserved, claimed, of, failures, poolVars, live>>

RemoveSession(c) ==
    /\ shells = None
    /\ Goes(c, "removing", "releasing")
    /\ table' = None
    /\ UNCHANGED <<reserved, claimed, of, failures, shells, kind, running, inner, stream,
                   live, bit>>

Release_BeforeHook(c) ==
    /\ \/ Goes(c, "releasing", "gone")
       \/ pc[c] = "detached" /\ UNCHANGED pc
    /\ inner' = [inner EXCEPT ![of[c]] = None]
    /\ UNCHANGED <<reserved, claimed, of, failures, table, shells, kind, running, stream,
                   live, bit>>

Release(c) ==
    /\ Goes(c, "releasing", "gone")
    /\ inner' = [inner EXCEPT ![of[c]] = None]
    /\ UNCHANGED <<reserved, claimed, of, failures, table, shells, kind, running, stream,
                   live, bit>>

------------------------------------------------------------------------------
(* What runs in a shell *)

\* The launcher writes its state file, carrying the name.
LauncherUp ==
    /\ ~live
    /\ \E s \in running : kind[s] = "launcher"
    /\ live' = TRUE
    /\ UNCHANGED <<clientVars, poolVars, bit>>

ChildExits(s) ==
    /\ s \in running
    /\ running' = running \ {s}
    /\ live' = (live /\ kind[s] # "launcher")
    /\ UNCHANGED <<clientVars, table, shells, kind, inner, stream, bit>>

------------------------------------------------------------------------------

AttachStep(c) == ReadPending(c) \/ Claim(c) \/ CheckLive(c) \/ ListPool(c)

SelectStep(c) ==
    \/ TakeOver(c) \/ FindBusy(c) \/ CallBusy(c) \/ FindNone(c)
    \/ CallNewSession(c) \/ SpawnSubshell(c)
    \/ InsertSession(c) \/ LockNew(c) \/ LockWaited(c)

ServeStep(c) ==
    \/ Begin(c) \/ StreamEnds(c)
    \/ RecordDetached(c) \/ CallClientDisconnect(c)
    \/ CallShellDisconnect(c) \/ RemoveSession(c) \/ Release(c)

Next ==
    \/ \E c \in Clients :
          \/ AttachStep(c) \/ GiveUp(c)
          \/ SelectStep(c) \/ SpawnFails(c) \/ PrepareFails(c)
          \/ ServeStep(c)
    \/ LauncherUp
    \/ \E s \in Shells : ChildExits(s)

Spec == Init /\ [][Next]_vars

\* Processes and threads are scheduled, and every client hangs up some day.
\* Nothing obliges a launcher to start or to end.
Fairness ==
    \A c \in Clients : WF_vars(AttachStep(c) \/ SelectStep(c) \/ ServeStep(c))

------------------------------------------------------------------------------
(* Properties *)

\* A reservation is redeemed once, however many windows race for it: two
\* launchers would work on one session's files (claim_pending).
RedeemedOnce ==
    \A s, t \in Shells : kind[s] = "launcher" /\ kind[t] = "launcher" => s = t

\* A session with a client on it is never served as free or unknown: the
\* dashboard would offer it to a sweep that must take nothing from anybody
\* (PoolHooks, on_client_disconnect before the lock is released).
HeldIsNotFree ==
    \A c \in Clients :
        pc[c] = "streaming" /\ kind[of[c]] = "launcher" /\ of[c] \in running
            => bit = "attached"

\* pty_pool.rs:369: a refused attach "proves a client holds the pty".  With no
\* attach on its way in or out, a session served as attached has a client.
InTransit(c) == pc[c] \in InPool

BusyMeansHeld ==
    (\A c \in Clients : ~InTransit(c)) /\ live /\ bit = "attached"
        => \E c \in Clients : pc[c] = "streaming"

\* pty_pool.rs:478: the guard refuses the stale name, which libshpool would
\* give a bare login shell.
NoBareShell == \A s \in Shells : kind[s] # "login"

\* vendor/libshpool/src/daemon/server.rs:635: nothing that waits for a client
\* may do so under the table's lock, or "every list, attach, detach and kill in
\* the daemon wedges behind a single unresponsive session".
TableIsUnlocked == \A c \in Clients : shells = c ~> shells # c
==============================================================================
