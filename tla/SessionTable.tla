----------------------------- MODULE SessionTable -----------------------------
(***************************************************************************)
(* What a dashboard makes of the sessions it mirrors: the rows it shows,   *)
(* the guesses it lays over them while a request or a closed window is     *)
(* still news to the host, and the kills it follows to their end           *)
(* (src/backend/mod.rs: live_rows, presume_*, kill_session;                *)
(* src/app/run.rs: start_kill, apply_kill_result, close_reported_sessions; *)
(* src/app/mod.rs: apply_detach_reports, refused_attach).                  *)
(*                                                                         *)
(* Composes HostMirror, whose actions are each extended with what the same *)
(* handler does to the table.  One dashboard, one remote host.             *)
(***************************************************************************)
EXTENDS HostMirror, FiniteSets

CONSTANTS
    OnWindowClose,  \* [remote] on_window_close: "close" or "detach"
    OpensWindows,   \* bound: does the user open windows (Enter)?
    None

ASSUME SessionTableAssumption ==
    OnWindowClose \in {"close", "detach"}
    /\ OpensWindows \in BOOLEAN 
    /\ None \notin BOOLEAN /\ None \notin 0..MaxGen
    /\ \A r \in [what : {"busy", "stale", "closed"}, gen : 0..MaxGen] : r # None

VARIABLES
    presumedDead,      \* rows hidden on the dashboard's own word: "no",
                       \* "fresh", or "lapsed" past PRESUMED_DEAD_FOR
    presumedAttached,  \* attached bits on its own word, None for no guess
    dirty,             \* the change signal the run loop takes
    shown,             \* App::sessions, the table as last reloaded
    kill,              \* where the kill operation of each key is
    target,            \* history: the session that kill was asked for
    window,            \* our attach window: "none", "attached", "closing"
    report,            \* the detach report of our last window, None or sent
    due                \* sessions whose close waits out its delay, or None

guessVars  == <<presumedDead, presumedAttached>>
killVars   == <<kill, target>>
windowVars == <<window, report, due>>
tableVars  == <<presumedDead, presumedAttached, dirty, shown, kill, target,
                window, report, due>>
vars       == <<mirrorVars, tableVars>>

\* A kill is asked for, queued for the connection task, sent, and answered;
\* a good answer is then confirmed against the mirror.
InFlight == {"sent", "acknowledged", "rejected"}
Outcomes == {"ended", "failed", "unreachable"}
KillStep == {"none", "asked", "queued", "confirming"} \cup InFlight \cup Outcomes

Report == [what : {"busy", "stale", "closed"}, gen : 0..MaxGen]

TableTypeOK ==
    /\ MirrorTypeOK
    /\ presumedDead \in [Keys -> {"no", "fresh", "lapsed"}]
    /\ presumedAttached \in [Keys -> BOOLEAN \cup {None}]
    /\ dirty \in BOOLEAN
    /\ shown \in [Keys -> Row]
    /\ kill \in [Keys -> KillStep]
    /\ target \in [Keys -> 0..MaxGen]
    /\ window \in [Keys -> {"none", "attached", "closing"}]
    /\ report \in [Keys -> Report \cup {None}]
    /\ due \in [Keys -> 0..MaxGen \cup {None}]

TableInit ==
    /\ MirrorInit
    /\ presumedDead = [k \in Keys |-> "no"]
    /\ presumedAttached = [k \in Keys |-> None]
    /\ dirty = FALSE
    /\ shown = NoRows
    /\ kill = [k \in Keys |-> "none"]
    /\ target = [k \in Keys |-> 0]
    /\ window = [k \in Keys |-> "none"]
    /\ report = [k \in Keys |-> None]
    /\ due = [k \in Keys |-> None]

\* Bound: a window of ours owes the host one more change, its hangup, and
\* MaxChurn keeps room for it.
Owed     == Cardinality({k \in Keys : window[k] # "none"})
Spare(n) == churn + n + Owed <= MaxChurn

------------------------------------------------------------------------------
(* Guesses *)

Hidden(k) == presumedDead[k] = "fresh"

PresumeDead(k) ==
    /\ presumedDead' = [presumedDead EXCEPT ![k] = "fresh"]
    /\ dirty' = TRUE
    /\ UNCHANGED presumedAttached

UnpresumeDead_Silent(k) ==
    /\ presumedDead' = [presumedDead EXCEPT ![k] = "no"]
    /\ UNCHANGED <<dirty, presumedAttached>>

UnpresumeDead(k) ==
    /\ presumedDead' = [presumedDead EXCEPT ![k] = "no"]
    /\ dirty' = (dirty \/ presumedDead[k] # "no")
    /\ UNCHANGED presumedAttached

PresumeAttached(k, bit) ==
    /\ presumedAttached' = [presumedAttached EXCEPT ![k] = bit]
    /\ dirty' = (dirty \/ presumedAttached[k] # bit)
    /\ UNCHANGED presumedDead

\* pooled_session_key: is the session a window was for still in the table?
Listed(k, gen) == shown[k].live /\ shown[k].gen = gen

\* live_rows.
LiveRow(k) ==
    IF ~mirror[k].live \/ Hidden(k) THEN Absent(mirror[k].gen)
    ELSE IF presumedAttached[k] = None THEN mirror[k]
    ELSE [mirror[k] EXCEPT !.attached = presumedAttached[k]]

\* Reading the rows is what drops the guesses that have lapsed.
Reload ==
    /\ shown' = [k \in Keys |-> LiveRow(k)]
    /\ presumedDead' = [k \in Keys |-> IF Hidden(k) THEN "fresh" ELSE "no"]
    /\ dirty' = FALSE
    /\ UNCHANGED <<presumedAttached, killVars, windowVars>>
    /\ UNCHANGED mirrorVars

\* PRESUMED_DEAD_FOR has passed.  Nothing is woken by it.
Lapse(k) ==
    /\ Hidden(k)
    /\ presumedDead' = [presumedDead EXCEPT ![k] = "lapsed"]
    /\ UNCHANGED <<presumedAttached, dirty, shown, killVars, windowVars>>
    /\ UNCHANGED mirrorVars

------------------------------------------------------------------------------
(* The connection task, with what it does to the table *)

TableReceive ==
    /\ Receive
    /\ LET f == Head(chan) IN
       /\ presumedDead' = [k \in Keys |->
             IF Mentions(f, k) /\ f.kind # "Delta" THEN "no" ELSE presumedDead[k]]
       /\ presumedAttached' = [k \in Keys |->
             IF Mentions(f, k) THEN None ELSE presumedAttached[k]]
    /\ dirty' = TRUE
    /\ UNCHANGED <<shown, killVars, windowVars>>

\* Every request in flight loses its reply channel.
TableLinkLost ==
    /\ Spare(1)
    /\ LinkLost
    /\ presumedDead' = [k \in Keys |-> "no"]
    /\ presumedAttached' = [k \in Keys |-> None]
    /\ dirty' = TRUE
    /\ kill' = [k \in Keys |-> IF kill[k] \in InFlight THEN "unreachable" ELSE kill[k]]
    /\ UNCHANGED <<shown, target, windowVars>>

\* Connection-state changes flip dirty as well.
TableDial ==
    /\ Dial \/ (Spare(1) /\ DialFails) \/ Handshake
    /\ dirty' = TRUE
    /\ UNCHANGED <<guessVars, shown, killVars, windowVars>>

\* The steps of the daemon that the dashboard does not see.
Unseen ==
    \/ Accept \/ ReadSnapshot \/ SendSnapshot
    \/ Wake \/ ReadRows \/ PushDone
    \/ \E k \in Keys : PushRemoved(k) \/ PushDelta(k)

TableUnseen ==
    /\ Unseen
    /\ UNCHANGED tableVars

------------------------------------------------------------------------------
(* Kills *)

\* start_kill, for X and for a queued close: refused while the key's last kill
\* is still outstanding or the dashboard has no room for another operation.
KillAllowed(k) == kill[k] = "none"

Ask(k, gen) ==
    /\ kill' = [kill EXCEPT ![k] = "asked"]
    /\ target' = [target EXCEPT ![k] = gen]
    /\ PresumeDead(k)

StartKill(k) ==
    /\ shown[k].live
    /\ KillAllowed(k)
    /\ Ask(k, shown[k].gen)
    /\ UNCHANGED <<shown, windowVars>>
    /\ UNCHANGED mirrorVars

KillMoves(k, from, to) ==
    /\ kill[k] \in from
    /\ kill' = [kill EXCEPT ![k] = to]
    /\ UNCHANGED <<guessVars, dirty, shown, target, windowVars>>
    /\ UNCHANGED mirrorVars

\* A host known to be down is not waited for; a queued request rides the next
\* connection, or is dropped by the wait before it.
Enqueue(k) == KillMoves(k, {"asked"}, IF conn = "down" THEN "unreachable" ELSE "queued")
Drain(k)   == conn = "down" /\ KillMoves(k, {"queued"}, "unreachable")
Send(k)    == conn = "connected" /\ KillMoves(k, {"queued"}, "sent")

\* The host re-resolves the key.  Without a live session there the answer is
\* a good one (AlreadyGone); with one, it was signalled or could not be.
Answer(k) ==
    /\ srv \in {"idle", "woken", "pushing"}
    /\ \/ KillMoves(k, {"sent"}, "acknowledged")
       \/ host[k].live /\ KillMoves(k, {"sent"}, "rejected")

Reply(k) ==
    \/ KillMoves(k, {"acknowledged"}, "confirming")
    \/ KillMoves(k, {"rejected"}, "failed")

TimeOut_QueuedOnly(k) == KillMoves(k, {"queued"}, "unreachable")

\* 120 s without an answer.
TimeOut(k) == KillMoves(k, {"queued"} \cup InFlight, "unreachable")

\* The answer is not proof: an agent may survive its SIGTERM.  The session must
\* have left the host's own account, and an empty mirror is not one.
Confirmed_AnyMirror(k) == conn = "connected" /\ ~mirror[k].live
Confirmed(k) == mirrored /\ conn = "connected" /\ ~mirror[k].live

Confirm(k) == Confirmed(k) /\ KillMoves(k, {"confirming"}, "ended")

\* SESSION_REMOVAL_TIMEOUT.
Unconfirmed(k) == KillMoves(k, {"confirming"}, "failed")

\* apply_kill_result.  A kill asked for with its window retires the window's
\* binding (retire_window_binding), which presumes the row detached.
Settle(k) ==
    /\ kill[k] \in Outcomes
    /\ kill' = [kill EXCEPT ![k] = "none"]
    /\ \/ kill[k] # "ended" /\ UnpresumeDead(k)
       \/ kill[k] = "ended" /\ UNCHANGED <<guessVars, dirty>>
       \/ kill[k] = "ended" /\ Listed(k, target[k]) /\ PresumeAttached(k, FALSE)
    /\ UNCHANGED <<shown, target, windowVars>>
    /\ UNCHANGED mirrorVars

------------------------------------------------------------------------------
(* Windows onto pool sessions *)

TableLaunch(k) ==
    /\ Spare(1)
    /\ Launch(k)
    /\ UNCHANGED tableVars

\* The attach process of a window ends with its session, and reports nothing
\* the table acts on.
TableEnd(k) ==
    /\ window[k] = "none" => Spare(1)
    /\ End(k)
    /\ window' = [window EXCEPT ![k] = "none"]
    /\ UNCHANGED <<guessVars, dirty, shown, killVars, report, due>>

\* Another terminal attaches or leaves.
Elsewhere(k) ==
    /\ Spare(1)
    /\ window[k] = "none"
    /\ Attach(k) \/ Detach(k)
    /\ UNCHANGED tableVars

\* Enter on a row: the guard in the attach process (guard_plain_reattach)
\* looks at the pool and goes on, or exits with a code the dashboard learns
\* of later.
Reports(k, what, gen) == report' = [report EXCEPT ![k] = [what |-> what, gen |-> gen]]

Enter(k) ==
    /\ OpensWindows
    /\ shown[k].live /\ window[k] = "none" /\ report[k] = None
    /\ \/ /\ host[k].live /\ host[k].gen = shown[k].gen /\ ~host[k].attached
          /\ Spare(2)
          /\ Attach(k)
          /\ window' = [window EXCEPT ![k] = "attached"]
          /\ UNCHANGED report
       \/ /\ host[k].live /\ host[k].gen = shown[k].gen /\ host[k].attached
          /\ Reports(k, "busy", shown[k].gen)
          /\ UNCHANGED <<window, mirrorVars>>
       \/ /\ ~host[k].live \/ host[k].gen # shown[k].gen
          /\ Reports(k, "stale", shown[k].gen)
          /\ UNCHANGED <<window, mirrorVars>>
    /\ UNCHANGED <<guessVars, dirty, shown, killVars, due>>

\* The user closes the window (SIGHUP, status 129): the report goes one way,
\* the hangup of the pool's client another.
CloseWindow(k) ==
    /\ window[k] = "attached" /\ report[k] = None
    /\ window' = [window EXCEPT ![k] = "closing"]
    /\ Reports(k, "closed", host[k].gen)
    /\ UNCHANGED <<guessVars, dirty, shown, killVars, due>>
    /\ UNCHANGED mirrorVars

\* D: the binding is retired before the window goes, so its report is ignored.
DetachKey(k) ==
    /\ window[k] = "attached"
    /\ Listed(k, host[k].gen)
    /\ window' = [window EXCEPT ![k] = "closing"]
    /\ PresumeAttached(k, FALSE)
    /\ UNCHANGED <<shown, killVars, report, due>>
    /\ UNCHANGED mirrorVars

\* on_client_disconnect.
ClientGone(k) ==
    /\ window[k] = "closing"
    /\ window' = [window EXCEPT ![k] = "none"]
    /\ Detach(k)
    /\ UNCHANGED <<guessVars, dirty, shown, killVars, report, due>>

\* apply_detach_reports; a report whose row has left the table changes none.
ApplyReport(k) ==
    /\ report[k] # None
    /\ report' = [report EXCEPT ![k] = None]
    /\ LET r == report[k] IN
       \/ /\ ~Listed(k, r.gen)
          /\ UNCHANGED <<guessVars, dirty, due>>
       \/ /\ Listed(k, r.gen) /\ r.what = "busy"
          /\ PresumeAttached(k, TRUE)
          /\ UNCHANGED due
       \/ /\ Listed(k, r.gen) /\ r.what = "stale"
          /\ PresumeDead(k)
          /\ UNCHANGED due
       \/ /\ Listed(k, r.gen) /\ r.what = "closed" /\ OnWindowClose = "close"
          /\ PresumeDead(k)
          /\ due' = [due EXCEPT ![k] = r.gen]
       \/ /\ Listed(k, r.gen) /\ r.what = "closed" /\ OnWindowClose = "detach"
          /\ PresumeAttached(k, FALSE)
          /\ UNCHANGED due
    /\ UNCHANGED <<shown, killVars, window>>
    /\ UNCHANGED mirrorVars

\* close_reported_sessions.  A start_kill refused for want of room leaves the
\* guess it was made on.
DueClose(k) ==
    /\ due[k] # None
    /\ due' = [due EXCEPT ![k] = None]
    /\ \/ KillAllowed(k) /\ Ask(k, due[k])
       \/ UNCHANGED <<guessVars, dirty, killVars>>
    /\ UNCHANGED <<shown, window, report>>
    /\ UNCHANGED mirrorVars

------------------------------------------------------------------------------

KillProgress(k) ==
    \/ Enqueue(k) \/ Drain(k) \/ Send(k) \/ Answer(k) \/ Reply(k)
    \/ Confirm(k) \/ Settle(k)

TableNext ==
    \/ Reload \/ TableReceive \/ TableLinkLost \/ TableDial \/ TableUnseen
    \/ \E k \in Keys :
          \/ TableLaunch(k) \/ TableEnd(k) \/ Elsewhere(k)
          \/ Lapse(k)
          \/ StartKill(k) \/ KillProgress(k) \/ TimeOut(k) \/ Unconfirmed(k)
          \/ Enter(k) \/ CloseWindow(k) \/ DetachKey(k) \/ ClientGone(k)
          \/ ApplyReport(k) \/ DueClose(k)

TableSpec == TableInit /\ [][TableNext]_vars

\* The run loop polls its inboxes and takes the change signal every tick; the
\* tasks behind a kill have deadlines; clocks advance.  The user, the host's
\* sessions and the network owe nothing.
TableFairness ==
    /\ WF_vars(TableUnseen) /\ WF_vars(TableDial) /\ WF_vars(TableReceive)
    /\ WF_vars(dirty /\ Reload)
    /\ \A k \in Keys :
          /\ WF_vars(Enqueue(k)) /\ WF_vars(TimeOut(k)) /\ WF_vars(Unconfirmed(k))
          /\ WF_vars(Settle(k)) /\ WF_vars(Lapse(k))
          /\ WF_vars(ClientGone(k)) /\ WF_vars(ApplyReport(k)) /\ WF_vars(DueClose(k))

------------------------------------------------------------------------------
(* Properties *)

\* A kill is reported done only of a session that is over: not because the
\* request was acknowledged, not because the link went and took the rows with
\* it, not because a later session has the key (Backend::kill_session).
KillIsConfirmed ==
    \A k \in Keys :
        kill[k] = "ended" => ~(host[k].live /\ host[k].gen = target[k])

\* With nothing on its way, no reload due and no guess about a key, the table
\* shows the host's row for it: every change to what a reload would read, the
\* withdrawal of a guess included, has flipped dirty.
TableIsHost ==
    \A k \in Keys :
        Quiet /\ ~dirty /\ presumedDead[k] = "no" /\ presumedAttached[k] = None
            => Same(shown[k], host[k])

\* Every kill comes to an end, whatever the host and the link do.
KillSettles == \A k \in Keys : kill[k] # "none" ~> kill[k] = "none"

\* A session that outlives a failed kill is listed again, unless the user has
\* closed its window, whose own close is then due.
SurvivorIsListed ==
    \A k \in Keys :
        kill[k] \in {"failed", "unreachable"}
            ~> (shown[k].live \/ ~host[k].live \/ due[k] # None)

\* src/backend/mod.rs:1594: "a presumption the host never confirms lapses on
\* its own after PRESUMED_DEAD_FOR and the row comes back".  The lapse drops
\* the guess at the next read, and nothing asks for one.
HiddenRowReturns ==
    \A k \in Keys : (Hidden(k) /\ host[k].live) ~> (shown[k].live \/ ~host[k].live)

\* src/backend/mod.rs:1621: "every Delta carries the attached bit, so the host's
\* own account ends this presumption the moment it disagrees or agrees".  A
\* guess that arrives after the last Delta is never met by another.
AttachedBitConverges ==
    \A k \in Keys :
        []<>(shown[k].live /\ host[k].live => shown[k].attached = host[k].attached)
==============================================================================
