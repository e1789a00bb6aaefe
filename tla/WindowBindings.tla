--------------------------- MODULE WindowBindings ---------------------------
(***************************************************************************)
(* The dashboard's bindings between the pooled sessions of one remote host *)
(* and the attach windows it opened for them: app/bindings.rs, the reload  *)
(* and the detach reports of app/mod.rs, the attach, detach and snapshot   *)
(* operations of app/run.rs.  The terminal, its windows and the host's     *)
(* connection move beside the dashboard, which may quit and start again.   *)
(*                                                                         *)
(* The host's rows are in the mirror only between a Snapshot and the next  *)
(* loss of the connection; HostMirror models how they get there.           *)
(***************************************************************************)
EXTENDS Naturals, Sequences, FiniteSets

CONSTANTS
    Tokens,     \* pool names, the binding tokens
    MaxWins,    \* bound: attach windows opened
    MaxDrops,   \* bound: losses of the connection
    MaxStarts,  \* bound: starts of the dashboard after the first
    Focusing,   \* whether the user focuses windows that are gone
    Reports,    \* whether windows report their end (reporter_exe found)
    Floating,   \* the terminal is zellij: capabilities.floating_sessions
    Nil

ASSUME WindowBindingsAssumption ==
    /\ MaxWins \in Nat /\ MaxDrops \in Nat /\ MaxStarts \in Nat
    /\ Nil \notin Nat
    /\ Focusing \in BOOLEAN /\ Reports \in BOOLEAN /\ Floating \in BOOLEAN

VARIABLES
    hosted,    \* sessions that run in the host's pool
    conn,      \* "down", "connected", or "mirrored": the Snapshot is in
    epoch,     \* the connection task's reconnect_epoch
    drops,     \* losses so far
    up,        \* the dashboard runs
    starts,    \* how often it started again
    dirty,     \* a backend has raised its change signal
    rows,      \* the sessions of the host the dashboard shows
    presumed,  \* sessions it hides because it is ending them
    seen,      \* reconnect_epochs: the last epoch swept
    bound,     \* by_host: the window a session is bound to, or 0
    expected,  \* sessions the dashboard expects to be attached to
    pruned,    \* recently_pruned: the window the snapshot took, or 0
    opening,   \* the attach operation of a session: none, its window, or 0
    swept,     \* those of the operations the reconnect sweep started
    closes,    \* pending_session_close
    shot,      \* the terminal snapshot in flight, if any
    refocus,   \* the snapshot a failed focus took, if any
    file,      \* window-bindings.json
    wins,      \* the attach windows ever opened: their session and state
    asked,     \* sessions with a window the user closed
    overtaken, \* sessions bound again while an older window's end was unreported
    detached,  \* sessions the user detached and has not attached since
    lost,      \* sessions whose window the link took and nothing brought back
    left       \* the bindings the dashboard had when it last quit

hostVars  == <<hosted, conn, epoch, drops>>
lifeVars  == <<up, starts>>
rowVars   == <<dirty, rows, presumed, seen>>
bindVars  == <<bound, expected, pruned>>
opVars    == <<opening, swept, shot, refocus>>
ghostVars == <<asked, overtaken, detached, lost, left>>
bindingVars == <<hostVars, lifeVars, rowVars, bindVars, opVars, closes, file, wins, ghostVars>>

Windows == 1..Len(wins)

(* A window is live while its attach runs; then it owes the report of how   *)
(* that ended; a refused attach keeps its window on screen.                 *)
Owing == {"hup", "lost", "quit", "refused"}
Live(w)  == wins[w].st = "live"
AttachWindow == [of : Tokens, st : Owing \cup {"live", "held", "done"}]
Shown    == {w \in Windows : wins[w].st \in {"live", "refused", "held"}}
Unbound  == [t \in Tokens |-> 0]

(* live_rows, collect_sessions: what a reload reads of this host.           *)
Mirror == IF conn = "mirrored" THEN hosted \ presumed ELSE {}

(* Windows of W come to an end; each owes a report of it, if it reports.    *)
End(ws, W, how) ==
    [w \in DOMAIN ws |->
        IF w \in W /\ ws[w].st = "live"
        THEN [ws[w] EXCEPT !.st = IF Reports THEN how ELSE "done"]
        ELSE ws[w]]

(* write_window_bindings_file: the bindings of the rows there are.          *)
Saved(r, b) == [t \in Tokens |-> IF t \in r THEN b[t] ELSE 0]

(* mark_dirty moves mutation_version, which a snapshot in flight has read.  *)
Stale == IF shot = Nil THEN Nil ELSE [shot EXCEPT !.stale = TRUE]

BindingsInit ==
    /\ hosted = Tokens /\ conn = "down" /\ epoch = 0 /\ drops = 0
    /\ up = TRUE /\ starts = 0
    /\ dirty = FALSE /\ rows = {} /\ presumed = {} /\ seen = 0
    /\ bound = Unbound /\ expected = {} /\ pruned = Unbound
    /\ opening = [t \in Tokens |-> Nil] /\ swept = {} /\ shot = Nil /\ refocus = Nil
    /\ closes = {} /\ file = Unbound /\ wins = <<>>
    /\ asked = {} /\ overtaken = {} /\ detached = {} /\ lost = {}
    /\ left = Unbound
-----------------------------------------------------------------------------
(* The connection.                                                          *)

(* The handshake is done: the first time of a backend's life the epoch      *)
(* stays, from then on it moves.                                            *)
Connected ==
    /\ up /\ conn = "down"
    /\ conn' = "connected"
    /\ epoch' = IF drops > 0 THEN epoch + 1 ELSE epoch
    /\ dirty' = TRUE
    /\ UNCHANGED <<hosted, drops, lifeVars, rows, presumed, seen, bindVars, opVars,
                   closes, file, wins, ghostVars>>

SnapshotArrives ==
    /\ conn = "connected"
    /\ conn' = "mirrored"
    /\ presumed' = {}
    /\ dirty' = TRUE
    /\ UNCHANGED <<hosted, epoch, drops, lifeVars, rows, seen, bindVars, opVars, closes,
                   file, wins, ghostVars>>

(* The link drops, and takes any of the windows along: they share its       *)
(* master, but a window may also outlive the protocol stream.               *)
LinkDrops(W) ==
    /\ conn # "down" /\ drops < MaxDrops
    /\ W \subseteq {w \in Windows : Live(w)}
    /\ conn' = "down"
    /\ drops' = drops + 1
    /\ wins' = End(wins, W, "lost")
    /\ lost' = lost \cup {t \in expected : bound[t] \in W}
    /\ presumed' = {}
    /\ dirty' = up
    /\ UNCHANGED <<hosted, epoch, lifeVars, rows, seen, bindVars, opVars, closes, file,
                   asked, overtaken, detached, left>>

(* A session ends on its host, and its attach returns.                      *)
SessionEnds(t) ==
    /\ t \in hosted
    /\ hosted' = hosted \ {t}
    /\ wins' = End(wins, {w \in Windows : wins[w].of = t}, "quit")
    /\ presumed' = presumed \ {t}
    /\ lost' = lost \ {t}
    /\ dirty' = up
    /\ UNCHANGED <<conn, epoch, drops, lifeVars, rows, seen, bindVars, opVars, closes, file,
                   asked, overtaken, detached, left>>
-----------------------------------------------------------------------------
(* The reload.                                                              *)

(* reload_pass.  On zellij the windows of rows that left a connected host   *)
(* are closed and their bindings removed; expectations are kept for the     *)
(* rows there are; an epoch that moved starts an attach for every expected  *)
(* row without a window; and the file is written.                           *)
Departed == IF Floating /\ conn # "down" THEN rows \ Mirror ELSE {}

SweepTargets(b, e) ==
    IF seen = epoch THEN {}
    ELSE {t \in e \cap Mirror : b[t] = 0 /\ opening[t] = Nil}

Reload ==
    LET b == [t \in Tokens |-> IF t \in Departed THEN 0 ELSE bound[t]]
        e == (expected \ Departed) \cap Mirror
        T == SweepTargets(b, e)
    IN  /\ up /\ dirty
        /\ dirty' = FALSE
        /\ rows' = Mirror
        /\ bound' = b
        /\ expected' = e
        /\ pruned' = [t \in Tokens |-> IF t \in Departed THEN 0 ELSE pruned[t]]
        /\ wins' = End(wins, {bound[t] : t \in Departed}, "hup")
        /\ seen' = epoch
        /\ opening' = [t \in Tokens |-> IF t \in T THEN 0 ELSE opening[t]]
        /\ swept' = swept \cup T
        /\ shot' = Stale
        /\ file' = Saved(Mirror, b)
        /\ UNCHANGED <<hostVars, lifeVars, presumed, refocus, closes, ghostVars>>
-----------------------------------------------------------------------------
(* Attach windows.                                                          *)

(* Enter on a detached row starts the attach operation of that session;     *)
(* start_operation takes one of a key at a time.                            *)
Enter(t) ==
    /\ up /\ t \in rows
    /\ bound[t] = 0 /\ opening[t] = Nil
    /\ opening' = [opening EXCEPT ![t] = 0]
    /\ swept' = swept \ {t}
    /\ detached' = detached \ {t}
    /\ UNCHANGED <<hostVars, lifeVars, rowVars, bindVars, shot, refocus, closes, file, wins,
                   asked, overtaken, lost, left>>

(* The terminal opens the window of an operation.  Without the link, or     *)
(* without the session, the attach is refused on arrival.                   *)
Opens(t) ==
    /\ opening[t] = 0 /\ Len(wins) < MaxWins
    /\ wins' = Append(wins, [of |-> t,
                             st |-> IF conn = "down" \/ t \notin hosted
                                    THEN IF Reports THEN "refused" ELSE "held"
                                    ELSE "live"])
    /\ opening' = [opening EXCEPT ![t] = Len(wins')]
    /\ UNCHANGED <<hostVars, lifeVars, rowVars, bindVars, swept, shot, refocus, closes, file,
                   ghostVars>>

(* The operation's result is applied: record_window_binding.                *)
Record(t, w) ==
    /\ pruned' = [pruned EXCEPT ![t] = 0]
    /\ expected' = expected \cup {t}
    /\ bound' = [bound EXCEPT ![t] = w]

Bound(t) ==
    /\ up /\ opening[t] \in Windows
    /\ Record(t, opening[t])
    /\ opening' = [opening EXCEPT ![t] = Nil]
    /\ swept' = swept \ {t}
    /\ shot' = Stale
    /\ file' = Saved(rows, bound')
    /\ overtaken' = IF \E w \in Windows \ {opening[t]} : wins[w].of = t /\ wins[w].st \in Owing
                    THEN overtaken \cup {t} ELSE overtaken \ {t}
    /\ asked' = IF Live(opening[t]) THEN asked \ {t} ELSE asked
    /\ lost' = lost \ {t}
    /\ UNCHANGED <<hostVars, lifeVars, rowVars, refocus, closes, wins, detached, left>>

UserCloses(w) ==
    /\ up
    /\ w \in Windows /\ Live(w)
    /\ wins' = End(wins, {w}, "hup")
    /\ asked' = asked \cup {wins[w].of}
    /\ UNCHANGED <<hostVars, lifeVars, rowVars, bindVars, opVars, closes, file, overtaken,
                   detached, lost, left>>

(* An in-session detach, or another client's steal: the attach returns.     *)
AttachReturns(w) ==
    /\ w \in Windows /\ Live(w)
    /\ wins' = End(wins, {w}, "quit")
    /\ UNCHANGED <<hostVars, lifeVars, rowVars, bindVars, opVars, closes, file, ghostVars>>

(* A mutant of Remove: the expectation outlives the detach.                 *)
Remove_StaysExpected(t) ==
    /\ pruned' = [pruned EXCEPT ![t] = 0]
    /\ bound' = [bound EXCEPT ![t] = 0]
    /\ UNCHANGED expected

(* remove: what D and a departed row do.                                    *)
Remove(t) ==
    /\ expected' = expected \ {t}
    /\ pruned' = [pruned EXCEPT ![t] = 0]
    /\ bound' = [bound EXCEPT ![t] = 0]

(* A mutant of Detach: the window is closed before its binding is retired.  *)
Detach_ClosesFirst(t) ==
    /\ up /\ t \in rows /\ bound[t] # 0
    /\ wins' = End(wins, {bound[t]}, "hup")
    /\ expected' = expected \ {t}
    /\ detached' = detached \cup {t}
    /\ UNCHANGED <<hostVars, lifeVars, rowVars, bound, pruned, opVars, closes, file, asked,
                   overtaken, lost, left>>

(* D: the binding is retired, then the window closed; the session runs on.  *)
Detach(t) ==
    /\ up /\ t \in rows /\ bound[t] # 0
    /\ Remove(t)
    /\ wins' = End(wins, {bound[t]}, "hup")
    /\ shot' = Stale
    /\ dirty' = TRUE
    /\ detached' = detached \cup {t}
    /\ lost' = lost \ {t}
    /\ UNCHANGED <<hostVars, lifeVars, rows, presumed, seen, opening, swept, refocus, closes,
                   file, asked, overtaken, left>>
-----------------------------------------------------------------------------
(* The two detectors of a window's end.                                     *)

(* prune_token: the binding, or else what the snapshot took of it lately.   *)
Answers(t) == IF bound[t] # 0 THEN bound[t] ELSE pruned[t]

PruneToken(t) ==
    /\ bound' = [bound EXCEPT ![t] = 0]
    /\ pruned' = IF bound[t] # 0 THEN pruned ELSE [pruned EXCEPT ![t] = 0]
    /\ UNCHANGED expected

(* The report is read; the attach of window w is over.                      *)
ReportRead(ws, w) == [ws EXCEPT ![w].st = IF @ = "refused" THEN "held" ELSE "done"]

(* apply_detach_reports, for one report of a window that ended while the    *)
(* dashboard ran.  What the user closed is ended when its delay is over,    *)
(* and hidden now; a spent window is closed, a refused one left.            *)
ApplyReport(w) ==
    LET t == wins[w].of
        st == wins[w].st
    IN  /\ up
        /\ w \in Windows /\ st \in Owing
        /\ IF Answers(t) = 0
           THEN /\ wins' = ReportRead(wins, w)
                /\ UNCHANGED <<bindVars, presumed, dirty, closes, shot, file>>
           ELSE /\ PruneToken(t)
                /\ wins' = IF st = "refused" THEN ReportRead(wins, w)
                           ELSE End(ReportRead(wins, w), {Answers(t)}, "hup")
                /\ IF st = "hup" /\ t \in rows
                   THEN /\ closes' = closes \cup {t}
                        /\ presumed' = presumed \cup {t}
                        /\ dirty' = TRUE
                   ELSE UNCHANGED <<closes, presumed, dirty>>
                /\ shot' = Stale
                /\ file' = Saved(rows, bound')
        /\ lost' = IF st = "hup" THEN lost \ {t} ELSE lost
        /\ UNCHANGED <<hostVars, lifeVars, rows, seen, opening, swept, refocus, asked,
                       overtaken, detached, left>>

(* close_reported_sessions: the delay is over and the kill goes out, with   *)
(* the host's answer: it ends the session, or cannot be reached.            *)
CloseDue(t) ==
    /\ up /\ t \in closes
    /\ closes' = closes \ {t}
    /\ presumed' = presumed \ {t}
    /\ dirty' = TRUE
    /\ IF conn = "down"
       THEN UNCHANGED <<hosted, wins, lost>>
       ELSE /\ hosted' = hosted \ {t}
            /\ wins' = End(wins, {w \in Windows : wins[w].of = t}, "quit")
            /\ lost' = lost \ {t}
    /\ UNCHANGED <<conn, epoch, drops, lifeVars, rows, seen, bindVars, opVars, file, asked,
                   overtaken, detached, left>>

(* start_terminal_snapshot: taken off the loop, with the version it saw.    *)
TakeShot ==
    /\ up /\ shot = Nil
    /\ \E t \in Tokens : bound[t] # 0
    /\ shot' = [live |-> Shown, stale |-> FALSE]
    /\ UNCHANGED <<hostVars, lifeVars, rowVars, bindVars, opening, swept, refocus, closes,
                   file, wins, ghostVars>>

(* A mutant of PruneDead: only the rows there are lose their binding.       *)
PruneDead_Rows(live) ==
    LET dead == {t \in rows : bound[t] # 0 /\ bound[t] \notin live}
    IN  /\ bound' = [t \in Tokens |-> IF t \in dead THEN 0 ELSE bound[t]]
        /\ pruned' = [t \in Tokens |-> IF t \in dead THEN bound[t] ELSE pruned[t]]
        /\ UNCHANGED <<expected, file>>

(* prune_detached_from_tabs, prune_dead.                                    *)
PruneDead(live) ==
    LET dead == {t \in Tokens : bound[t] # 0 /\ bound[t] \notin live}
    IN  /\ bound' = [t \in Tokens |-> IF t \in dead THEN 0 ELSE bound[t]]
        /\ pruned' = [t \in Tokens |-> IF t \in dead THEN bound[t] ELSE pruned[t]]
        /\ file' = IF dead = {} THEN file ELSE Saved(rows, bound')
        /\ UNCHANGED expected

(* A mutant of ApplyShot: the version is not compared.                      *)
ApplyShot_Unguarded ==
    /\ up /\ shot # Nil
    /\ shot' = Nil
    /\ PruneDead(shot.live)
    /\ UNCHANGED <<hostVars, lifeVars, rowVars, opening, swept, refocus, closes, wins, ghostVars>>

(* The snapshot comes back.  One that a change overtook prunes nothing.     *)
ApplyShot ==
    /\ up /\ shot # Nil
    /\ shot' = Nil
    /\ IF shot.stale
       THEN UNCHANGED <<bindVars, file>>
       ELSE PruneDead(shot.live)
    /\ UNCHANGED <<hostVars, lifeVars, rowVars, opening, swept, refocus, closes, wins, ghostVars>>

(* start_focus fails on a window that is gone, and takes a snapshot.        *)
FocusFails(t) ==
    /\ Focusing
    /\ up /\ t \in rows /\ refocus = Nil
    /\ bound[t] # 0 /\ bound[t] \notin Shown
    /\ refocus' = Shown
    /\ UNCHANGED <<hostVars, lifeVars, rowVars, bindVars, opening, swept, shot, closes, file,
                   wins, ghostVars>>

(* That snapshot is applied as it comes, whatever changed since.            *)
ApplyRefocus ==
    /\ up /\ refocus # Nil
    /\ PruneDead(refocus)
    /\ refocus' = Nil
    /\ shot' = Stale
    /\ UNCHANGED <<hostVars, lifeVars, rowVars, opening, swept, closes, wins, ghostVars>>

(* PRUNE_REPORT_GRACE is over.                                              *)
GraceEnds(t) ==
    /\ pruned[t] # 0
    /\ pruned' = [pruned EXCEPT ![t] = 0]
    /\ UNCHANGED <<hostVars, lifeVars, rowVars, bound, expected, opVars, closes, file, wins,
                   ghostVars>>
-----------------------------------------------------------------------------
(* The dashboard ends, alone or with its terminal, which hangs up every     *)
(* window; what it had in memory is gone.                                   *)
Quit(withTerminal) ==
    /\ up /\ starts < MaxStarts
    /\ up' = FALSE
    /\ conn' = "down"
    /\ dirty' = FALSE /\ rows' = {} /\ presumed' = {} /\ seen' = 0
    /\ bound' = Unbound /\ expected' = {} /\ pruned' = Unbound
    /\ opening' = [t \in Tokens |-> Nil] /\ swept' = {} /\ shot' = Nil /\ refocus' = Nil
    /\ closes' = {}
    /\ wins' = IF withTerminal THEN End(wins, Windows, "hup") ELSE wins
    /\ lost' = {} /\ detached' = {} /\ asked' = {} /\ overtaken' = {}
    /\ left' = bound
    /\ UNCHANGED <<hosted, epoch, drops, starts, file>>

(* It starts: the bindings of the file are seeded, the first reload finds   *)
(* no row of the host, whose connection is still to come, and the reports   *)
(* that waited retire their bindings and end nothing.                       *)
Start ==
    LET gone == {w \in Windows : wins[w].st \in Owing}
        told == {wins[w].of : w \in gone}
    IN  /\ ~up
        /\ up' = TRUE
        /\ starts' = starts + 1
        /\ epoch' = 0 /\ drops' = 0
        /\ bound' = [t \in Tokens |-> IF t \in told THEN 0 ELSE file[t]]
        /\ rows' = Mirror
        /\ expected' = {t \in Tokens : file[t] # 0} \cap Mirror
        /\ file' = Saved(Mirror, bound')
        /\ seen' = 0
        /\ wins' = LET read == [w \in Windows |->
                        IF w \in gone
                        THEN [wins[w] EXCEPT !.st = IF @ = "refused" THEN "held" ELSE "done"]
                        ELSE wins[w]]
                   IN  End(read, {file[t] : t \in told}, "hup")
        /\ UNCHANGED <<hosted, conn, dirty, presumed, pruned, opVars, closes, ghostVars>>
-----------------------------------------------------------------------------
BindingsNext ==
    \/ Connected \/ SnapshotArrives
    \/ \E W \in SUBSET Windows : LinkDrops(W)
    \/ Reload \/ TakeShot \/ ApplyShot \/ ApplyRefocus
    \/ \E t \in Tokens :
          \/ SessionEnds(t) \/ Enter(t) \/ Opens(t) \/ Bound(t) \/ Detach(t)
          \/ CloseDue(t) \/ FocusFails(t) \/ GraceEnds(t)
    \/ \E w \in Windows : UserCloses(w) \/ AttachReturns(w) \/ ApplyReport(w)
    \/ \E b \in BOOLEAN : Quit(b)
    \/ Start

BindingsSpec == BindingsInit /\ [][BindingsNext]_bindingVars

(* The loop reloads when a backend says so, snapshots while it has a        *)
(* binding, and applies what comes back.                                    *)
BindingsLiveSpec ==
    BindingsSpec /\ WF_bindingVars(Reload) /\ WF_bindingVars(TakeShot) /\ WF_bindingVars(ApplyShot)
-----------------------------------------------------------------------------
Remembered == [Tokens -> 0..MaxWins]

HostTypes ==
    /\ hosted \subseteq Tokens /\ conn \in {"down", "connected", "mirrored"}
    /\ epoch \in 0..MaxDrops /\ drops \in 0..MaxDrops
    /\ up \in BOOLEAN /\ starts \in 0..MaxStarts
RowTypes ==
    /\ rows \subseteq Tokens /\ presumed \subseteq Tokens
    /\ dirty \in BOOLEAN /\ seen \in 0..MaxDrops
BindTypes ==
    /\ bound \in Remembered /\ pruned \in Remembered /\ file \in Remembered
    /\ expected \subseteq Tokens
OpTypes ==
    /\ opening \in [Tokens -> {Nil} \cup 0..MaxWins]
    /\ swept \subseteq Tokens /\ closes \subseteq Tokens
    /\ shot = Nil \/ shot \in [live : SUBSET (1..MaxWins), stale : BOOLEAN]
    /\ refocus = Nil \/ refocus \in SUBSET (1..MaxWins)
WinTypes == wins \in Seq(AttachWindow) /\ Len(wins) <= MaxWins
GhostTypes ==
    /\ asked \subseteq Tokens /\ overtaken \subseteq Tokens
    /\ detached \subseteq Tokens /\ lost \subseteq Tokens /\ left \in Remembered

(* What the dashboard and its host keep has its type.                       *)
WindowBindingsTypeOK ==
    HostTypes /\ RowTypes /\ BindTypes /\ OpTypes /\ WinTypes /\ GhostTypes

(* The dashboard ends a session for a closed window only when the user      *)
(* closed that window by hand: never for one it closed itself for D or for  *)
(* a departed row, never for one the link took, never for one that went     *)
(* with a terminal.  The one excuse is a window bound while the end of an   *)
(* older one was unreported, which EndIsByHand is about.                    *)
EndIsAsked == [][closes' \subseteq closes \cup asked \cup overtaken]_bindingVars

(* A session the user detached stays detached through every reconnect.      *)
DetachedStays == swept \cap detached = {}

(* The periodic snapshot takes no binding from a window that is on screen,  *)
(* however long it was under way and whatever was opened meanwhile.         *)
PrunedIsDead ==
    [][ApplyShot => \A t \in Tokens : bound'[t] # bound[t] => bound[t] \notin Shown]_bindingVars

(* A binding whose window is gone does not outlive it for ever, even when   *)
(* its window never reports: the snapshot is the backstop.                  *)
DeadIsUnbound ==
    \A t \in Tokens : \A w \in 1..MaxWins :
        (bound[t] = w /\ w \notin Shown) ~> bound[t] # w

(* bindings.rs: prune_dead leaves the expectation alone, so that after a    *)
(* broken link the dashboard still knows which sessions were open.          *)
LostIsExpected == \A t \in lost \cap hosted : t \in expected \/ opening[t] # Nil

(* The sweep that takes a reconnect edge has the host's rows to restore.    *)
EdgeSeesRows == [][Reload /\ seen # epoch => conn = "mirrored"]_bindingVars

(* bindings.rs: a fresh window settles the race, and a report naming the    *)
(* old one can no longer end the session.                                   *)
EndIsByHand == [][closes' \subseteq closes \cup asked]_bindingVars

(* app/mod.rs: the window of a row that left because its host was lost is   *)
(* not torn down.                                                           *)
ReapedHasEnded ==
    [][Reload => \A w \in Windows :
          wins'[w].st # wins[w].st => wins[w].of \notin hosted \/ wins[w].of \in presumed]_bindingVars

(* app/mod.rs: remote bindings are seeded again unconditionally, so that a  *)
(* dashboard that restarts knows the attach windows it has.                 *)
SeedKeepsWindows ==
    [][Start => \A t \in Tokens : left[t] \in Windows /\ Live(left[t]) => bound'[t] = left[t]]_bindingVars

(* bindings.rs: a report always finds something to answer.                  *)
ReportAnswers == \A t \in Tokens : bound[t] # 0 => wins[bound[t]].st \notin {"done", "held"}

(* bindings.rs: prune_dead reacts to a window that already died.            *)
RefocusTakesDead ==
    [][ApplyRefocus => \A t \in Tokens : bound'[t] # bound[t] => bound[t] \notin Shown]_bindingVars
==============================================================================
