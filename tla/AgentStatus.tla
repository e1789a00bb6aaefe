----------------------------- MODULE AgentStatus -----------------------------
(***************************************************************************)
(* How the launcher of a Claude session knows what the agent is doing      *)
(* (cm-core/src/agents/hooked.rs, agents/claude.rs, agents/common.rs), and *)
(* how that gets into sessions/<pid>.json (launcher.rs).                   *)
(*                                                                         *)
(* Three accounts of one turn reach the launcher's loop: hooks, lines of   *)
(* the transcript, and the agent's own session file.  None is complete and *)
(* none is in step with the others.  The agent is external, and does what  *)
(* those files say it does.                                                *)
(***************************************************************************)
EXTENDS Naturals, Sequences

CONSTANTS
    MaxSteps,   \* bound: what the agent and its user do
    MaxLost,    \* bound: hooks that do not reach the launcher
    MaxFails    \* bound: writes of sessions/<pid>.json that fail

ASSUME AgentStatusAssumption ==
    MaxSteps \in Nat /\ MaxLost \in Nat /\ MaxFails \in Nat

VARIABLES
    turn,      \* what the agent is at
    queued,    \* a prompt waits for the end of the turn
    shell,     \* a run_in_background shell runs
    subagent,  \* a background subagent runs
    steps,
    hooks,     \* hook connections not accepted yet
    deaf,      \* hooks may get lost
    lost,      \* hooks that were lost
    lines,     \* what the transcript says since it was last read
    fsWake,    \* fs_tx has been sent to
    file,      \* status in the session file
    sessWake,  \* sess_tx has been sent to
    status,    \* LauncherState::status, in the loop
    grace,     \* approval_entered_at: none, or how long ago
    pc, before, changed, activity, \* an iteration of the loop, under way
    throttle,  \* WriteThrottle: flush_at is none, to come, or past
    updates,   \* SessionPublisher's channel
    kept,      \* the launcher's own copy, which a retry writes
    retry,     \* a failed write is to be retried
    row,       \* status in sessions/<pid>.json
    fails,
    astray     \* the row need not follow how the last turn ended

agentVars == <<turn, queued, shell, subagent, steps, astray>>
wordVars  == <<hooks, deaf, lost, lines, fsWake, file, sessWake>>
loopVars  == <<status, grace, pc, before, changed, activity, throttle>>
diskVars  == <<updates, kept, retry, row, fails>>
statusVars == <<agentVars, wordVars, loopVars, diskVars>>

(* A tool's hooks, and the answer to an elicitation, do the same.           *)
Hooks == {"SessionStart", "PromptSubmit", "ToolUse", "PermissionRequest", "Elicitation", "Stop",
          "StopFailure", "PreCompact", "PostCompact"}

Asking == {"approval", "decision"}                    \* needs_attention
Busy   == {"active", "compacting", "background"}      \* is_busy
Statuses == {"starting", "idle", "compacted"} \cup Asking \cup Busy

(* What the session file will say of the agent.                             *)
Truth ==
    IF turn # "rest" \/ subagent THEN "busy" ELSE IF shell THEN "shell" ELSE "idle"

Init ==
    /\ turn = "rest" /\ queued = FALSE /\ shell = FALSE /\ subagent = FALSE /\ steps = 0
    /\ astray = FALSE
    /\ hooks = <<"SessionStart">> /\ deaf \in BOOLEAN /\ lost = 0
    /\ lines = {} /\ fsWake = FALSE
    /\ file = "idle" /\ sessWake = FALSE
    /\ status \in {"starting", "idle"}    \* started, or seed_resumed_session
    /\ grace = "none" /\ pc = "select" /\ before = status
    /\ changed = FALSE /\ activity = "none" /\ throttle = "clean"
    /\ updates = <<>> /\ kept = status /\ retry = FALSE /\ row = status /\ fails = 0
-----------------------------------------------------------------------------
(* The agent and its user.  The agent waits for the process of a hook, and  *)
(* then for its model; the user reacts to what is on the screen.  Both are  *)
(* slower than the loop and the drive, so a step of the model finds the     *)
(* hooks handled, and a step of the user the transcript too.  The session   *)
(* file is written later, by nobody's clock - except in a deaf run, where   *)
(* hooks are lost and the file is all there is: there it keeps up.          *)

Step ==
    /\ steps < MaxSteps /\ hooks = <<>> /\ pc = "select" /\ updates = <<>> /\ file # "torn"
    /\ deaf => file = Truth /\ ~sessWake
    /\ steps' = steps + 1
UserStep == Step /\ ~fsWake

Fires(h) == hooks' = Append(hooks, h)
Writes(l) == lines' = lines \cup {l} /\ fsWake' = TRUE
Silent == UNCHANGED <<hooks, lines, fsWake>>
Quietly(T) == turn' = T /\ UNCHANGED <<queued, shell, subagent, astray>>
Unheard == UNCHANGED <<deaf, lost, file, sessWake, loopVars, diskVars>>

Submits ==
    /\ UserStep /\ turn = "rest" /\ ~queued
    /\ turn' = "work" /\ astray' = (astray /\ deaf)
    /\ Fires("PromptSubmit") /\ Writes("text")
    /\ UNCHANGED <<queued, shell, subagent>> /\ Unheard

(* The hook of a queued prompt fires when it is queued.                     *)
Queues ==
    /\ UserStep /\ turn = "work" /\ ~queued
    /\ queued' = TRUE
    /\ Fires("PromptSubmit")
    /\ UNCHANGED <<turn, shell, subagent, astray, lines, fsWake>> /\ Unheard

UsesTool(s, a) ==
    /\ Step /\ turn = "work"
    /\ ~(s /\ shell) /\ ~(a /\ subagent)
    /\ shell' = (shell \/ s) /\ subagent' = (subagent \/ a)
    /\ Fires("ToolUse") /\ Writes("text")
    /\ UNCHANGED <<turn, queued, astray>> /\ Unheard

(* The line with the tool's call may be read after the hook that asks.      *)
Asks(what) ==
    /\ Step /\ turn = "work"
    /\ Quietly(what)
    /\ Fires(IF what = "ask" THEN "PermissionRequest" ELSE "Elicitation") /\ Writes("text")
    /\ Unheard

IsAnswered ==
    /\ UserStep /\ turn \in {"ask", "decide"}
    /\ Quietly("work")
    /\ Fires("ToolUse") /\ Writes("text") /\ Unheard

TurnEnds ==
    /\ Step /\ turn = "work"
    /\ Quietly("rest")
    /\ Fires("Stop") /\ Writes("text") /\ Unheard

TurnFails ==
    /\ Step /\ turn = "work"
    /\ turn' = "rest" /\ astray' = TRUE
    /\ Fires("StopFailure") /\ Writes("text")
    /\ UNCHANGED <<queued, shell, subagent>> /\ Unheard

(* Esc fires no hook.                                                       *)
Cancels ==
    /\ UserStep /\ turn \in {"work", "ask", "decide"}
    /\ turn' = "rest" /\ astray' = TRUE
    /\ Writes("interrupted")
    /\ UNCHANGED <<queued, shell, subagent, hooks>> /\ Unheard

(* The queued prompt starts its turn once the hook of the last one is dealt *)
(* with, and no hook says so.                                               *)
Flushes ==
    /\ turn = "rest" /\ queued /\ hooks = <<>>
    /\ turn' = "work" /\ queued' = FALSE
    /\ UNCHANGED <<shell, subagent, steps, astray>> /\ Silent /\ Unheard

(* What ran in the background is over; the agent may go back to work on it. *)
BackgroundEnds(s, a, again) ==
    /\ Step /\ (s \/ a)
    /\ (s => shell) /\ (a => subagent) /\ (again => turn = "rest")
    /\ shell' = (shell /\ ~s) /\ subagent' = (subagent /\ ~a)
    /\ turn' = IF again THEN "work" ELSE turn
    /\ UNCHANGED <<queued, astray>> /\ Silent /\ Unheard

(* /compact at rest, or an automatic compaction in a turn.                  *)
Compacts(how) ==
    /\ IF how = "compact" THEN UserStep /\ turn = "rest" /\ ~queued ELSE Step /\ turn = "work"
    /\ Quietly(how)
    /\ Fires("PreCompact") /\ UNCHANGED <<lines, fsWake>> /\ Unheard

HasCompacted ==
    /\ Step /\ turn \in {"compact", "auto"}
    /\ Quietly(IF turn = "auto" THEN "work" ELSE "rest")
    /\ Fires("PostCompact") /\ UNCHANGED <<lines, fsWake>> /\ Unheard

(* A /compact that fails says so in the transcript alone.                   *)
CompactFails ==
    /\ Step /\ turn = "compact"
    /\ turn' = "rest" /\ astray' = TRUE
    /\ Writes("compactFailed")
    /\ UNCHANGED <<queued, shell, subagent, hooks>> /\ Unheard

(* The session file catches up; while it is rewritten a read is torn.       *)
WritesFile(now) ==
    /\ now # file
    /\ now = Truth \/ (now = "torn" /\ file # Truth)
    /\ file' = now /\ sessWake' = TRUE
    /\ UNCHANGED <<agentVars, hooks, deaf, lost, lines, fsWake, loopVars, diskVars>>

(* A hook is lost: its socket was removed, or its connection timed out.     *)
LosesHook ==
    /\ deaf /\ hooks # <<>> /\ lost < MaxLost
    /\ Head(hooks) \in {"PromptSubmit", "Stop"}
    /\ hooks' = Tail(hooks) /\ lost' = lost + 1
    /\ UNCHANGED <<agentVars, deaf, lines, fsWake, file, sessWake, loopVars, diskVars>>
-----------------------------------------------------------------------------
(* The launcher's loop.                                                     *)

(* parse_session_activity: a torn read tells nothing.                       *)
Read == IF file = "torn" THEN "none" ELSE file

(* A bug: a turn that ends is over, whatever the session file says.         *)
StatusAfterStop_Blunt == IF Read = "shell" THEN "background" ELSE "idle"

StatusAfterStop ==
    IF status = "active" /\ Read = "busy" THEN "active"
    ELSE IF Read = "shell" THEN "background" ELSE "idle"

StatusAfterCompact == IF Read = "shell" THEN "background" ELSE "compacted"

(* dispatch_hook and dispatch_default.                                      *)
Dispatch(h) ==
    CASE h = "SessionStart" -> IF status = "starting" THEN "idle" ELSE status
      [] h \in {"PromptSubmit", "ToolUse"} -> "active"
      [] h = "PermissionRequest" -> "approval"
      [] h = "Elicitation" -> "decision"
      [] h = "Stop" -> StatusAfterStop
      [] h = "StopFailure" -> "idle"
      [] h = "PreCompact" -> "compacting"
      [] h = "PostCompact" -> StatusAfterCompact

(* Whatever an iteration was about, a session that is starting has started. *)
Started(s) == IF s = "starting" THEN "idle" ELSE s

Select == pc = "select" /\ before' = status /\ pc' = "tail"

(* A Stop that finds the file at work, and the row not: the row rests.      *)
Overrules == Head(hooks) = "Stop" /\ Read = "busy" /\ status # "active"

AcceptsHook ==
    /\ Select /\ hooks # <<>>
    /\ hooks' = Tail(hooks)
    /\ LET s == Dispatch(Head(hooks))
       IN  /\ status' = Started(s)
           /\ grace' = IF s # "approval" THEN "none"
                       ELSE IF status # "approval" THEN "fresh" ELSE grace
    /\ changed' = TRUE
    /\ IF Overrules THEN astray' = TRUE ELSE UNCHANGED astray
    /\ UNCHANGED <<turn, queued, shell, subagent, steps, deaf, lost, lines, fsWake, file, sessWake,
                   activity, throttle, diskVars>>

(* on_transcript_changed: a write after the grace period means that what    *)
(* was asked has been answered.                                             *)
Unasked == IF status = "approval" /\ grace # "fresh" THEN "active" ELSE status

(* rescan_transcript.                                                       *)
Scanned(s) ==
    IF "interrupted" \in lines \/ ("compactFailed" \in lines /\ s = "compacting")
    THEN "idle" ELSE s

TranscriptChanged ==
    /\ Select /\ fsWake
    /\ fsWake' = FALSE /\ lines' = {}
    /\ status' = Started(Scanned(Unasked))
    /\ grace' = IF Unasked # "approval" THEN "none" ELSE grace
    /\ changed' = ("text" \in lines \/ status' # status)
    /\ UNCHANGED <<agentVars, hooks, deaf, lost, file, sessWake, activity, throttle, diskVars>>

(* A bug: only a hook takes down a shell that has ended.                    *)
Reconciled_Shell(s, act) ==
    CASE s = "active" /\ act = "idle" -> "idle"
      [] s \in {"active", "idle", "compacted"} /\ act = "shell" -> "background"
      [] s = "idle" /\ act = "busy" -> "active"
      [] OTHER -> s

(* reconcile_activity: what a read of the session file settles s to.        *)
Reconciled(s, act) ==
    CASE s = "active" /\ act = "idle" -> "idle"
      [] s \in {"active", "idle", "compacted"} /\ act = "shell" -> "background"
      [] s = "idle" /\ act = "busy" -> "active"
      [] s = "background" /\ act = "idle" -> "idle"
      [] OTHER -> s

SessionFileChanged ==
    /\ Select /\ sessWake
    /\ sessWake' = FALSE
    /\ LET s == Started(status)
       IN  /\ activity' = IF s \in {"active", "idle", "compacted", "background"}
                          THEN Read ELSE "none"
           /\ status' = Reconciled(s, activity')
    /\ changed' = (status' # status)
    /\ UNCHANGED <<agentVars, hooks, deaf, lost, lines, fsWake, file, grace, throttle, diskVars>>

(* The write throttle's deadline is an event of its own.                    *)
Deadline ==
    /\ Select /\ throttle = "past"
    /\ status' = Started(status)
    /\ changed' = (status' # status)
    /\ UNCHANGED <<agentVars, wordVars, grace, activity, throttle, diskVars>>

(* promote_stale_background: the process tree is read after the file was.   *)
Promoted == status = "background" /\ activity = "busy" /\ ~shell

(* A bug: a question waits for the throttle like everything else.           *)
Marked_Late(s, dirty) ==
    IF dirty /\ throttle = "clean" THEN "armed" ELSE throttle

(* WriteThrottle::mark: what the user must see is flushed at once.          *)
Marked(s, dirty) ==
    IF ~dirty THEN throttle
    ELSE IF s \in Asking /\ before \notin Asking THEN "past"
    ELSE IF throttle = "clean" THEN "armed" ELSE throttle

(* The rest of an iteration, whatever it was about.                         *)
Finishes ==
    /\ pc = "tail"
    /\ pc' = "select"
    /\ status' = IF Promoted THEN "active" ELSE status
    /\ LET t == Marked(status', changed \/ Promoted)
       IN  IF t = "past"
           THEN updates' = Append(updates, status') /\ throttle' = "clean"
           ELSE throttle' = t /\ UNCHANGED updates
    /\ changed' = FALSE /\ activity' = "none" /\ before' = status'
    /\ UNCHANGED <<agentVars, wordVars, grace, kept, retry, row, fails>>

(* The clock.  A write that is about the question is read within the grace  *)
(* period of the question.                                                  *)
FlushIsDue ==
    /\ throttle = "armed"
    /\ throttle' = "past"
    /\ UNCHANGED <<agentVars, wordVars, status, grace, pc, before, changed, activity, diskVars>>

GracePasses ==
    /\ grace = "fresh" /\ ~fsWake
    /\ grace' = "past"
    /\ UNCHANGED <<agentVars, wordVars, status, pc, before, changed, activity, throttle, diskVars>>
-----------------------------------------------------------------------------
(* The launcher's drive: it writes what is published, and retries.          *)

(* A bug: a write that fails is given up.                                   *)
Saves_Once(s, ok) ==
    /\ kept' = s /\ retry' = FALSE
    /\ IF ok THEN row' = s /\ UNCHANGED fails
             ELSE fails < MaxFails /\ fails' = fails + 1 /\ UNCHANGED row
    /\ UNCHANGED <<agentVars, wordVars, loopVars>>

Saves(s, ok) ==
    /\ kept' = s
    /\ IF ok THEN row' = s /\ UNCHANGED fails
             ELSE fails < MaxFails /\ fails' = fails + 1 /\ UNCHANGED row
    /\ retry' = ~ok
    /\ UNCHANGED <<agentVars, wordVars, loopVars>>

Persists(ok) ==
    /\ updates # <<>>
    /\ updates' = Tail(updates)
    /\ Saves(Head(updates), ok)

Retries(ok) ==
    /\ retry
    /\ Saves(kept, ok)
    /\ UNCHANGED updates
-----------------------------------------------------------------------------
Agent ==
    \/ Submits \/ Queues \/ IsAnswered \/ TurnEnds \/ TurnFails \/ Cancels \/ Flushes
    \/ HasCompacted \/ CompactFails
    \/ \E s, a \in BOOLEAN : UsesTool(s, a) \/ (\E again \in BOOLEAN : BackgroundEnds(s, a, again))
    \/ \E what \in {"ask", "decide"} : Asks(what)
    \/ \E how \in {"compact", "auto"} : Compacts(how)

Loop == AcceptsHook \/ TranscriptChanged \/ SessionFileChanged \/ Deadline \/ Finishes
Drive == \E ok \in BOOLEAN : (Persists(ok) \/ Retries(ok))

Next ==
    \/ Agent \/ LosesHook
    \/ \E now \in {"busy", "shell", "idle", "torn"} : WritesFile(now)
    \/ Loop \/ FlushIsDue \/ GracePasses
    \/ Drive

Spec == Init /\ [][Next]_statusVars

(* The loop and the drive are tasks that are polled for ever, and clocks    *)
(* advance; neither the agent nor its user owes anything.                   *)
FairSpec == Spec /\ WF_statusVars(Loop) /\ WF_statusVars(FlushIsDue) /\ WF_statusVars(Drive)
-----------------------------------------------------------------------------
AgentTypes ==
    /\ turn \in {"rest", "work", "ask", "decide", "compact", "auto"}
    /\ queued \in BOOLEAN /\ shell \in BOOLEAN /\ subagent \in BOOLEAN /\ astray \in BOOLEAN
    /\ steps \in 0..MaxSteps
WordTypes ==
    /\ hooks = <<>> \/ \E h \in Hooks : hooks = <<h>>
    /\ lines \subseteq {"text", "interrupted", "compactFailed"}
    /\ file \in {"busy", "shell", "idle", "torn"}
    /\ deaf \in BOOLEAN /\ fsWake \in BOOLEAN /\ sessWake \in BOOLEAN /\ lost \in 0..MaxLost
LoopTypes ==
    /\ status \in Statuses /\ before \in Statuses /\ changed \in BOOLEAN
    /\ grace \in {"none", "fresh", "past"} /\ pc \in {"select", "tail"}
    /\ activity \in {"none", "busy", "shell", "idle"}
    /\ throttle \in {"clean", "armed", "past"}
DiskTypes ==
    /\ kept \in Statuses /\ row \in Statuses /\ updates \in Seq(Statuses)
    /\ retry \in BOOLEAN /\ fails \in 0..MaxFails

(* The accounts of a turn and every copy of the status have their types,    *)
(* and one hook at most waits.                                              *)
AgentStatusTypeOK == AgentTypes /\ WordTypes /\ LoopTypes /\ DiskTypes

(* Every account of what the agent did has been read, the session file      *)
(* being the last to speak.                                                 *)
Settled ==
    /\ pc = "select" /\ hooks = <<>> /\ ~fsWake /\ ~sessWake
    /\ file = Truth

(* An agent that works, itself or through a subagent, is never shown at     *)
(* rest for good: not when its Stop hook came while a subagent ran, not     *)
(* when a queued prompt started a turn no hook speaks of, not when a shell  *)
(* ended as the agent went back to work, and not when the hook that says so *)
(* was lost (status_after_stop, reconcile_activity,                         *)
(* promote_stale_background).  Excepted are a turn that went astray, which  *)
(* includes a Stop that overrules the file, and a row that has compacted.   *)
WorkIsShown ==
    (Settled /\ Truth = "busy" /\ ~astray) =>
        status \in Busy \cup Asking \cup {"compacted"}

(* An agent at rest is never shown at work for good, whichever of hook,     *)
(* transcript and session file came last, and a shell it left behind is     *)
(* shown as such (status_after_stop, status_after_compact,                  *)
(* reconcile_activity, rescan_transcript).                                  *)
RestIsShown ==
    /\ (Settled /\ Truth = "idle") => status \in {"idle", "compacted"}
    /\ (Settled /\ Truth = "shell" /\ ~astray) => status = "background"

Heard == pc = "select" /\ hooks = <<>> /\ ~fsWake
LastSent == IF updates # <<>> THEN updates[Len(updates)] ELSE kept

(* A question to the user is on the row for as long as it is asked - the    *)
(* line of its own tool call, which may be read after the hook, does not    *)
(* take it down, nor does the session file - and a row that asks is never   *)
(* held back by the write throttle (on_transcript_changed's grace, the      *)
(* separate sess_tx channel, WriteThrottle::mark).                          *)
AskIsSent ==
    /\ (Heard /\ turn \in {"ask", "decide"} /\ ~astray) => status \in Asking
    /\ (pc = "select" /\ status \in Asking) => LastSent \in Asking

(* Once nothing more happens, sessions/<pid>.json says what the loop says:  *)
(* nothing is left in the throttle, and a write that failed is made up for, *)
(* with what was published last (flush_due, launcher.rs drive).             *)
RowCatchesUp == <>[](row = status)
=============================================================================
