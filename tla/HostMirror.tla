------------------------------ MODULE HostMirror ------------------------------
(***************************************************************************)
(* How a dashboard mirrors a host's sessions: the daemon's subscription    *)
(* push (crates/cm-server/src/server.rs, handle_conn and push_changes) and *)
(* the dashboard's connection task that applies it                         *)
(* (src/backend/mod.rs, serve_protocol and connection_task).               *)
(*                                                                         *)
(* The daemon tells a connection that something changed (a broadcast that  *)
(* holds no data); the handler re-reads the rows and writes one frame per  *)
(* difference from what this connection was last sent.  The dashboard      *)
(* applies frames in order and forgets everything when the link drops.     *)
(* What the dashboard does with the mirror is SessionTable.                *)
(*                                                                         *)
(* A row's `gen` numbers the sessions that had its key.  Under a live row  *)
(* it stands for the row's content; under an absent one it is history: the *)
(* session whose end the absence is.  No guard of the code reads that.     *)
(***************************************************************************)
EXTENDS Naturals, Sequences

CONSTANTS
    Keys,       \* session keys
    MaxGen,     \* bound: sessions that have one key, one after the other
    MaxChurn,   \* bound: changes on the host and losses of the link
    MaxFrames   \* bound: frames on the wire; a full pipe blocks the daemon

ASSUME HostMirrorAssumption ==
    MaxGen \in Nat /\ MaxChurn \in Nat /\ MaxFrames \in Nat \ {0}

VARIABLES
    host,      \* what LocalBackend::list_sessions would return
    churn,     \* host changes and link losses so far
    srv,       \* where the connection's handler is
    wake,      \* has its broadcast receiver an unseen signal?
    cur,       \* the rows it last read
    lastSent,  \* what this connection was last sent
    chan,      \* frames on their way to the dashboard
    conn,      \* ConnState; Failed is "down", a label on the same wait
    mirror,    \* the dashboard's copy
    mirrored,  \* is it the host's account of itself?
    seen       \* history: the last mirror that was one

hostVars   == <<host, churn>>
serverVars == <<srv, wake, cur, lastSent>>
clientVars == <<conn, mirror, mirrored, seen>>
mirrorVars == <<host, churn, srv, wake, cur, lastSent, chan, conn, mirror,
                mirrored, seen>>

Row == [gen : 0..MaxGen, live : BOOLEAN, attached : BOOLEAN]

Absent(g) == [gen |-> g, live |-> FALSE, attached |-> FALSE]
NoRows    == [k \in Keys |-> Absent(0)]

\* What the code can tell: two absent rows are the same.
Same(r, s) == (r.live <=> s.live) /\ (r.live => r = s)

SnapshotOf(rows)  == [kind |-> "Snapshot", rows |-> rows]
DeltaOf(k, r)     == [kind |-> "Delta", key |-> k, row |-> r]
RemovedOf(k, r)   == [kind |-> "Removed", key |-> k, row |-> r]

Frame == [kind : {"Snapshot"}, rows : [Keys -> Row]]
         \cup [kind : {"Delta", "Removed"}, key : Keys, row : Row]

\* The frame's account of k, and the mirror after it.
Mentions(f, k) == f.kind = "Snapshot" \/ f.key = k
Account(f, k)  == IF f.kind = "Snapshot" THEN f.rows[k] ELSE f.row
Applied(f, m)  == [k \in Keys |-> IF Mentions(f, k) THEN Account(f, k) ELSE m[k]]

MirrorTypeOK ==
    /\ host \in [Keys -> Row]
    /\ churn \in 0..MaxChurn
    /\ srv \in {"none", "accepted", "subscribe", "snapshot", "idle", "woken", "pushing"}
    /\ wake \in BOOLEAN
    /\ cur \in [Keys -> Row]
    /\ lastSent \in [Keys -> Row]
    /\ chan \in Seq(Frame) /\ Len(chan) <= MaxFrames
    /\ conn \in {"down", "connecting", "connected"}
    /\ mirror \in [Keys -> Row]
    /\ mirrored \in BOOLEAN
    /\ seen \in [Keys -> Row]

MirrorInit ==
    /\ host \in [Keys -> {r \in Row : IF r.live THEN r.gen = 1 ELSE r = Absent(0)}]
    /\ churn = 0
    /\ srv = "none"
    /\ wake = FALSE
    /\ cur = NoRows
    /\ lastSent = NoRows
    /\ chan = <<>>
    /\ conn = "down"
    /\ mirror = NoRows
    /\ mirrored = FALSE
    /\ seen = NoRows

------------------------------------------------------------------------------
(* The host: launchers and the pty pool's hooks *)

\* The broadcast reaches every receiver there is; a connection has had one
\* since it was accepted, before it asked for anything.
Listening_AfterSnapshot == srv \in {"idle", "woken", "pushing"}
Listening == srv # "none"

\* A change to a state file (the sessions/ watch) or to the pool's attached
\* map (PoolHooks::set), each followed by a wake of the subscribers.
HostChanges(k, r) ==
    /\ churn < MaxChurn
    /\ churn' = churn + 1
    /\ host' = [host EXCEPT ![k] = r]
    /\ wake' = Listening
    /\ UNCHANGED <<srv, cur, lastSent, chan>>
    /\ UNCHANGED clientVars

\* A launcher starts under a free pid; a pooled one is born attached.
Launch(k) ==
    /\ ~host[k].live
    /\ host[k].gen < MaxGen
    /\ \E a \in BOOLEAN :
          HostChanges(k, [gen |-> host[k].gen + 1, live |-> TRUE, attached |-> a])

End(k) ==
    /\ host[k].live
    /\ HostChanges(k, Absent(host[k].gen))

\* A client takes or leaves the pool session.
Attach(k) ==
    /\ host[k].live
    /\ ~host[k].attached
    /\ HostChanges(k, [host[k] EXCEPT !.attached = TRUE])

Detach(k) ==
    /\ host[k].live
    /\ host[k].attached
    /\ HostChanges(k, [host[k] EXCEPT !.attached = FALSE])

------------------------------------------------------------------------------
(* The daemon's connection handler *)

\* serve's accept arm: the receiver is made here, and only then is the
\* handler spawned.
Accept ==
    /\ conn = "connecting"
    /\ srv = "none"
    /\ srv' = "accepted"
    /\ wake' = FALSE
    /\ UNCHANGED <<cur, lastSent, chan>>
    /\ UNCHANGED hostVars
    /\ UNCHANGED clientVars

\* Hello, Welcome, Subscribe.  The dashboard calls itself connected once it
\* has written Subscribe, before the snapshot is there.
Handshake ==
    /\ srv = "accepted"
    /\ srv' = "subscribe"
    /\ conn' = "connected"
    /\ UNCHANGED <<wake, cur, lastSent, chan, mirror, mirrored, seen>>
    /\ UNCHANGED hostVars

ReadSnapshot ==
    /\ srv = "subscribe"
    /\ srv' = "snapshot"
    /\ cur' = host
    /\ UNCHANGED <<wake, lastSent, chan>>
    /\ UNCHANGED hostVars
    /\ UNCHANGED clientVars

Writable == Len(chan) < MaxFrames

SendSnapshot ==
    /\ srv = "snapshot"
    /\ Writable
    /\ chan' = Append(chan, SnapshotOf(cur))
    /\ lastSent' = cur
    /\ srv' = "idle"
    /\ UNCHANGED <<wake, cur>>
    /\ UNCHANGED hostVars
    /\ UNCHANGED clientVars

\* changes.recv(), polled only once subscribed.  Lagged counts as a change.
Wake ==
    /\ srv = "idle"
    /\ wake
    /\ wake' = FALSE
    /\ srv' = "woken"
    /\ UNCHANGED <<cur, lastSent, chan>>
    /\ UNCHANGED hostVars
    /\ UNCHANGED clientVars

ReadRows ==
    /\ srv = "woken"
    /\ srv' = "pushing"
    /\ cur' = host
    /\ UNCHANGED <<wake, lastSent, chan>>
    /\ UNCHANGED hostVars
    /\ UNCHANGED clientVars

Gone_OrChanged(k) == lastSent[k].live /\ cur[k] # lastSent[k]
Gone(k)    == lastSent[k].live /\ ~cur[k].live
Changed(k) == cur[k].live /\ lastSent[k] # cur[k]

\* push_changes writes the Removed frames, then the Deltas, and only then
\* replaces last_sent; nothing reads last_sent in between, and a failed write
\* ends the connection, so here each key is replaced with its frame.
Push(k, f) ==
    /\ srv = "pushing"
    /\ Writable
    /\ chan' = Append(chan, f)
    /\ lastSent' = [lastSent EXCEPT ![k] = f.row]
    /\ UNCHANGED <<srv, wake, cur>>
    /\ UNCHANGED hostVars
    /\ UNCHANGED clientVars

PushRemoved(k) == Gone(k) /\ Push(k, RemovedOf(k, Absent(cur[k].gen)))

PushDelta(k) ==
    /\ \A j \in Keys : ~Gone(j)
    /\ Changed(k)
    /\ Push(k, DeltaOf(k, cur[k]))

PushDone ==
    /\ srv = "pushing"
    /\ \A k \in Keys : ~Gone(k) /\ ~Changed(k)
    /\ srv' = "idle"
    /\ UNCHANGED <<wake, cur, lastSent, chan>>
    /\ UNCHANGED hostVars
    /\ UNCHANGED clientVars

------------------------------------------------------------------------------
(* The dashboard's connection task *)

Dial ==
    /\ conn = "down"
    /\ conn' = "connecting"
    /\ UNCHANGED <<chan, mirror, mirrored, seen>>
    /\ UNCHANGED hostVars
    /\ UNCHANGED serverVars

\* setup_ssh or connect_with_retry gave up.
DialFails ==
    /\ conn = "connecting"
    /\ srv = "none"
    /\ churn < MaxChurn
    /\ churn' = churn + 1
    /\ conn' = "down"
    /\ UNCHANGED <<host, chan, mirror, mirrored, seen>>
    /\ UNCHANGED serverVars

\* One pushed frame.
Receive ==
    /\ conn = "connected"
    /\ chan # <<>>
    /\ chan' = Tail(chan)
    /\ mirror' = Applied(Head(chan), mirror)
    /\ mirrored' = (mirrored \/ Head(chan).kind = "Snapshot")
    /\ seen' = IF mirrored' THEN mirror' ELSE seen
    /\ UNCHANGED conn
    /\ UNCHANGED hostVars
    /\ UNCHANGED serverVars

LinkLost_Unnoticed ==
    /\ srv # "none"
    /\ churn < MaxChurn
    /\ churn' = churn + 1
    /\ srv' = "none"
    /\ wake' = FALSE
    /\ chan' = <<>>
    /\ mirrored' = FALSE
    /\ mirror' = NoRows
    /\ UNCHANGED <<host, cur, lastSent, conn, seen>>

\* The stream ended, a frame did not parse, the handshake was refused or a
\* wake probe found the link dead.  What was on the wire is lost, and what the
\* old handler may still write reaches nobody.
LinkLost ==
    /\ srv # "none"
    /\ churn < MaxChurn
    /\ churn' = churn + 1
    /\ conn' = "down"
    /\ srv' = "none"
    /\ wake' = FALSE
    /\ chan' = <<>>
    /\ mirrored' = FALSE
    /\ mirror' = NoRows
    /\ UNCHANGED <<host, cur, lastSent, seen>>

------------------------------------------------------------------------------

HostStep == \E k \in Keys : Launch(k) \/ End(k) \/ Attach(k) \/ Detach(k)

ServerStep ==
    \/ Accept \/ Handshake \/ ReadSnapshot \/ SendSnapshot
    \/ Wake \/ ReadRows \/ PushDone
    \/ \E k \in Keys : PushRemoved(k) \/ PushDelta(k)

MirrorNext == HostStep \/ ServerStep \/ Dial \/ DialFails \/ Receive \/ LinkLost

MirrorSpec == MirrorInit /\ [][MirrorNext]_mirrorVars

\* The handler and the connection task are async loops that are always polled
\* again; dialling is retried for ever.  Nothing obliges the host to change or
\* the link to drop.
MirrorFairness ==
    /\ WF_mirrorVars(ServerStep)
    /\ WF_mirrorVars(Dial)
    /\ WF_mirrorVars(Receive)

------------------------------------------------------------------------------
(* Properties *)

\* Nothing is on its way to the dashboard.
Quiet == srv = "idle" /\ ~wake /\ chan = <<>> /\ conn = "connected"

\* No change is ever missed: once the wire is empty and no wake is pending the
\* mirror is the host's list.  A change between the snapshot's read and the
\* first recv, or while a push is being written, must not fall through.
QuietMirrorAgrees ==
    Quiet => mirrored /\ \A k \in Keys : Same(mirror[k], host[k])

\* Whatever happened on the way, the mirror agrees with the host again and
\* again once the host is left in peace and the link holds.
MirrorSettles ==
    []<>(mirrored /\ \A k \in Keys : Same(mirror[k], host[k]))

\* The invariant behind both.  What a connection was sent is what its mirror
\* will be once the frames on the wire are applied (InStep); what it was sent
\* is the host's list unless a wake is pending or being served (UpToDate); and
\* every copy of a row is at most as new as the copies upstream (Forward).
Subscribed == srv \in {"idle", "woken", "pushing"}

Wired ==
    /\ conn = "connected" <=> srv \notin {"none", "accepted"}
    /\ srv = "accepted" => conn = "connecting"
    /\ srv = "none" => ~wake
    /\ ~Subscribed => chan = <<>> /\ ~mirrored
    /\ ~mirrored => mirror = NoRows
    /\ mirrored => seen = mirror

SnapshotFirst ==
    /\ Subscribed /\ ~mirrored => chan # <<>> /\ chan[1].kind = "Snapshot"
    /\ \A i \in 1..Len(chan) : chan[i].kind = "Snapshot" => i = 1 /\ ~mirrored

LastMention(i, k) ==
    /\ Mentions(chan[i], k)
    /\ \A j \in 1..Len(chan) : j > i => ~Mentions(chan[j], k)

InStep ==
    Subscribed =>
        \A k \in Keys :
            /\ \A i \in 1..Len(chan) :
                  LastMention(i, k) => Account(chan[i], k) = lastSent[k]
            /\ (\A i \in 1..Len(chan) : ~Mentions(chan[i], k))
                  => mirror[k] = lastSent[k]

UpToDate ==
    ~wake => /\ srv = "idle" => \A k \in Keys : Same(lastSent[k], host[k])
             /\ srv \in {"snapshot", "pushing"} => cur = host

NotAfter(r, s) == r.gen < s.gen \/ (r.gen = s.gen /\ (s.live => r.live))

Reading == srv \in {"snapshot", "pushing"}

Forward ==
    \A k \in Keys :
        /\ NotAfter(seen[k], host[k])
        /\ Reading => NotAfter(cur[k], host[k]) /\ NotAfter(seen[k], cur[k])
        /\ \A i \in 1..Len(chan) :
              Mentions(chan[i], k) =>
                  /\ NotAfter(seen[k], Account(chan[i], k))
                  /\ NotAfter(Account(chan[i], k), host[k])
                  /\ Reading => NotAfter(Account(chan[i], k), cur[k])
                  /\ \A j \in 1..Len(chan) :
                        j > i /\ Mentions(chan[j], k) =>
                            NotAfter(Account(chan[i], k), Account(chan[j], k))

MirrorInv ==
    /\ MirrorTypeOK /\ Wired /\ SnapshotFirst
    /\ InStep /\ UpToDate /\ Forward

\* The mirror never goes back: HostAccount, with the last account the
\* dashboard had in place of the one it forgets while the link is down.
AccountOf == INSTANCE HostAccount WITH view <- seen, known <- mirrored
ImplementsAccount == AccountOf!Spec
==============================================================================
