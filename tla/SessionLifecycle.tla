-------------------------- MODULE SessionLifecycle --------------------------
(***************************************************************************)
(* The life of one terminal session: the goroutine that session.Manager    *)
(* starts for it and what that goroutine acquires and gives back           *)
(* (runDetachableBridge for a browser session, handleConnectCommand for a  *)
(* CLI one, RunBridgeDetachable inside both), against the requests that    *)
(* stop it, Manager.Stop's timeout, and the session list of a browser that *)
(* refetches it when told to.                                              *)
(*                                                                         *)
(* Session IDs are never reused, so one session is enough.  Its room is    *)
(* only open or not here; what handlers do in it is in JoinProtocol.       *)
(***************************************************************************)
CONSTANT Stoppers   \* requests that stop the session

VARIABLES
  origin,      \* where it was started: "browser" or "cli"
  worker,      \* where the session's goroutine is
  listed,      \* Manager.sessions has the session
  cancelled,   \* its context is cancelled
  upstream,    \* the connection to the target
  recording,   \* the cast file: "none", "off", "open" or "closed"
  roomOpen,    \* the sharing registry has a room for it
  reopened,    \* history: a handler made that room after the goroutine had removed it
  registered,  \* the bridge registry has its bridge
  visiting,    \* some handler has found the session and will ask for its room
  stopper,     \* the stop requests
  starter,     \* the request that started it: "idle", "started" or "announced"
  notified,    \* a session_change event is on its way to the browser
  seen         \* the browser shows the session

room == <<roomOpen, reopened>>
resources == <<upstream, recording, room, registered>>
frontend == <<starter, notified, seen>>
lifeVars == <<origin, visiting, worker, listed, cancelled, resources, stopper, frontend>>

IdleStop == [pc |-> "idle", kind |-> "none", clean |-> FALSE]

\* delete: the owner, or an admin; purge: a user is deleted or disabled; ctrl-d:
\* the CLI user ends the session.
StopKinds == {"delete", "purge"} \cup IF origin = "cli" THEN {"ctrl-d"} ELSE {}

LifeInit ==
  /\ origin \in {"browser", "cli"}
  /\ worker = "idle"
  /\ listed = FALSE
  /\ cancelled = FALSE
  /\ upstream = "none"
  /\ recording = "none"
  /\ roomOpen = FALSE
  /\ reopened = FALSE
  /\ registered = FALSE
  /\ visiting = FALSE
  /\ stopper = [s \in Stoppers |-> IdleStop]
  /\ starter = "idle"
  /\ notified = FALSE
  /\ seen = FALSE

------------------------------------------------------------------------------
(* The goroutine.                                                           *)

WorkerTo(from, to) == worker = from /\ worker' = to

\* Manager.Start, under the manager's lock.
Start ==
  /\ WorkerTo("idle", "setup")
  /\ listed' = TRUE
  /\ starter' = "started"
  /\ UNCHANGED <<origin, visiting, cancelled, resources, stopper, notified, seen>>

\* setupRecording: no directory is configured, the file cannot be created, or it is open.
SetupRecording ==
  /\ WorkerTo("setup", "room")
  /\ recording' \in {"off", "open"}
  /\ UNCHANGED <<origin, visiting, listed, cancelled, upstream, room, registered, stopper, frontend>>

OpenRoom ==
  /\ WorkerTo("room", "dial")
  /\ roomOpen' = TRUE
  /\ UNCHANGED <<origin, visiting, reopened, listed, cancelled, upstream, recording, registered, stopper, frontend>>

\* The deferred calls, last to first; the CLI defers only the recording's.
FirstDefer == IF origin = "browser" THEN "unregister" ELSE "record"

\* The dial does not look at the context.
DialFails ==
  /\ WorkerTo("dial", FirstDefer)
  /\ UNCHANGED <<origin, visiting, listed, cancelled, resources, stopper, frontend>>

DialSucceeds ==
  /\ WorkerTo("dial", "running")
  /\ upstream' = "open"
  /\ registered' = TRUE
  /\ UNCHANGED <<origin, visiting, listed, cancelled, recording, room, stopper, frontend>>

\* The target ends the session: environment.
RemoteCloses ==
  /\ upstream = "open"
  /\ upstream' = "ended"
  /\ UNCHANGED <<origin, visiting, worker, listed, cancelled, recording, room, registered, stopper, frontend>>

\* The bridge waits for the target only.
RunEndsFault ==
  /\ upstream = "ended"
  /\ WorkerTo("running", "cleanup")
  /\ UNCHANGED <<origin, visiting, listed, cancelled, resources, stopper, frontend>>

\* run returns when the context is done or the output pumps have ended.
RunEnds ==
  /\ cancelled \/ upstream \in {"ended", "closed"}
  /\ WorkerTo("running", "cleanup")
  /\ UNCHANGED <<origin, visiting, listed, cancelled, resources, stopper, frontend>>

\* The goroutine waits for a peer without a deadline, and the peer never answers:
\* the browser that is told "ready", the target between the TCP connect and the
\* shell, a client that reads neither its replay nor the end message (written under
\* clientMu), the browser that is told the outcome.  The context ends none of these
\* waits.  Environment.
WorkerHangs ==
  /\ worker \in {"setup", "dial", "running", FirstDefer}
  /\ worker' = "hung"
  /\ UNCHANGED <<origin, visiting, listed, cancelled, resources, stopper, frontend>>

\* doCleanup, from the goroutine that waits for the cancellation.
CleanupOnCancel ==
  /\ cancelled
  /\ upstream \in {"open", "ended"}
  /\ upstream' = "closed"
  /\ UNCHANGED <<origin, visiting, worker, listed, cancelled, recording, room, registered, stopper, frontend>>

\* cleanup() itself hangs, whoever called it: environment.
CleanupHangs ==
  /\ cancelled \/ worker = "cleanup"
  /\ upstream \in {"open", "ended"}
  /\ upstream' = "hung"
  /\ UNCHANGED <<origin, visiting, worker, listed, cancelled, recording, room, registered, stopper, frontend>>

\* The deferred doCleanup; sync.Once makes it wait for the other caller.
Cleanup ==
  /\ upstream # "hung"
  /\ WorkerTo("cleanup", FirstDefer)
  /\ upstream' = "closed"
  /\ UNCHANGED <<origin, visiting, listed, cancelled, recording, room, registered, stopper, frontend>>

\* The bridge is left in the registry.
UnregisterFault ==
  /\ WorkerTo("unregister", "remove")
  /\ UNCHANGED <<origin, visiting, listed, cancelled, resources, stopper, frontend>>

Unregister ==
  /\ WorkerTo("unregister", "remove")
  /\ registered' = FALSE
  /\ UNCHANGED <<origin, visiting, listed, cancelled, upstream, recording, room, stopper, frontend>>

\* The room stays in the registry.
RemoveRoomFault ==
  /\ WorkerTo("remove", "record")
  /\ UNCHANGED <<origin, visiting, listed, cancelled, resources, stopper, frontend>>

RemoveRoom ==
  /\ WorkerTo("remove", "record")
  /\ roomOpen' = FALSE /\ reopened' = FALSE
  /\ UNCHANGED <<origin, visiting, listed, cancelled, upstream, recording, registered, stopper, frontend>>

CloseRecording ==
  /\ WorkerTo("record", IF origin = "browser" THEN "announce" ELSE "delete")
  /\ recording' = IF recording = "open" THEN "closed" ELSE recording
  /\ UNCHANGED <<origin, visiting, listed, cancelled, upstream, room, registered, stopper, frontend>>

\* SessionEventBroker.Broadcast, before the manager forgets the session.
AnnounceEnd ==
  /\ WorkerTo("announce", "delete")
  /\ notified' = TRUE
  /\ UNCHANGED <<origin, visiting, listed, cancelled, resources, stopper, starter, seen>>

Delete ==
  /\ WorkerTo("delete", "closing")
  /\ listed' = FALSE
  /\ UNCHANGED <<origin, visiting, cancelled, resources, stopper, frontend>>

CloseDone ==
  /\ WorkerTo("closing", "done")
  /\ UNCHANGED <<origin, visiting, listed, cancelled, resources, stopper, frontend>>

------------------------------------------------------------------------------
(* Stopping: handleTerminalSessionDelete, handleAdminTerminateSession,      *)
(* stopSessionsOwnedBy and the CLI, all through Manager.Stop.               *)

StopperAt(s, pc) == stopper[s].pc = pc
To(s, pc) == stopper' = [stopper EXCEPT ![s].pc = pc]

StopRequest(s, kind) ==
  /\ StopperAt(s, "idle")
  /\ listed
  /\ stopper' = [stopper EXCEPT ![s] =
                   [pc |-> IF kind = "purge" THEN "purge" ELSE "lookup", kind |-> kind, clean |-> FALSE]]
  /\ UNCHANGED <<origin, visiting, worker, listed, cancelled, resources, frontend>>

PurgeRoom(s) ==
  /\ StopperAt(s, "purge")
  /\ To(s, "lookup")
  /\ roomOpen' = FALSE /\ reopened' = FALSE
  /\ UNCHANGED <<origin, visiting, worker, listed, cancelled, upstream, recording, registered, frontend>>

\* What follows a Stop that reports clean.
Stopped(s, clean) ==
  stopper' = [stopper EXCEPT ![s].clean = clean,
                             ![s].pc = CASE stopper[s].kind = "delete" -> "remove"
                                         [] stopper[s].kind = "purge" -> "announce"
                                         [] OTHER -> "end"]

StopLookup(s) ==
  /\ StopperAt(s, "lookup")
  /\ IF listed
     THEN cancelled' = TRUE /\ To(s, "wait")
     ELSE Stopped(s, TRUE) /\ UNCHANGED cancelled
  /\ UNCHANGED <<origin, visiting, worker, listed, resources, frontend>>

StopFinished(s) ==
  /\ StopperAt(s, "wait")
  /\ worker = "done"
  /\ Stopped(s, TRUE)
  /\ UNCHANGED <<origin, visiting, worker, listed, cancelled, resources, frontend>>

\* The session is reported as stopped although its goroutine is alive.
StopTimesOutFault(s) ==
  /\ StopperAt(s, "wait")
  /\ listed' = FALSE
  /\ Stopped(s, TRUE)
  /\ UNCHANGED <<origin, visiting, worker, cancelled, resources, frontend>>

\* stopTimeout may fire at any point of the goroutine's unwinding; a select with
\* both cases ready picks either.
StopTimesOut(s) ==
  /\ StopperAt(s, "wait")
  /\ listed' = FALSE
  /\ Stopped(s, FALSE)
  /\ UNCHANGED <<origin, visiting, worker, cancelled, resources, frontend>>

\* Stop gives up without forgetting the session.
StopWaitsFault(s) == StopFinished(s)
StopWaits(s) == StopFinished(s) \/ StopTimesOut(s)

RemoveAfterStop(s) ==
  /\ StopperAt(s, "remove")
  /\ To(s, "announce")
  /\ roomOpen' = FALSE /\ reopened' = FALSE
  /\ UNCHANGED <<origin, visiting, worker, listed, cancelled, upstream, recording, registered, frontend>>

AnnounceStop(s) ==
  /\ StopperAt(s, "announce")
  /\ To(s, "end")
  /\ notified' = TRUE
  /\ UNCHANGED <<origin, visiting, worker, listed, cancelled, resources, starter, seen>>

------------------------------------------------------------------------------
(* Handlers that share the session: invitations, joins, an admin who        *)
(* watches.  They find it in the manager first and ask for its room later.  *)

FindSession ==
  /\ listed
  /\ visiting' = TRUE
  /\ UNCHANGED <<origin, worker, listed, cancelled, resources, stopper, frontend>>

\* EnsureRoom makes a room that is not there, also one that the goroutine has just
\* removed.  Another handler may still be on its way.
RoomRemoved == {"record", "announce", "delete", "closing", "done"}

EnsureRoom ==
  /\ visiting
  /\ visiting' \in BOOLEAN
  /\ roomOpen' = TRUE
  /\ reopened' = (reopened \/ (~roomOpen /\ worker \in RoomRemoved))
  /\ UNCHANGED <<origin, worker, listed, cancelled, upstream, recording, registered, stopper, frontend>>

------------------------------------------------------------------------------
(* The browser's session list.  The CLI announces nothing.                  *)

AnnounceStart ==
  /\ origin = "browser"
  /\ starter = "started"
  /\ starter' = "announced"
  /\ notified' = TRUE
  /\ UNCHANGED <<origin, visiting, worker, listed, cancelled, resources, stopper, seen>>

Refetch ==
  /\ notified
  /\ notified' = FALSE
  /\ seen' = listed
  /\ UNCHANGED <<origin, visiting, worker, listed, cancelled, resources, stopper, starter>>

------------------------------------------------------------------------------
Dial == DialFails \/ DialSucceeds

WorkerSteps ==
  \/ SetupRecording \/ OpenRoom \/ Dial \/ RunEnds \/ Cleanup
  \/ Unregister \/ RemoveRoom \/ CloseRecording \/ AnnounceEnd \/ Delete \/ CloseDone

StopSteps(s) ==
  PurgeRoom(s) \/ StopLookup(s) \/ StopWaits(s) \/ RemoveAfterStop(s) \/ AnnounceStop(s)

LifeNext ==
  \/ Start
  \/ WorkerSteps
  \/ WorkerHangs
  \/ RemoteCloses
  \/ CleanupOnCancel
  \/ CleanupHangs
  \/ FindSession
  \/ EnsureRoom
  \/ \E s \in Stoppers : StopSteps(s) \/ \E kind \in StopKinds : StopRequest(s, kind)
  \/ AnnounceStart
  \/ Refetch

\* Goroutines run and timers fire; nobody has to start, stop, share or end a session,
\* and where the goroutine waits for a peer it may hang instead (WorkerHangs,
\* CleanupHangs).
LifeFairness ==
  /\ WF_lifeVars(WorkerSteps)
  /\ WF_lifeVars(CleanupOnCancel)
  /\ \A s \in Stoppers : WF_lifeVars(StopSteps(s))
  /\ WF_lifeVars(AnnounceStart)
  /\ WF_lifeVars(Refetch)

LifeSpec == LifeInit /\ [][LifeNext]_lifeVars /\ LifeFairness

------------------------------------------------------------------------------
\* The values every variable takes.
LifeTypeOK ==
  /\ origin \in {"browser", "cli"}
  /\ worker \in {"idle", "setup", "room", "dial", "running", "cleanup", "unregister", "remove",
                 "record", "announce", "delete", "closing", "done", "hung"}
  /\ upstream \in {"none", "open", "ended", "closed", "hung"}
  /\ recording \in {"none", "off", "open", "closed"}
  /\ {listed, cancelled, roomOpen, reopened, registered, visiting, notified, seen} \subseteq BOOLEAN
  /\ starter \in {"idle", "started", "announced"}
  /\ stopper \in [Stoppers -> [pc : {"idle", "purge", "lookup", "wait", "remove", "announce", "end"},
                               kind : {"none", "delete", "purge", "ctrl-d"}, clean : BOOLEAN]]

\* When the goroutine has finished, nothing of the session is left: not in the
\* manager, no open recording and no connection and, for a browser session, no bridge
\* in the registry and no room, whether it ended by itself, was stopped, was given up
\* on, or never connected.  A room that is there all the same was made after the
\* goroutine had removed its own, by a handler that had found the session listed:
\* the deferred Remove runs before the manager forgets the session.
NothingLeft ==
  worker = "done" => /\ ~listed
                     /\ recording # "open"
                     /\ upstream \in {"none", "closed"}
                     /\ origin = "browser" => ~registered /\ (roomOpen => reopened)

\* "Reports false in that case so callers can audit/alert on it" (Manager.Stop): a
\* session that left the list with its goroutine alive was reported by the Stop that
\* gave up on it.
LeakReported ==
  (~listed /\ worker \notin {"idle", "closing", "done"}) =>
    \E s \in Stoppers : /\ stopper[s].pc \in {"remove", "announce", "end"}
                        /\ ~stopper[s].clean

\* A stop request gets the session out of the list, whatever its goroutine does.
StopUnlists == \A s \in Stoppers : stopper[s].pc = "lookup" ~> ~listed

\* A session that is cancelled, or whose target has gone, ends; only a wait for a
\* peer or a cleanup that hangs can hold it back.
EndsUnlessHung ==
  (cancelled \/ upstream = "ended") ~> (worker \in {"done", "hung"} \/ upstream = "hung")

\* A session that ended left nothing behind, and one that was given up on was
\* reported.
EndsClean == LifeTypeOK /\ NothingLeft /\ LeakReported

=============================================================================
