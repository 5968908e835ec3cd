---------------------------- MODULE VideoRecording ----------------------------
(***************************************************************************)
(* Screen recordings of RDP and VNC sessions.  A goroutine per session     *)
(* waits for a capture slot, starts ffmpeg, writes the row and registers   *)
(* the capture; the end of the session (the bridge's Done, and the DELETE  *)
(* of the session) finishes it at any point of that, once or twice.        *)
(* ffmpeg runs under the recording's context: cancelling it is SIGKILL,    *)
(* Stop is SIGINT and lets the file be finalised.                          *)
(***************************************************************************)
EXTENDS FiniteSets, Naturals

CONSTANTS
  Captures,   \* sessions that are recorded
  Finishers,  \* callers of finishVideoRecording for one session
  LiveSlots   \* maxLiveConcurrent of the governor

ASSUME VideoAssumption == IsFiniteSet(Captures) /\ LiveSlots \in Nat \ {0}

VARIABLES
  grab,      \* runGovernedCapture of each session
  cancelled, \* sessions whose recCtx is cancelled
  ffmpeg,    \* the capture process of each session
  row,       \* the recordings row of each session
  registry,  \* videoRecordingRegistry: pending, active, started
  ownCancel, \* sessions whose handle carries the cancel function
  slots,     \* tokens in liveSem
  released,  \* sessions whose release closure has run
  finisher,  \* the callers of finishVideoRecording
  unmarked   \* sessions finished between the insert of their row and its mark

videoVars == <<grab, cancelled, ffmpeg, row, registry, ownCancel, slots, released,
               finisher, unmarked>>

NotFinishing == [pc |-> "idle", handle |-> FALSE, started |-> FALSE]
GrabAt(s, pc) == grab[s] = pc
GrabTo(s, pc) == grab' = [grab EXCEPT ![s] = pc]
FinishAt(s, f, pc) == finisher[s][f].pc = pc
FinishTo(s, f, pc) == finisher' = [finisher EXCEPT ![s][f].pc = pc]

VideoInit ==
  /\ grab = [s \in Captures |-> "idle"]
  /\ cancelled = {} /\ ownCancel = {} /\ released = {} /\ unmarked = {}
  /\ ffmpeg = [s \in Captures |-> "none"]
  /\ row = [s \in Captures |-> "none"]
  /\ registry = [pending |-> {}, active |-> {}, started |-> {}]
  /\ slots = 0
  /\ finisher = [s \in Captures |-> [f \in Finishers |-> NotFinishing]]

-------------------------------------------------------------------------------
\* startVideoRecording: ids are fresh, so beginPending succeeds.
StartVideoRecording(s) ==
  /\ GrabAt(s, "idle") /\ GrabTo(s, "acquire")
  /\ registry' = [registry EXCEPT !.pending = @ \cup {s}]
  /\ UNCHANGED <<cancelled, ffmpeg, row, ownCancel, slots, released, finisher, unmarked>>

\* Governor.Acquire: a slot, or the context ends the wait (30 minutes also do) and
\* with it the goroutine, whose endPending comes last.
Acquire(s) ==
  /\ GrabAt(s, "acquire")
  /\ \/ slots < LiveSlots /\ slots' = slots + 1 /\ GrabTo(s, "start") /\ UNCHANGED registry
     \/ UNCHANGED slots /\ GrabTo(s, "ended") /\ registry' = [registry EXCEPT !.pending = @ \ {s}]
  /\ UNCHANGED <<cancelled, ffmpeg, row, ownCancel, released, finisher, unmarked>>

\* The starter forks ffmpeg under the context, or fails.
StartCapture(s) ==
  /\ GrabAt(s, "start")
  /\ \/ s \notin cancelled /\ ffmpeg' = [ffmpeg EXCEPT ![s] = "running"] /\ GrabTo(s, "grace")
     \/ UNCHANGED ffmpeg /\ GrabTo(s, "return")
  /\ UNCHANGED <<cancelled, row, registry, ownCancel, slots, released, finisher, unmarked>>

\* x11GrabStartGrace: a process that exits meanwhile is a failed start.  One that
\* runs is stopped if the context was cancelled.
Started(s) ==
  /\ GrabAt(s, "grace")
  /\ IF ffmpeg[s] # "running" THEN GrabTo(s, "return") /\ UNCHANGED ffmpeg
     ELSE IF s \in cancelled
          THEN GrabTo(s, "return") /\ ffmpeg' = [ffmpeg EXCEPT ![s] = "stopped"]
          ELSE GrabTo(s, "insert") /\ UNCHANGED ffmpeg
  /\ UNCHANGED <<cancelled, row, registry, ownCancel, slots, released, finisher, unmarked>>

\* InsertRecording runs under the context, which may be cancelled by now.
InsertRowFault(s) ==
  /\ GrabAt(s, "insert")
  /\ row' = [row EXCEPT ![s] = "open"] /\ GrabTo(s, "mark")
  /\ UNCHANGED <<cancelled, ffmpeg, registry, ownCancel, slots, released, finisher, unmarked>>

InsertRow(s) ==
  /\ GrabAt(s, "insert")
  /\ \/ s \notin cancelled /\ row' = [row EXCEPT ![s] = "open"] /\ GrabTo(s, "mark")
     \/ UNCHANGED row /\ GrabTo(s, "register")
  /\ UNCHANGED <<cancelled, ffmpeg, registry, ownCancel, slots, released, finisher, unmarked>>

MarkStarted(s) ==
  /\ GrabAt(s, "mark") /\ GrabTo(s, "register")
  /\ registry' = [registry EXCEPT !.started = @ \cup {s}]
  /\ UNCHANGED <<cancelled, ffmpeg, row, ownCancel, slots, released, finisher, unmarked>>

\* registerVideoRecording: the cancel function moves from pending to the handle.
RegisterCapture(s) ==
  /\ GrabAt(s, "register") /\ GrabTo(s, "return")
  /\ ownCancel' = ownCancel \cup (registry.pending \cap {s})
  /\ registry' = [registry EXCEPT !.pending = @ \ {s}, !.active = @ \cup {s}]
  /\ UNCHANGED <<cancelled, ffmpeg, row, slots, released, finisher, unmarked>>

\* The deferred release reads `released` and then sets it; so does the one Stop
\* calls, from another goroutine and without a lock.  release takes a token if
\* there is one.  endPending comes last.
Token == IF slots > 0 THEN slots - 1 ELSE 0

ReturnCapture(s) ==
  /\ GrabAt(s, "return")
  /\ GrabTo(s, IF s \in released THEN "ended" ELSE "free")
  /\ registry' = [registry EXCEPT !.pending = IF s \in released THEN @ \ {s} ELSE @]
  /\ UNCHANGED <<cancelled, ffmpeg, row, ownCancel, slots, released, finisher, unmarked>>

FreeSlotFault(s) ==
  /\ GrabAt(s, "free") /\ GrabTo(s, "ended")
  /\ slots' = IF s \in registry.active THEN Token ELSE slots
  /\ released' = released \cup {s}
  /\ registry' = [registry EXCEPT !.pending = @ \ {s}]
  /\ UNCHANGED <<cancelled, ffmpeg, row, ownCancel, finisher, unmarked>>

FreeSlot(s) ==
  /\ GrabAt(s, "free") /\ GrabTo(s, "ended")
  /\ slots' = Token /\ released' = released \cup {s}
  /\ registry' = [registry EXCEPT !.pending = @ \ {s}]
  /\ UNCHANGED <<cancelled, ffmpeg, row, ownCancel, finisher, unmarked>>

-------------------------------------------------------------------------------
\* finishVideoRecording: cancelPending takes the function, then calls it.
CancelPendingFault(s, f) ==
  /\ FinishAt(s, f, "idle") /\ grab[s] # "idle"
  /\ FinishTo(s, f, "take")
  /\ registry' = [registry EXCEPT !.pending = @ \ {s}]
  /\ UNCHANGED <<grab, cancelled, ffmpeg, row, ownCancel, slots, released, unmarked>>

CancelPending(s, f) ==
  /\ FinishAt(s, f, "idle") /\ grab[s] # "idle"
  /\ FinishTo(s, f, IF s \in registry.pending THEN "cancel" ELSE "take")
  /\ registry' = [registry EXCEPT !.pending = @ \ {s}]
  /\ UNCHANGED <<grab, cancelled, ffmpeg, row, ownCancel, slots, released, unmarked>>

CancelContext(s, f) ==
  /\ FinishAt(s, f, "cancel") /\ FinishTo(s, f, "take")
  /\ cancelled' = cancelled \cup {s}
  /\ UNCHANGED <<grab, ffmpeg, row, registry, ownCancel, slots, released, unmarked>>

\* The handle and the mark are read in one critical section.
TakeHandle(s, f) ==
  /\ FinishAt(s, f, "take")
  /\ finisher' = [finisher EXCEPT ![s][f] = [pc |-> IF s \in registry.active THEN "stop" ELSE "close",
                                             handle |-> s \in registry.active,
                                             started |-> s \in registry.started]]
  /\ registry' = [registry EXCEPT !.active = @ \ {s}]
  /\ unmarked' = unmarked \cup (IF GrabAt(s, "mark") THEN {s} ELSE {})
  /\ UNCHANGED <<grab, cancelled, ffmpeg, row, ownCancel, slots, released>>

\* stopVideoRecordingHandle: SIGINT and wait, SIGKILL after 15 s; then governedCapture
\* releases the slot unless that was done.
StopCaptureFault(s, f) ==
  /\ FinishAt(s, f, "stop")
  /\ cancelled' = cancelled \cup (ownCancel \cap {s})
  /\ FinishTo(s, f, IF s \in released THEN "close" ELSE "free")
  /\ UNCHANGED <<grab, ffmpeg, row, registry, ownCancel, slots, released, unmarked>>

StopCapture(s, f) ==
  /\ FinishAt(s, f, "stop")
  /\ ffmpeg' = IF ffmpeg[s] = "running" THEN [ffmpeg EXCEPT ![s] = "stopped"] ELSE ffmpeg
  /\ FinishTo(s, f, IF s \in released THEN "close" ELSE "free")
  /\ UNCHANGED <<grab, cancelled, row, registry, ownCancel, slots, released, unmarked>>

StopReleases(s, f) ==
  /\ FinishAt(s, f, "free") /\ FinishTo(s, f, "close")
  /\ slots' = Token /\ released' = released \cup {s}
  /\ UNCHANGED <<grab, cancelled, ffmpeg, row, registry, ownCancel, unmarked>>

\* Its context is cancelled next, and UpdateRecordingEnded closes a row that was
\* marked started.
CloseRow(s, f) ==
  /\ FinishAt(s, f, "close") /\ FinishTo(s, f, "finished")
  /\ cancelled' = IF finisher[s][f].handle THEN cancelled \cup (ownCancel \cap {s}) ELSE cancelled
  /\ row' = [row EXCEPT ![s] = IF finisher[s][f].started /\ @ = "open" THEN "closed" ELSE @]
  /\ UNCHANGED <<grab, ffmpeg, registry, ownCancel, slots, released, unmarked>>

\* exec.CommandContext kills the process of a cancelled context; ffmpeg may also
\* exit by itself.
Killed(s) ==
  /\ ffmpeg[s] = "running" /\ s \in cancelled
  /\ ffmpeg' = [ffmpeg EXCEPT ![s] = "killed"]
  /\ UNCHANGED <<grab, cancelled, row, registry, ownCancel, slots, released, finisher, unmarked>>

FfmpegExits(s) ==
  /\ ffmpeg[s] = "running"
  /\ ffmpeg' = [ffmpeg EXCEPT ![s] = "stopped"]
  /\ UNCHANGED <<grab, cancelled, row, registry, ownCancel, slots, released, finisher, unmarked>>

VideoNext ==
  \E s \in Captures :
    \/ StartVideoRecording(s) \/ Acquire(s) \/ StartCapture(s) \/ Started(s)
    \/ InsertRow(s) \/ MarkStarted(s) \/ RegisterCapture(s)
    \/ ReturnCapture(s) \/ FreeSlot(s)
    \/ Killed(s) \/ FfmpegExits(s)
    \/ \E f \in Finishers :
         \/ CancelPending(s, f) \/ CancelContext(s, f) \/ TakeHandle(s, f)
         \/ StopCapture(s, f) \/ StopReleases(s, f) \/ CloseRow(s, f)

VideoSpec == VideoInit /\ [][VideoNext]_videoVars

-------------------------------------------------------------------------------
\* A call of finishVideoRecording has returned, and so has the capture goroutine.
Over(s) == grab[s] = "ended" /\ \E f \in Finishers : FinishAt(s, f, "finished")
Finishing(s) == \E f \in Finishers : ~FinishAt(s, f, "idle") /\ ~FinishAt(s, f, "finished")

\* The session ends while the capture waits for a slot, starts, inserts its row or
\* registers: when both sides are done ffmpeg does not run on, recording the screen
\* of a session that is over with nothing left to stop it.
CaptureEnds ==
  \A s \in Captures : Over(s) /\ ~Finishing(s) => ffmpeg[s] # "running" \/ s \in cancelled

\* A capture that was registered with its cancel function is only ever interrupted:
\* its file is finalised before the context goes, whichever caller stops it.
NotTruncated == \A s \in ownCancel : ffmpeg[s] # "killed"

\* A row is closed when the session is over, so that retention and the remux see
\* it, unless the session ended between the insert and the mark.
RowEnds ==
  \A s \in Captures : Over(s) /\ ~Finishing(s) /\ s \notin unmarked => row[s] # "open"

\* Slots do not leak: no more tokens are out than goroutines between Acquire and
\* their return, whichever way each of them ends.
SlotsReturned ==
  slots <= Cardinality({s \in Captures : grab[s] \notin {"idle", "acquire", "ended"}})

\* A recording that is over is over everywhere, with its file whole: no capture
\* process, none killed, no row still open, and no slot of the governor taken.
RecordingSettles == CaptureEnds /\ NotTruncated /\ RowEnds /\ SlotsReturned

===============================================================================
