--------------------------- MODULE RecordingExports ---------------------------
(***************************************************************************)
(* Background exports of one user, one recording and one format: the job   *)
(* registry, the goroutine of each job, the DELETE of a job, the sweeps,   *)
(* and the deletion of the recording.  Job fields are read and written     *)
(* under the registry's lock one assignment at a time, so a handler's      *)
(* decision may be stale when it acts on it.                               *)
(***************************************************************************)
EXTENDS FiniteSets, Naturals

CONSTANTS
  Jobs,      \* export job ids
  Deleters   \* DELETE requests, sweeps and recording deletions in flight

ASSUME ExportAssumption == IsFiniteSet(Jobs) /\ IsFiniteSet(Deleters)

VARIABLES
  job,       \* the fields of each job
  listed,    \* recordingExportRegistry.jobs
  media,     \* the recording still has its row
  artifact,  \* the file each job produced
  deleter,   \* the deletions
  late       \* jobs dropped from the registry once their conversion had succeeded

exportVars == <<job, listed, media, artifact, deleter, late>>

InProgress == {"queued", "running"}
NoJob == [pc |-> "none", state |-> "none", output |-> FALSE, cancelled |-> FALSE]
NoDeleter == [pc |-> "idle", jobs |-> {}, now |-> "none", forgets |-> FALSE]
Field(j, pc, state) == job' = [job EXCEPT ![j].pc = pc, ![j].state = state]

ExportInit ==
  /\ job = [j \in Jobs |-> NoJob]
  /\ listed = {} /\ late = {} /\ media = TRUE
  /\ artifact = [j \in Jobs |-> "none"]
  /\ deleter = [d \in Deleters |-> NoDeleter]

-------------------------------------------------------------------------------
\* handlePostRecordingExport reads the row ...
AskExport(j) ==
  /\ media /\ job[j] = NoJob
  /\ job' = [job EXCEPT ![j].pc = "asked"]
  /\ UNCHANGED <<listed, media, artifact, deleter, late>>

\* ... and enqueueRecordingExport returns an active job, or adds one.
FindActiveFault == {j \in listed : job[j].state = "running"}
FindActive == {j \in listed : job[j].state \in InProgress}

Enqueue(j) ==
  /\ job[j].pc = "asked"
  /\ IF FindActive = {}
     THEN Field(j, "acquire", "queued") /\ listed' = listed \cup {j}
     ELSE job' = [job EXCEPT ![j] = NoJob] /\ UNCHANGED listed
  /\ UNCHANGED <<media, artifact, deleter, late>>

\* runRecordingExportJob: AcquireExport, which a cancelled context ends ...
JobAcquired(j) ==
  /\ job[j].pc = "acquire" /\ Field(j, "convert", "running")
  /\ UNCHANGED <<listed, media, artifact, deleter, late>>

JobNotAcquired(j) ==
  /\ job[j].pc = "acquire"
  /\ Field(j, "ended", IF job[j].cancelled THEN "cancelled" ELSE "failed")
  /\ UNCHANGED <<listed, media, artifact, deleter, late>>

\* ... the conversion, whose output is tracked until it succeeds ...
Converted(j) ==
  /\ job[j].pc = "convert" /\ ~job[j].cancelled
  /\ artifact' = [artifact EXCEPT ![j] = "released"]
  /\ job' = [job EXCEPT ![j].pc = "converted"]
  /\ UNCHANGED <<listed, media, deleter, late>>

ConversionFails(j) ==
  /\ job[j].pc = "convert"
  /\ Field(j, "ended", IF job[j].cancelled THEN "cancelled" ELSE "failed")
  /\ UNCHANGED <<listed, media, artifact, deleter, late>>

\* ... finishRecordingExportJob, and the deferred cleanup of what is tracked.
FinishJob(j) ==
  /\ job[j].pc = "converted"
  /\ job' = [job EXCEPT ![j].pc = "cleanup", ![j].state = "completed", ![j].output = TRUE]
  /\ UNCHANGED <<listed, media, artifact, deleter, late>>

CleanupFault(j) ==
  /\ job[j].pc = "cleanup" /\ job' = [job EXCEPT ![j].pc = "ended"]
  /\ artifact' = [artifact EXCEPT ![j] = IF job[j].state = "completed" THEN @ ELSE "none"]
  /\ UNCHANGED <<listed, media, deleter, late>>

Cleanup(j) ==
  /\ job[j].pc = "cleanup" /\ job' = [job EXCEPT ![j].pc = "ended"]
  /\ UNCHANGED <<listed, media, artifact, deleter, late>>

-------------------------------------------------------------------------------
\* handleDeleteRecordingExport reads the state: an active job is cancelled ...
DeleteActive(d, j) ==
  /\ deleter[d] = NoDeleter /\ j \in listed /\ job[j].state \in InProgress
  /\ deleter' = [deleter EXCEPT ![d] = [pc |-> "cancel", jobs |-> {j}, now |-> j, forgets |-> FALSE]]
  /\ UNCHANGED <<job, listed, media, artifact, late>>

\* ... another one is removed with its file.
DeleteFinished(d, j) ==
  /\ deleter[d] = NoDeleter /\ j \in listed /\ job[j].state \notin InProgress
  /\ listed' = listed \ {j}
  /\ late' = late \cup (IF job[j].pc = "converted" THEN {j} ELSE {})
  /\ deleter' = [deleter EXCEPT ![d] = [pc |-> "remove", jobs |-> {j}, now |-> j, forgets |-> TRUE]]
  /\ UNCHANGED <<job, media, artifact>>

\* handleDeleteRecording and purgeOldRecordings: the row, then every job of the
\* recording leaves the registry at once.
DeleteRow(d) ==
  /\ deleter[d] = NoDeleter /\ media
  /\ media' = FALSE
  /\ deleter' = [deleter EXCEPT ![d] = [pc |-> "forget", jobs |-> {}, now |-> "none", forgets |-> TRUE]]
  /\ UNCHANGED <<job, listed, artifact, late>>

RemoveForRecording(d) ==
  /\ deleter[d].pc = "forget"
  /\ deleter' = [deleter EXCEPT ![d].pc = "cancel", ![d].jobs = listed]
  /\ listed' = {}
  /\ UNCHANGED <<job, media, artifact, late>>

\* requestCancelRecordingExport; a job past its conversion is not stopped by it.
\* handleDeleteRecordingExport then writes the state.
RequestCancelFault(d, j) ==
  /\ deleter[d].pc = "cancel" /\ j \in deleter[d].jobs
  /\ job' = [job EXCEPT ![j].cancelled = @ \/ ~deleter[d].forgets]
  /\ late' = late \cup (IF deleter[d].forgets /\ job[j].pc = "converted" THEN {j} ELSE {})
  /\ deleter' = [deleter EXCEPT ![d].pc = IF deleter[d].forgets THEN "remove" ELSE "state",
                                ![d].now = j]
  /\ UNCHANGED <<listed, media, artifact>>

RequestCancel(d, j) ==
  /\ deleter[d].pc = "cancel" /\ j \in deleter[d].jobs
  /\ job' = [job EXCEPT ![j].cancelled = @ \/ ~deleter[d].forgets \/ job[j].state \in InProgress]
  /\ late' = late \cup (IF deleter[d].forgets /\ job[j].pc = "converted" THEN {j} ELSE {})
  /\ deleter' = [deleter EXCEPT ![d].pc = IF deleter[d].forgets THEN "remove" ELSE "state",
                                ![d].now = j]
  /\ UNCHANGED <<listed, media, artifact>>

MarkCancelled(d) ==
  /\ deleter[d].pc = "state"
  /\ job' = [job EXCEPT ![deleter[d].now].state = "cancelled"]
  /\ deleter' = [deleter EXCEPT ![d] = NoDeleter]
  /\ UNCHANGED <<listed, media, artifact, late>>

\* os.Remove of OutputPath, when it is set by now.
RemoveOutput(d) ==
  /\ deleter[d].pc = "remove"
  /\ LET j == deleter[d].now IN
       /\ artifact' = [artifact EXCEPT ![j] = IF job[j].output THEN "none" ELSE @]
       /\ deleter' = [deleter EXCEPT ![d].jobs = @ \ {j}, ![d].pc = "cancel", ![d].now = "none"]
  /\ UNCHANGED <<job, listed, media, late>>

DeleterDone(d) ==
  /\ deleter[d].pc = "cancel" /\ deleter[d].jobs = {}
  /\ deleter' = [deleter EXCEPT ![d] = NoDeleter]
  /\ UNCHANGED <<job, listed, media, artifact, late>>

\* sweepStaleRecordingExports: cancel, then failed; sweepCompletedRecordingExports:
\* the entry and its file in one critical section.
SweepStale(d, j) ==
  /\ deleter[d] = NoDeleter /\ j \in listed /\ job[j].state = "running"
  /\ job' = [job EXCEPT ![j].cancelled = TRUE, ![j].state = "failed"]
  /\ UNCHANGED <<listed, media, artifact, deleter, late>>

SweepCompleted(j) ==
  /\ j \in listed /\ job[j].state \in {"completed", "failed", "cancelled"}
  /\ listed' = listed \ {j}
  /\ artifact' = [artifact EXCEPT ![j] = IF job[j].output THEN "none" ELSE @]
  /\ late' = late \cup (IF job[j].pc = "converted" THEN {j} ELSE {})
  /\ UNCHANGED <<job, media, deleter>>

ExportNext ==
  \/ \E j \in Jobs :
       \/ AskExport(j) \/ Enqueue(j) \/ JobAcquired(j) \/ JobNotAcquired(j)
       \/ Converted(j) \/ ConversionFails(j) \/ FinishJob(j) \/ Cleanup(j)
       \/ SweepCompleted(j)
       \/ \E d \in Deleters :
            \/ DeleteActive(d, j) \/ DeleteFinished(d, j) \/ SweepStale(d, j)
            \/ RequestCancel(d, j)
  \/ \E d \in Deleters :
       \/ MarkCancelled(d) \/ RemoveOutput(d) \/ DeleteRow(d)
       \/ RemoveForRecording(d) \/ DeleterDone(d)

ExportSpec == ExportInit /\ [][ExportNext]_exportVars

-------------------------------------------------------------------------------
BeingDropped(j) == \E d \in Deleters : j \in deleter[d].jobs

\* A finished export lies on disk only while its job is listed or a deletion still
\* has it in hand: a job that is dropped while it converts is cancelled, so only a
\* conversion that had already succeeded leaves its file behind.
FileHasJob ==
  \A j \in Jobs : artifact[j] = "released" /\ job[j].pc = "ended"
    => j \in listed \/ BeingDropped(j) \/ j \in late

\* A cancel that lands between the completion of a job and its cleanup does not
\* take the file: a listed job that names an output has it.
OutputExists == \A j \in listed : job[j].output => artifact[j] = "released"

\* At most one export of a recording runs for a user, save that a job cancelled or
\* swept while its goroutine was about to start may still be converting.
OneExport ==
  Cardinality({j \in listed : job[j].state \in InProgress /\ ~job[j].cancelled}) <= 1

\* The jobs and the files on disk agree: every file has the job that will remove
\* it, every finished job its file, and a recording one export at a time.
ExportsConsistent == FileHasJob /\ OutputExists /\ OneExport

===============================================================================
