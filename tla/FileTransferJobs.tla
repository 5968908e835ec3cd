-------------------------- MODULE FileTransferJobs --------------------------
(***************************************************************************)
(* Background file transfers: the rows of file_transfer_jobs, the staging  *)
(* files, the live handles of filetransfer.Manager, the goroutine of each  *)
(* job (an upload starts as its HTTP request), the DELETE requests that    *)
(* cancel jobs and clean up after them, and a server that may crash and    *)
(* reap the rows it finds when it starts again.                            *)
(*                                                                         *)
(* All jobs are of one user: rows of different users meet nowhere, and     *)
(* what a request for another user's job gets is a refusal.  Progress and  *)
(* the events sent for it are left out; a job's ID is used once.           *)
(***************************************************************************)
EXTENDS Naturals, FiniteSetsExt

CONSTANTS
  Uploads,     \* the uploads the user may start
  Downloads,   \* and the downloads
  Callers,     \* DELETE requests in flight at a time
  MaxHistory,  \* Manager.maxHistory
  MaxFaults,   \* bound: store writes that fail
  MaxCrashes   \* bound: crashes of the server

Jobs == Uploads \cup Downloads

ASSUME TransferAssumption ==
  /\ Uploads \cap Downloads = {}
  /\ IsFiniteSet(Uploads) /\ IsFiniteSet(Downloads) /\ IsFiniteSet(Callers)
  /\ MaxHistory \in Nat \ {0}
  /\ MaxFaults \in Nat
  /\ MaxCrashes \in Nat

VARIABLES
  row,     \* file_transfer_jobs: state, and whether temp_path is set
  files,   \* the jobs whose staging file is on disk
  live,    \* Manager.live: the jobs that have a handle
  work,    \* the job's goroutine, with its own *Job and its context
  req,     \* the DELETE requests
  up,      \* the server runs
  faults,  \* store writes that have failed
  crashes, \* crashes so far
  marred,  \* history: jobs whose row has missed a write
  asked    \* history: jobs somebody asked to delete

disk == <<row, files>>
history == <<faults, crashes, marred, asked>>
transferVars == <<disk, live, work, req, up, history>>

ActiveStates == {"receiving", "running"}
Terminal == {"completed", "failed", "cancelled"}   \* isTerminalState

NoRow == [state |-> "none", temp |-> FALSE]
HasRow(j) == row[j].state # "none"
IdleReq == [pc |-> "idle", job |-> "none", temp |-> FALSE]

\* job: Job.State as the goroutine has it; next: where it goes after a SetState.
NoWork == [pc |-> "none", job |-> "none", ctx |-> FALSE, next |-> "none"]

TransferInit ==
  /\ row = [j \in Jobs |-> NoRow]
  /\ files = {}
  /\ live = {}
  /\ work = [j \in Jobs |-> NoWork]
  /\ req = [c \in Callers |-> IdleReq]
  /\ up = TRUE
  /\ faults = 0
  /\ crashes = 0
  /\ marred = {}
  /\ asked = {}

------------------------------------------------------------------------------
(* What the store and the manager do for both sides.                        *)

\* An UPDATE by id; it changes nothing when the row is gone.
Update(j, new) == row' = IF HasRow(j) THEN [row EXCEPT ![j] = new] ELSE row

\* The store reports an error: the write is lost.
StoreFails(j) ==
  /\ faults < MaxFaults
  /\ faults' = faults + 1
  /\ marred' = marred \cup {j}
  /\ UNCHANGED <<row, crashes, asked>>

Writes(j, new) ==
  \/ Update(j, new) /\ UNCHANGED history
  \/ StoreFails(j)

\* TrimUserHistory: MaxHistory terminal rows stay.  Which ones are the newest
\* is left open; no property looks at the order.
TrimHistory(j) ==
  \/ LET old == {k \in Jobs : row[k].state \in Terminal}
     IN \E kept \in SUBSET old :
          /\ Cardinality(kept) = Min({MaxHistory, Cardinality(old)})
          /\ row' = [k \in Jobs |-> IF k \in old \ kept THEN NoRow ELSE row[k]]
          /\ UNCHANGED history
  \/ StoreFails(j)

------------------------------------------------------------------------------
(* The goroutine of a job.                                                  *)

At(j, pc) == up /\ work[j].pc = pc

\* Its context is cancelled when it is done: defer cancel().
Goto(j, pc) == work' = [work EXCEPT ![j].pc = pc, ![j].ctx = work[j].ctx \/ pc = "done"]

\* Job.SetState up to its unlock.  The guard is about the goroutine's own copy.
SetState(j, s, next) ==
  work' = IF work[j].job \in Terminal
            THEN [work EXCEPT ![j].pc = next]
            ELSE [work EXCEPT ![j].pc = "write", ![j].job = s, ![j].next = next]

FailTransferJob(j, next) == SetState(j, "failed", next)

\* What the two handlers ask for.
InitialState(j) == IF j \in Uploads THEN "receiving" ELSE "running"

\* Manager.Create: the row first, the handle second.  When the insert fails there is no job.
Create(j) ==
  /\ At(j, "none")
  /\ row' = [row EXCEPT ![j].state = InitialState(j)]
  /\ work' = [work EXCEPT ![j] =
       [NoWork EXCEPT !.pc = "register", !.job = row'[j].state]]
  /\ UNCHANGED <<files, live, req, up, history>>

Register(j) ==
  /\ At(j, "register")
  /\ live' = live \cup {j}
  /\ Goto(j, "temp")
  /\ UNCHANGED <<disk, req, up, history>>

\* os.CreateTemp, of stageUploadFile or of runDownloadJob.
CreateTemp(j) ==
  /\ At(j, "temp")
  /\ \/ /\ files' = files \cup {j}
        /\ Goto(j, IF j \in Uploads THEN "receive" ELSE "begin")
     \/ UNCHANGED files /\ FailTransferJob(j, "done")
  /\ UNCHANGED <<row, live, req, up, history>>

\* The staged part of a broken upload stays on disk.
ReceiveFault(j) ==
  /\ At(j, "receive")
  /\ Goto(j, "path") \/ FailTransferJob(j, "done")
  /\ UNCHANGED <<disk, live, req, up, history>>

\* The rest of stageUploadFile: the browser's bytes, or an error.
Receive(j) ==
  /\ At(j, "receive")
  /\ \/ UNCHANGED files /\ Goto(j, "path")
     \/ files' = files \ {j} /\ FailTransferJob(j, "done")
  /\ UNCHANGED <<row, live, req, up, history>>

\* SetTempPath, and the state that follows it: an upload starts running, a
\* download is complete.
SetTempPath(j) ==
  /\ At(j, "path")
  /\ Writes(j, [row[j] EXCEPT !.temp = TRUE])
  /\ IF j \in Uploads
       THEN SetState(j, "running", "begin")
       ELSE SetState(j, "completed", "unwind")
  /\ UNCHANGED <<files, live, req, up>>

\* A cancelled goroutine returns at once: Cancel has written the row already.
BeginFault(j) ==
  /\ At(j, "begin")
  /\ Goto(j, IF work[j].ctx THEN "unwind" ELSE "open")
  /\ UNCHANGED <<disk, live, req, up, history>>

\* runUploadJob and runDownloadJob: the first look at the context.
Begin(j) ==
  /\ At(j, "begin")
  /\ IF work[j].ctx THEN SetState(j, "cancelled", "unwind") ELSE Goto(j, "open")
  /\ UNCHANGED <<disk, live, req, up, history>>

\* Both ends are opened.  A download's staging file is created again, an
\* upload's has to be there still.
Open(j) ==
  /\ At(j, "open")
  /\ \/ /\ j \in Uploads => j \in files
        /\ files' = files \cup {j}
        /\ Goto(j, "copy")
     \/ UNCHANGED files /\ FailTransferJob(j, "unwind")
  /\ UNCHANGED <<row, live, req, up, history>>

\* A copy that breaks off is not reported.
CopyFault(j) ==
  /\ At(j, "copy")
  /\ Goto(j, "check") \/ Goto(j, "unwind")
  /\ UNCHANGED <<disk, live, req, up, history>>

\* progressCopy, which does not look at the context.
Copy(j) ==
  /\ At(j, "copy")
  /\ Goto(j, "check") \/ FailTransferJob(j, "unwind")
  /\ UNCHANGED <<disk, live, req, up, history>>

\* The other end stops answering, while the connection is set up (the timeout is for
\* the TCP connect only) or in the middle of the file: environment.
Hangs(j) ==
  /\ At(j, "open") \/ At(j, "copy")
  /\ Goto(j, "hung")
  /\ UNCHANGED <<disk, live, req, up, history>>

\* The second and last look at the context.
Check(j) ==
  /\ At(j, "check")
  /\ CASE work[j].ctx              -> SetState(j, "cancelled", "unwind")
       [] j \in Downloads -> Goto(j, "path")
       [] OTHER                    -> SetState(j, "completed", "unwind")
  /\ UNCHANGED <<disk, live, req, up, history>>

\* SetState after its unlock: the row, whatever it says by now.
PersistState(j) ==
  /\ At(j, "write")
  /\ Writes(j, [row[j] EXCEPT !.state = work[j].job])
  /\ Goto(j, IF work[j].job \in Terminal THEN "settle" ELSE work[j].next)
  /\ UNCHANGED <<files, live, req, up>>

\* The handle stays.
SettleFault(j) ==
  /\ At(j, "settle")
  /\ TrimHistory(j)
  /\ Goto(j, work[j].next)
  /\ UNCHANGED <<files, live, req, up>>

\* The end of SetState for a terminal state: releaseLive and trimHistory.
Settle(j) ==
  /\ At(j, "settle")
  /\ live' = live \ {j}
  /\ TrimHistory(j)
  /\ Goto(j, work[j].next)
  /\ UNCHANGED <<files, req, up>>

\* The staging file goes, whatever became of the job.
UnwindFault(j) ==
  /\ At(j, "unwind")
  /\ files' = files \ {j}
  /\ Goto(j, "done")
  /\ UNCHANGED <<row, live, req, up, history>>

\* The deferred calls: only a completed download leaves its file behind.
Unwind(j) ==
  /\ At(j, "unwind")
  /\ files' = IF j \in Downloads /\ work[j].job = "completed"
                THEN files ELSE files \ {j}
  /\ Goto(j, "done")
  /\ UNCHANGED <<row, live, req, up, history>>

Goroutine(j) ==
  \/ Register(j) \/ CreateTemp(j) \/ Receive(j) \/ SetTempPath(j) \/ Begin(j)
  \/ Open(j) \/ Copy(j) \/ Check(j) \/ PersistState(j) \/ Settle(j) \/ Unwind(j)

------------------------------------------------------------------------------
(* handleFileTransferDelete: Manager.Cancel, then the cleanup.              *)

ReqAt(c, pc) == up /\ req[c].pc = pc
ReqGoto(c, pc) == req' = [req EXCEPT ![c].pc = pc]

\* Cancel reads the row; for a terminal state it has nothing to do.
CancelLookup(c, j) ==
  /\ ReqAt(c, "idle")
  /\ HasRow(j)
  /\ req' = [req EXCEPT ![c] =
       [IdleReq EXCEPT !.pc = IF row[j].state \in Terminal THEN "get" ELSE "signal", !.job = j]]
  /\ asked' = asked \cup {j}
  /\ UNCHANGED <<disk, live, work, up, faults, crashes, marred>>

CancelSignal(c) ==
  /\ ReqAt(c, "signal")
  /\ LET j == req[c].job
     IN work' = IF j \in live THEN [work EXCEPT ![j].ctx = TRUE] ELSE work
  /\ ReqGoto(c, "mark")
  /\ UNCHANGED <<disk, live, up, history>>

\* The row becomes cancelled, or the request ends with the store's error.
CancelMark(c) ==
  /\ ReqAt(c, "mark")
  /\ \/ Update(req[c].job, [row[req[c].job] EXCEPT !.state = "cancelled"]) /\ ReqGoto(c, "release") /\ UNCHANGED history
     \/ StoreFails(req[c].job) /\ req' = [req EXCEPT ![c] = IdleReq]
  /\ UNCHANGED <<files, live, work, up>>

\* Cancel does not trim the history.
CancelReleaseFault(c) ==
  /\ ReqAt(c, "release")
  /\ live' = live \ {req[c].job}
  /\ ReqGoto(c, "get")
  /\ UNCHANGED <<disk, work, up, history>>

CancelRelease(c) ==
  /\ ReqAt(c, "release")
  /\ live' = live \ {req[c].job}
  /\ TrimHistory(req[c].job)
  /\ ReqGoto(c, "get")
  /\ UNCHANGED <<files, work, up>>

\* Manager.Get after Cancel: what is to be cleaned up.
DeleteGet(c) ==
  /\ ReqAt(c, "get")
  /\ LET j == req[c].job
     IN req' = IF HasRow(j)
                 THEN [req EXCEPT ![c].pc = "clean", ![c].temp = row[j].temp]
                 ELSE [req EXCEPT ![c] = IdleReq]
  /\ UNCHANGED <<disk, live, work, up, history>>

DeleteClean(c) ==
  /\ ReqAt(c, "clean")
  /\ files' = IF req[c].temp THEN files \ {req[c].job} ELSE files
  /\ ReqGoto(c, "remove")
  /\ UNCHANGED <<row, live, work, up, history>>

\* Manager.Remove: the handle and the row.
DeleteRemove(c) ==
  /\ ReqAt(c, "remove")
  /\ live' = live \ {req[c].job}
  /\ \/ row' = [row EXCEPT ![req[c].job] = NoRow] /\ UNCHANGED history
     \/ StoreFails(req[c].job)
  /\ req' = [req EXCEPT ![c] = IdleReq]
  /\ UNCHANGED <<files, work, up>>

Request(c) ==
  \/ \E j \in Jobs : CancelLookup(c, j)
  \/ CancelSignal(c) \/ CancelMark(c) \/ CancelRelease(c)
  \/ DeleteGet(c) \/ DeleteClean(c) \/ DeleteRemove(c)

------------------------------------------------------------------------------
(* The server.                                                              *)

\* Rows and files stay, everything in memory is lost.
Crash ==
  /\ up
  /\ crashes < MaxCrashes
  /\ up' = FALSE
  /\ crashes' = crashes + 1
  /\ live' = {}
  /\ work' = [j \in Jobs |-> IF work[j].pc \in {"none", "done"} THEN work[j]
                             ELSE [NoWork EXCEPT !.pc = "dead"]]
  /\ req' = [c \in Callers |-> IdleReq]
  /\ UNCHANGED <<disk, faults, marred, asked>>

\* NewRouter reaps the orphans; when that fails it logs and goes on.
Restart ==
  /\ ~up
  /\ up' = TRUE
  /\ LET orphans == {j \in Jobs : row[j].state \in ActiveStates}
     IN \/ /\ row' = [j \in Jobs |-> IF j \in orphans THEN [row[j] EXCEPT !.state = "failed"] ELSE row[j]]
           /\ UNCHANGED <<faults, marred>>
        \/ /\ faults < MaxFaults
           /\ faults' = faults + 1
           /\ marred' = marred \cup orphans
           /\ UNCHANGED row
  /\ UNCHANGED <<files, live, work, req, crashes, asked>>

TransferNext ==
  \/ \E j \in Jobs : Create(j) \/ Goroutine(j) \/ Hangs(j)
  \/ \E c \in Callers : Request(c)
  \/ Crash
  \/ Restart

\* Goroutines run, and where one waits for the other end it may hang instead
\* (Hangs); nothing obliges a user, the other end or the supervisor.  The wait for
\* the browser's bytes ends with the server's ReadTimeout.
TransferFairness == \A j \in Jobs : WF_transferVars(Goroutine(j))

TransferSpec == TransferInit /\ [][TransferNext]_transferVars /\ TransferFairness

------------------------------------------------------------------------------
(* Properties.                                                              *)

Ended == {"none", "done", "dead"}

\* Types: rows are in one of the states of manager.go, and a goroutine or a
\* request is at one of its steps.
TransferTypeOK ==
  /\ row \in [Jobs -> [state : {"none"} \cup ActiveStates \cup Terminal, temp : BOOLEAN]]
  /\ files \in SUBSET Jobs
  /\ live \in SUBSET Jobs
  /\ work \in [Jobs -> [pc : Ended \cup {"register", "temp", "receive", "path", "begin", "open",
                                          "copy", "hung", "check", "write", "settle", "unwind"},
                        job : {"none"} \cup ActiveStates \cup Terminal,
                        ctx : BOOLEAN,
                        next : {"none", "begin", "unwind", "done"}]]
  /\ req \in [Callers -> [pc : {"idle", "signal", "mark", "release", "get", "clean", "remove"},
                          job : Jobs \cup {"none"}, temp : BOOLEAN]]
  /\ up \in BOOLEAN
  /\ faults \in 0..MaxFaults
  /\ crashes \in 0..MaxCrashes
  /\ marred \in SUBSET Jobs
  /\ asked \in SUBSET Jobs

\* A row that says receiving or running has a goroutine that will end it, across
\* cancellations that an upload overwrites with "running" and across restarts
\* (SetState, runUploadJob, ReapOrphans); otherwise a write to it was lost.
ActiveHasWorker ==
  \A j \in Jobs : up /\ row[j].state \in ActiveStates => work[j].pc \notin Ended \/ j \in marred

\* No handle outlives its goroutine: every way out releases it (releaseLive).
HandlesReleased == \A j \in live : work[j].pc \notin Ended

\* What handleFileTransferContent serves is there: a completed download that
\* nobody asked to delete has its path in the row and its file on disk.
CompletedServable ==
  \A j \in Downloads \ (asked \cup marred) :
    row[j].state = "completed" => row[j].temp /\ j \in files

\* A goroutine that has finished has removed its staging file, unless it is a
\* download that it completed (runDownloadJob, runUploadJob, stageUploadFile).
StagingReclaimed ==
  \A j \in files : work[j].pc = "done" => j \in Downloads /\ work[j].job = "completed"

\* While the store and the server do not fail, the user's history is within its
\* cap, but for rows whose trimHistory is still to come.
HistoryCapped ==
  faults = 0 /\ crashes = 0 =>
    Cardinality({j \in Jobs : row[j].state \in Terminal})
      =< MaxHistory + Cardinality({j \in Jobs : work[j].pc = "settle"})
                    + Cardinality({c \in Callers : req[c].pc = "release"})

\* Every job ends, or disappears, unless the other end hangs, the server goes
\* down or a write is lost.
JobSettles ==
  \A j \in Jobs : row[j].state \in ActiveStates
                    ~> \/ row[j].state \notin ActiveStates
                       \/ work[j].pc = "hung"
                       \/ j \in marred
                       \/ ~up

\* What the comment on SetState says of its guard: a job that the user cancelled
\* is not flipped to another state by the goroutine that finishes later.
CancelledStays ==
  [][\A j \in Jobs : row[j].state = "cancelled" => row'[j].state \in {"cancelled", "none"}]_transferVars

\* Every job in progress has the goroutine that will settle it, and what has ended
\* holds nothing of the target.
WorkersOwnJobs == TransferTypeOK /\ ActiveHasWorker /\ HandlesReleased

\* A completed download can be served, staged files are reclaimed, and the history
\* is capped.
FilesAccounted == CompletedServable /\ StagingReclaimed /\ HistoryCapped

==============================================================================
