-------------------------------- MODULE Restore -------------------------------
(***************************************************************************)
(* Restoring the database (backup.go): restores are staged beside it while *)
(* the server runs and put in its place at the next start, before it is    *)
(* opened; the process may end between any two steps.  Nothing in the      *)
(* program closes the database, so no stop folds the write-ahead log in.   *)
(***************************************************************************)
EXTENDS DatabaseFile, FiniteSets

CONSTANTS
  Stagers,     \* restore requests at a time
  Inodes,      \* files that <db>.restore-pending and its .tmp can be
  MaxTx        \* bound: transactions committed

ASSUME RestoreAssumption ==
  /\ IsFiniteSet(Stagers) /\ IsFiniteSet(Inodes)
  /\ Cardinality(Inodes) > Cardinality(Stagers) + 1 /\ "none" \notin Inodes
  /\ MaxTx \in Nat \ {0}

VARIABLES
  phase,     \* "up", "down", or the step of the start-up
  db,        \* the database file
  wal,       \* the last transaction in its write-ahead log, 0 if there is none
  inode,     \* the contents behind the two staging names
  tmp,       \* what <db>.restore-pending.tmp names
  pending,   \* what <db>.restore-pending names
  stager,    \* the restore requests
  applied,   \* this start has put a restore in place
  misplaced  \* history: since the last restore a start gave up with the database moved aside

restoreVars == <<phase, db, wal, inode, tmp, pending, stager, applied, misplaced>>

Live == IF wal > db.tx THEN wal ELSE db.tx

NoStager == [pc |-> "idle", src |-> Absent, fd |-> "none"]

\* The pending name goes; its file is as good as gone.
Unlink == pending' = "none" /\ inode' = [inode EXCEPT ![pending] = Absent]

FreeInodes == Inodes \ ({tmp, pending} \cup {stager[s].fd : s \in Stagers})

RestoreInit ==
  /\ phase = "up" /\ db = Database(1, TRUE) /\ wal = 0
  /\ inode = [i \in Inodes |-> Absent]
  /\ tmp = "none" /\ pending = "none"
  /\ stager = [s \in Stagers |-> NoStager]
  /\ applied = FALSE /\ misplaced = FALSE

files == <<inode, tmp, pending>>
flags == <<applied, misplaced>>

-------------------------------------------------------------------------------
\* Transactions go to the log (a login among them); SQLite folds it in at times.
Commit ==
  /\ phase = "up" /\ Live < MaxTx
  /\ wal' = Live + 1
  /\ db' = [db EXCEPT !.sess = TRUE]
  /\ UNCHANGED <<phase, files, stager, flags>>

Checkpoint ==
  /\ phase = "up" /\ wal > db.tx
  /\ db' = [db EXCEPT !.tx = wal] /\ wal' = 0
  /\ UNCHANGED <<phase, files, stager, flags>>

-------------------------------------------------------------------------------
(***************************************************************************)
(* stageRestore, from a stored backup or an upload.  Every request copies  *)
(* to the same temporary name, so one may truncate, rename or re-create    *)
(* the file another is writing.                                            *)
(***************************************************************************)
Sources == {Database(1, TRUE), Database(1, FALSE)}

StageRestore(s, src) ==
  /\ phase = "up" /\ stager[s].pc = "idle" /\ verifySQLiteFile(src)
  /\ LET i == IF tmp = "none" THEN CHOOSE j \in FreeInodes : TRUE ELSE tmp
     IN /\ tmp' = i /\ inode' = [inode EXCEPT ![i] = Torn]
        /\ stager' = [stager EXCEPT ![s] = [pc |-> "copy", src |-> src, fd |-> i]]
  /\ UNCHANGED <<phase, db, wal, pending, flags>>

\* The copy is whole, unless another request was writing the same file.
Shared(s) == \E o \in Stagers \ {s} : stager[o].fd = stager[s].fd

CopyDone(s) ==
  /\ stager[s].pc = "copy"
  /\ \E f \in {stager[s].src} \cup (IF Shared(s) THEN {Torn} ELSE {}) :
       inode' = [inode EXCEPT ![stager[s].fd] = f]
  /\ stager' = [stager EXCEPT ![s] = [pc |-> "scrub", src |-> Absent, fd |-> "none"]]
  /\ UNCHANGED <<phase, db, wal, tmp, pending, flags>>

\* scrubSnapshot(tmp): an error on a torn file removes it.
StageScrub(s) ==
  /\ stager[s].pc = "scrub"
  /\ IF tmp = "none"
     THEN LET i == CHOOSE j \in FreeInodes : TRUE
          IN tmp' = i /\ inode' = [inode EXCEPT ![i] = Empty] /\ stager' = [stager EXCEPT ![s].pc = "rename"]
     ELSE IF inode[tmp].kind = "torn"
     THEN tmp' = "none" /\ stager' = [stager EXCEPT ![s] = NoStager] /\ UNCHANGED inode
     ELSE /\ inode' = [inode EXCEPT ![tmp] = scrubSnapshot(@)]
          /\ stager' = [stager EXCEPT ![s].pc = "rename"] /\ UNCHANGED tmp
  /\ UNCHANGED <<phase, db, wal, pending, flags>>

StageRename(s) ==
  /\ stager[s].pc = "rename"
  /\ pending' = IF tmp = "none" THEN pending ELSE tmp
  /\ tmp' = "none"
  /\ stager' = [stager EXCEPT ![s] = NoStager]
  /\ UNCHANGED <<phase, db, wal, inode, flags>>

\* An error of the copy, of the close after it, of the scrub or of the rename: the first
\* and the third remove the temporary name, whoever's file that is by now.
StageFails(s) ==
  /\ \/ /\ stager[s].pc = "copy"
        /\ \E f \in {Torn, inode[stager[s].fd]} : inode' = [inode EXCEPT ![stager[s].fd] = f]
        /\ tmp' \in {tmp, "none"}
     \/ stager[s].pc = "scrub" /\ tmp' = "none" /\ UNCHANGED inode
     \/ stager[s].pc = "rename" /\ UNCHANGED <<tmp, inode>>
  /\ stager' = [stager EXCEPT ![s] = NoStager]
  /\ UNCHANGED <<phase, db, wal, pending, flags>>

\* handleCancelRestore
CancelRestore ==
  /\ phase = "up" /\ pending # "none"
  /\ Unlink
  /\ UNCHANGED <<phase, db, wal, tmp, stager, flags>>

-------------------------------------------------------------------------------
\* The process ends, by a signal or a crash, at any step; the files stay.
Stop ==
  /\ phase # "down"
  /\ phase' = "down"
  /\ stager' = [s \in Stagers |-> NoStager] /\ applied' = FALSE
  /\ UNCHANGED <<db, wal, files, misplaced>>

\* NewApp, and ApplyPendingRestore step by step.
Boot ==
  /\ phase = "down"
  /\ phase' = IF pending = "none" THEN "open" ELSE "verify"
  /\ UNCHANGED <<db, wal, files, stager, flags>>

BootVerifyFault ==
  /\ phase = "verify"
  /\ phase' = "scrub"
  /\ UNCHANGED <<db, wal, files, stager, flags>>

BootVerify ==
  /\ phase = "verify" /\ verifySQLiteFile(inode[pending])
  /\ phase' = "scrub"
  /\ UNCHANGED <<db, wal, files, stager, flags>>

\* A file that is not whole is rejected, and any file that an error keeps from being
\* read or scrubbed; the name .rejected may be refused.  The start goes on, also when an
\* earlier one has moved the database aside.
BootReject ==
  /\ phase \in {"verify", "scrub"}
  /\ Unlink \/ UNCHANGED <<pending, inode>>
  /\ phase' = "open" /\ misplaced' = (misplaced \/ db = Absent)
  /\ UNCHANGED <<db, wal, tmp, stager, applied>>

BootScrubFault ==
  /\ phase = "scrub"
  /\ phase' = "moveAside"
  /\ UNCHANGED <<db, wal, files, stager, flags>>

BootScrub ==
  /\ phase = "scrub"
  /\ inode' = [inode EXCEPT ![pending] = scrubSnapshot(@)]
  /\ phase' = "moveAside"
  /\ UNCHANGED <<db, wal, tmp, pending, stager, flags>>

\* The file only: its log stays under the old name for the next step to remove.
MoveAside ==
  /\ phase = "moveAside"
  /\ db' = Absent
  /\ phase' = "dropWal"
  /\ UNCHANGED <<wal, files, stager, flags>>

DropWal ==
  /\ phase = "dropWal"
  /\ wal' = 0
  /\ phase' = "place"
  /\ UNCHANGED <<db, files, stager, flags>>

Place ==
  /\ phase = "place"
  /\ db' = inode[pending] /\ Unlink
  /\ applied' = TRUE /\ misplaced' = FALSE /\ phase' = "open"
  /\ UNCHANGED <<wal, tmp, stager>>

\* A rename that fails is logged, and the start goes on.
RenameFails ==
  /\ phase = "place" \/ (phase = "moveAside" /\ db # Absent)
  /\ phase' = "open"
  /\ misplaced' = (misplaced \/ phase = "place")
  /\ UNCHANGED <<db, wal, files, stager, applied>>

\* sqlite.Open and Migrate: a database that is not there is made.
Open ==
  /\ phase = "open"
  /\ phase' = "up"
  /\ db' = IF db = Absent THEN Database(0, FALSE) ELSE db
  /\ UNCHANGED <<wal, files, stager, flags>>

RestoreNext ==
  \/ Commit \/ Checkpoint
  \/ \E s \in Stagers :
       \/ \E src \in Sources : StageRestore(s, src)
       \/ CopyDone(s) \/ StageScrub(s) \/ StageRename(s) \/ StageFails(s)
  \/ CancelRestore
  \/ Stop \/ Boot \/ BootVerify \/ BootReject \/ BootScrub
  \/ MoveAside \/ DropWal \/ Place \/ RenameFails \/ Open

RestoreSpec == RestoreInit /\ [][RestoreNext]_restoreVars

-------------------------------------------------------------------------------
\* Whatever was staged, by however many requests, and wherever the process stopped
\* between the renames of ApplyPendingRestore: the server comes up on the database
\* it had or on a whole snapshot, unless a start could not put the staged file in
\* place, or refused it, when the database had already been moved aside.
ServesWholeDatabase ==
  phase = "up" => db.kind = "db" /\ (db.tx > 0 \/ misplaced)

\* A restore brings back no session, also when a second request wrote to the file
\* after the first had scrubbed and renamed it.
RestoreBringsNoSessions == applied /\ phase = "open" => ~db.sess

\* What the server starts on after a restore is a whole database that logs nobody in.
RestoreSound == ServesWholeDatabase /\ RestoreBringsNoSessions

===============================================================================
