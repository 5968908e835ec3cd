---------------------------- MODULE RecordingFiles ----------------------------
(***************************************************************************)
(* The rows and the media files of screen recordings.  A capture that has   *)
(* stopped is remuxed in place, by a goroutine of its own and once more by  *)
(* the backfill after a start; meanwhile recordings are deleted by an       *)
(* administrator or by retention, row first, and the server restarts.       *)
(* Both remuxes of a recording write to the same temporary name, so files   *)
(* are modelled as inodes that names point to.  Exports are the subject of  *)
(* RecordingExports.                                                        *)
(***************************************************************************)
EXTENDS FiniteSets, Naturals

CONSTANTS
  Recordings,   \* rows of RDP and VNC recordings
  Erasers,      \* DELETE requests and retention runs in flight
  ExportSlots,  \* maxExportConcurrent of the governor
  MayRefuse,    \* the file system may refuse to rename over a file
  MaxRestarts   \* bound on restarts of the server

ASSUME FilesAssumption ==
  /\ ExportSlots \in Nat \ {0} /\ MaxRestarts \in Nat /\ MayRefuse \in BOOLEAN
  /\ IsFiniteSet(Recordings)

VARIABLES
  recRow,     \* the row: "live" (no ended_at), "ended", "old" (past the retention) or "gone"
  capturing,  \* recordings whose ffmpeg still runs
  mediaAt,    \* the inode file_path names
  tmpAt,      \* the inode file_path.remux.tmp.mp4 names
  content,    \* of each inode: "frag" (as captured), "partial" or "regular"
  remux,      \* remuxRecording, by recording and reason
  backfill,   \* the backfill after the start
  eraser,     \* handleDeleteRecording and runRetention
  restarts,
  excuse      \* history: what happened to each recording that excuses its file

fileVars == <<recRow, capturing, mediaAt, tmpAt, content, remux, backfill, eraser, restarts, excuse>>

NoFile == "nofile"
Reasons == {"stop", "backfill"}
NoRemux == [pc |-> "idle", out |-> NoFile]
NoEraser == [pc |-> "idle", todo |-> {}, now |-> "none", purge |-> FALSE]
Asleep == [pc |-> "asleep", todo |-> {}]

RemuxAt(r, q, pc) == remux[r][q].pc = pc
RemuxTo(r, q, pc) == remux' = [remux EXCEPT ![r][q].pc = pc]
Excused(r, why) == excuse' = [excuse EXCEPT ![r] = @ \cup why]
\* Between AcquireExport and ReleaseExport.
HoldsSlot(r, q) == remux[r][q].pc \in {"start", "run", "verify", "swap", "retry", "cleanup"}
SlotsTaken == Cardinality({p \in Recordings \X Reasons : HoldsSlot(p[1], p[2])})

FilesInit ==
  /\ recRow = [r \in Recordings |-> "live"]
  /\ capturing = Recordings
  /\ mediaAt = [r \in Recordings |-> "capture"]
  /\ tmpAt = [r \in Recordings |-> NoFile]
  /\ content = [r \in Recordings |-> [i \in Reasons \cup {"capture"} |-> IF i = "capture" THEN "frag" ELSE "partial"]]
  /\ remux = [r \in Recordings |-> [q \in Reasons |-> NoRemux]]
  /\ backfill = Asleep
  /\ eraser = [e \in Erasers |-> NoEraser]
  /\ restarts = 0
  /\ excuse = [r \in Recordings |-> {}]

-------------------------------------------------------------------------------
\* The end of finishVideoRecording: ended_at, of a row that is still there, and the
\* remux in the background.
StopRecording(r) ==
  /\ r \in capturing
  /\ capturing' = capturing \ {r}
  /\ recRow' = [recRow EXCEPT ![r] = IF @ = "live" THEN "ended" ELSE @]
  /\ RemuxTo(r, "stop", "open")
  /\ UNCHANGED <<mediaAt, tmpAt, content, backfill, eraser, restarts, excuse>>

Ages(r) ==
  /\ recRow[r] = "ended"
  /\ recRow' = [recRow EXCEPT ![r] = "old"]
  /\ UNCHANGED <<capturing, mediaAt, tmpAt, content, remux, backfill, eraser, restarts, excuse>>

\* startRecordingRemuxBackfill lists the ended recordings once ...
BackfillLists ==
  /\ backfill.pc = "asleep"
  /\ backfill' = [pc |-> "working", todo |-> {r \in Recordings : recRow[r] \in {"ended", "old"}}]
  /\ UNCHANGED <<recRow, capturing, mediaAt, tmpAt, content, remux, eraser, restarts, excuse>>

\* ... and remuxes them one at a time.
BackfillNext(r) ==
  /\ backfill.pc = "working" /\ r \in backfill.todo
  /\ \A s \in Recordings : RemuxAt(s, "backfill", "idle")
  /\ backfill' = [backfill EXCEPT !.todo = @ \ {r}]
  /\ RemuxTo(r, "backfill", "open")
  /\ UNCHANGED <<recRow, capturing, mediaAt, tmpAt, content, eraser, restarts, excuse>>

-------------------------------------------------------------------------------
(* remuxRecording and RemuxFaststart.                                        *)

\* IsFragmentedMP4 finds a moof box.
Fragmented(r) == mediaAt[r] # NoFile /\ content[r][mediaAt[r]] = "frag"

\* The file is resolved and its boxes are read: only a fragmented one goes on.
OpenMedia(r, q) ==
  /\ RemuxAt(r, q, "open")
  /\ RemuxTo(r, q, IF Fragmented(r) THEN "acquire" ELSE "idle")
  /\ UNCHANGED <<recRow, capturing, mediaAt, tmpAt, content, backfill, eraser, restarts, excuse>>

\* AcquireExport, or 30 minutes go by.
AcquireExport(r, q) ==
  /\ RemuxAt(r, q, "acquire")
  /\ \/ /\ SlotsTaken < ExportSlots
        /\ RemuxTo(r, q, "start")
        /\ Excused(r, IF \E p \in Reasons \ {q} : HoldsSlot(r, p) THEN {"clash"} ELSE {})
     \/ RemuxTo(r, q, "idle") /\ UNCHANGED excuse
  /\ UNCHANGED <<recRow, capturing, mediaAt, tmpAt, content, backfill, eraser, restarts>>

\* ffmpeg -y: the temporary file is created, or the one there is truncated.
FfmpegStarts(r, q) ==
  LET out == IF tmpAt[r] = NoFile THEN q ELSE tmpAt[r] IN
  /\ RemuxAt(r, q, "start")
  /\ IF mediaAt[r] = NoFile
     THEN RemuxTo(r, q, "cleanup") /\ UNCHANGED <<tmpAt, content>>
     ELSE /\ remux' = [remux EXCEPT ![r][q] = [pc |-> "run", out |-> out]]
          /\ tmpAt' = [tmpAt EXCEPT ![r] = out]
          /\ content' = [content EXCEPT ![r][out] = "partial"]
  /\ UNCHANGED <<recRow, capturing, mediaAt, backfill, eraser, restarts, excuse>>

\* A run of ffmpeg that failed is swapped in all the same.
FfmpegEndsFault(r, q) ==
  /\ RemuxAt(r, q, "run")
  /\ \/ RemuxTo(r, q, "verify") /\ content' = [content EXCEPT ![r][remux[r][q].out] = "regular"]
     \/ RemuxTo(r, q, "verify") /\ UNCHANGED content
  /\ UNCHANGED <<recRow, capturing, mediaAt, tmpAt, backfill, eraser, restarts, excuse>>

\* A file that two ffmpeg wrote to may be anything.
FfmpegEnds(r, q) ==
  LET out == remux[r][q].out
      shared == \E p \in Reasons \ {q} : RemuxAt(r, p, "run") /\ remux[r][p].out = out
  IN /\ RemuxAt(r, q, "run")
     /\ \/ RemuxTo(r, q, "verify") /\ content' = [content EXCEPT ![r][out] = "regular"]
        \/ RemuxTo(r, q, IF shared THEN "verify" ELSE "cleanup") /\ UNCHANGED content
        \/ RemuxTo(r, q, "cleanup") /\ UNCHANGED content
     /\ UNCHANGED <<recRow, capturing, mediaAt, tmpAt, backfill, eraser, restarts, excuse>>

\* The temporary file is there, has data and no moof box; one that is being written
\* may well pass.
Verify(r, q) ==
  /\ RemuxAt(r, q, "verify")
  /\ \/ tmpAt[r] # NoFile /\ RemuxTo(r, q, "swap")
     \/ tmpAt[r] = NoFile /\ RemuxTo(r, q, "cleanup")
     \/ tmpAt[r] # NoFile /\ content[r][tmpAt[r]] = "partial" /\ RemuxTo(r, q, "cleanup")
  /\ UNCHANGED <<recRow, capturing, mediaAt, tmpAt, content, backfill, eraser, restarts, excuse>>

Rename(r) ==
  /\ tmpAt[r] # NoFile
  /\ mediaAt' = [mediaAt EXCEPT ![r] = tmpAt[r]]
  /\ tmpAt' = [tmpAt EXCEPT ![r] = NoFile]
  /\ Excused(r, IF recRow[r] = "gone" /\ mediaAt[r] = NoFile THEN {"revived"} ELSE {})

\* os.Rename; when it fails, for whatever reason, the original is removed.
SwapIn(r, q) ==
  /\ RemuxAt(r, q, "swap")
  /\ \/ Rename(r) /\ RemuxTo(r, q, "cleanup")
     \/ /\ tmpAt[r] = NoFile \/ (MayRefuse /\ mediaAt[r] # NoFile)
        /\ RemuxTo(r, q, IF mediaAt[r] = NoFile THEN "cleanup" ELSE "retry")
        /\ mediaAt' = [mediaAt EXCEPT ![r] = NoFile]
        /\ Excused(r, IF tmpAt[r] # NoFile THEN {"refused"} ELSE {})
        /\ UNCHANGED tmpAt
  /\ UNCHANGED <<recRow, capturing, content, backfill, eraser, restarts>>

SwapAgain(r, q) ==
  /\ RemuxAt(r, q, "retry")
  /\ RemuxTo(r, q, "cleanup")
  /\ \/ Rename(r)
     \/ (MayRefuse \/ tmpAt[r] = NoFile) /\ UNCHANGED <<mediaAt, tmpAt, excuse>>
  /\ UNCHANGED <<recRow, capturing, content, backfill, eraser, restarts>>

\* The temporary file of a remux that failed stays.
RemoveTmpFault(r, q) ==
  /\ RemuxAt(r, q, "cleanup")
  /\ remux' = [remux EXCEPT ![r][q] = NoRemux]
  /\ UNCHANGED <<recRow, capturing, mediaAt, tmpAt, content, backfill, eraser, restarts, excuse>>

\* The deferred os.Remove of the temporary name, whoever's file it is, and
\* ReleaseExport.
RemoveTmp(r, q) ==
  /\ RemuxAt(r, q, "cleanup")
  /\ remux' = [remux EXCEPT ![r][q] = NoRemux]
  /\ tmpAt' = [tmpAt EXCEPT ![r] = NoFile]
  /\ UNCHANGED <<recRow, capturing, mediaAt, content, backfill, eraser, restarts, excuse>>

-------------------------------------------------------------------------------
(* Deletions.                                                                *)

\* handleDeleteRecording reads the row, whether or not it has ended.
ReadForDelete(e, r) ==
  /\ eraser[e] = NoEraser
  /\ recRow[r] # "gone"
  /\ eraser' = [eraser EXCEPT ![e] = [NoEraser EXCEPT !.pc = "row", !.todo = {r}, !.now = r]]
  /\ UNCHANGED <<recRow, capturing, mediaAt, tmpAt, content, remux, backfill, restarts, excuse>>

\* runRetention: concurrent runs are collapsed; the victims are listed once.
ListVictims(e) ==
  LET victims == {r \in Recordings : recRow[r] = "old"} IN
  /\ eraser[e] = NoEraser
  /\ \A d \in Erasers : ~eraser[d].purge
  /\ victims # {}
  /\ eraser' = [eraser EXCEPT ![e] = [pc |-> "next", todo |-> victims, now |-> "none", purge |-> TRUE]]
  /\ UNCHANGED <<recRow, capturing, mediaAt, tmpAt, content, remux, backfill, restarts, excuse>>

NextVictim(e, r) ==
  /\ eraser[e].pc = "next" /\ r \in eraser[e].todo
  /\ eraser' = [eraser EXCEPT ![e].pc = "row", ![e].now = r]
  /\ UNCHANGED <<recRow, capturing, mediaAt, tmpAt, content, remux, backfill, restarts, excuse>>

VictimDone(e) ==
  eraser' = [eraser EXCEPT ![e] =
    IF eraser[e].todo = {eraser[e].now} THEN NoEraser
    ELSE [eraser[e] EXCEPT !.pc = "next", !.todo = eraser[e].todo \ {eraser[e].now}, !.now = "none"]]

\* The file goes before its row does.
DeleteRecordingRowFault(e) ==
  /\ eraser[e].pc = "row"
  /\ mediaAt' = [mediaAt EXCEPT ![eraser[e].now] = NoFile]
  /\ \/ /\ recRow' = [recRow EXCEPT ![eraser[e].now] = "gone"]
        /\ eraser' = [eraser EXCEPT ![e].pc = "file"]
     \/ VictimDone(e) /\ UNCHANGED recRow
  /\ UNCHANGED <<capturing, tmpAt, content, remux, backfill, restarts, excuse>>

\* DELETE of the row; it may be gone by now, and the query may fail, which spares
\* the file.
DeleteRecordingRow(e) ==
  /\ eraser[e].pc = "row"
  /\ \/ /\ recRow' = [recRow EXCEPT ![eraser[e].now] = "gone"]
        /\ eraser' = [eraser EXCEPT ![e].pc = "file"]
     \/ VictimDone(e) /\ UNCHANGED recRow
  /\ UNCHANGED <<capturing, mediaAt, tmpAt, content, remux, backfill, restarts, excuse>>

\* removeRecordingFile; an I/O error is reported and nothing more.
RemoveRecordingFile(e) ==
  LET r == eraser[e].now IN
  /\ eraser[e].pc = "file"
  /\ VictimDone(e)
  /\ \/ mediaAt' = [mediaAt EXCEPT ![r] = NoFile] /\ UNCHANGED excuse
     \/ mediaAt[r] # NoFile /\ Excused(r, {"ioerror"}) /\ UNCHANGED mediaAt
  /\ UNCHANGED <<recRow, capturing, tmpAt, content, remux, backfill, restarts>>

-------------------------------------------------------------------------------
\* The server dies and starts again; the captures and every ffmpeg die with it.
Restart ==
  /\ restarts < MaxRestarts
  /\ restarts' = restarts + 1
  /\ capturing' = {}
  /\ remux' = [r \in Recordings |-> [q \in Reasons |-> NoRemux]]
  /\ backfill' = Asleep
  /\ eraser' = [e \in Erasers |-> NoEraser]
  /\ excuse' = [r \in Recordings |-> excuse[r] \cup
       (IF \E e \in Erasers : eraser[e].pc = "file" /\ eraser[e].now = r THEN {"crash"} ELSE {})]
  /\ UNCHANGED <<recRow, mediaAt, tmpAt, content>>

FilesNext ==
  \/ \E r \in Recordings :
       \/ StopRecording(r) \/ Ages(r) \/ BackfillNext(r)
       \/ \E q \in Reasons :
            \/ OpenMedia(r, q) \/ AcquireExport(r, q) \/ FfmpegStarts(r, q) \/ FfmpegEnds(r, q)
            \/ Verify(r, q) \/ SwapIn(r, q) \/ SwapAgain(r, q) \/ RemoveTmp(r, q)
       \/ \E e \in Erasers : ReadForDelete(e, r) \/ NextVictim(e, r)
  \/ BackfillLists
  \/ \E e \in Erasers : ListVictims(e) \/ DeleteRecordingRow(e) \/ RemoveRecordingFile(e)
  \/ Restart

FilesSpec == FilesInit /\ [][FilesNext]_fileVars

-------------------------------------------------------------------------------
Whole(r) == mediaAt[r] # NoFile /\ content[r][mediaAt[r]] # "partial"

\* A recording that is listed has its media, as captured or remuxed whole, through
\* failed remuxes, deletions of it that fail and restarts: unless both remuxes of it
\* ran at once, or the file system refused a rename.
MediaKept ==
  \A r \in Recordings : recRow[r] # "gone" => Whole(r) \/ excuse[r] \cap {"clash", "refused"} # {}

\* The media of a deleted recording is gone when nobody works on it any more, unless
\* a remux that was under way put it back, or its removal failed or was cut short.
MediaGone ==
  \A r \in Recordings :
    /\ recRow[r] = "gone"
    /\ \A q \in Reasons : RemuxAt(r, q, "idle")
    /\ \A e \in Erasers : eraser[e].now # r
    => mediaAt[r] = NoFile \/ excuse[r] \cap {"revived", "ioerror", "crash"} # {}

\* A temporary file has a remux that will remove it, or a restart left it.
TmpHasOwner ==
  \A r \in Recordings : tmpAt[r] # NoFile => restarts > 0 \/ \E q \in Reasons : HoldsSlot(r, q)

\* Rows and media files agree.
RecordingFilesSound == MediaKept /\ MediaGone /\ TmpHasOwner

\* remux.go:65: "The output is written to a temp file next to path and only swapped
\* in after it verified as a non-fragmented MP4 with data, so a failure leaves the
\* original untouched": a listed recording no remux is working on is whole.
OriginalUntouched ==
  \A r \in Recordings :
    recRow[r] # "gone" /\ (\A q \in Reasons : RemuxAt(r, q, "idle")) => Whole(r)

===============================================================================
