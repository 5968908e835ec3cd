----------------------------- MODULE MCComponents -----------------------------
(***************************************************************************)
(* Components driven by arbitrary callers, each on its own: the sharing    *)
(* room, the invitation store, browser RDP sessions, screen recordings,    *)
(* their files and exports, the command log, under output of any bytes      *)
(* ("echo") and while commands are typed ("log"), backups and the restore   *)
(* of one.  They share no state here, so `focus` picks one of them and the  *)
(* others stay as they started.                                             *)
(***************************************************************************)
EXTENDS SharingRoom, InvitationStore, RdpManager, VideoRecording, RecordingExports,
        RecordingFiles, CommandLog, Backup, Restore, TLC

CONSTANTS Pair, OtherPair   \* the interchangeable values of the cfg

VARIABLE focus

ComponentsInit ==
  /\ focus \in {"room", "invitations", "rdp", "video", "exports", "media", "echo", "log", "backup", "restore"}
  /\ RoomInit /\ StoreInit /\ RdpInit /\ VideoInit /\ ExportInit /\ FilesInit
  /\ CommandInit /\ BackupInit /\ RestoreInit
  /\ focus # "echo" => start = << >>

ComponentsNext ==
  /\ UNCHANGED focus
  /\ \/ focus = "room" /\ RoomNext
     \/ focus # "room" /\ UNCHANGED room
  /\ \/ focus = "invitations" /\ StoreNext
     \/ focus # "invitations" /\ UNCHANGED rows
  /\ \/ focus = "rdp" /\ RdpNext
     \/ focus # "rdp" /\ UNCHANGED rdpVars
  /\ \/ focus = "video" /\ VideoNext
     \/ focus # "video" /\ UNCHANGED videoVars
  /\ \/ focus = "exports" /\ ExportNext
     \/ focus # "exports" /\ UNCHANGED exportVars
  /\ \/ focus = "media" /\ FilesNext
     \/ focus # "media" /\ UNCHANGED fileVars
  /\ \/ focus = "echo" /\ TrackerNext
     \/ focus = "log" /\ RecorderNext
     \/ focus \notin {"echo", "log"} /\ UNCHANGED commandVars
  /\ \/ focus = "backup" /\ BackupNext
     \/ focus # "backup" /\ UNCHANGED backupVars
  /\ \/ focus = "restore" /\ RestoreNext
     \/ focus # "restore" /\ UNCHANGED restoreVars

ComponentsSpec ==
  /\ ComponentsInit
  /\ [][ComponentsNext]_<<focus, room, rows, rdpVars, videoVars, exportVars, fileVars,
                           commandVars, backupVars, restoreVars>>

Symmetry == Permutations(Pair) \cup Permutations(OtherPair)

===============================================================================
