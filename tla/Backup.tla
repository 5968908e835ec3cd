-------------------------------- MODULE Backup --------------------------------
(***************************************************************************)
(* Database snapshots (backup.go): createBackup makes, scrubs, verifies    *)
(* and prunes them, one at a time, administrators delete them meanwhile,   *)
(* and the process may end between any two steps.                          *)
(***************************************************************************)
EXTENDS DatabaseFile, FiniteSets

CONSTANTS
  Keep,        \* policy.Keep
  MaxBackups   \* bound: names of snapshots

ASSUME BackupAssumption == {Keep, MaxBackups} \subseteq Nat \ {0}

VARIABLES
  backups,   \* the files of the backup directory, in the order of their names
  making,    \* createBackup: its step and the file it makes
  kept       \* history: a backup succeeded and no administrator deleted one since

backupVars == <<backups, making, kept>>

Slots == 1..MaxBackups
NotMaking == [pc |-> "idle", slot |-> 0]
Good(f) == verifySQLiteFile(f) /\ ~f.sess

BackupInit == backups = [b \in Slots |-> Absent] /\ making = NotMaking /\ kept = FALSE

-------------------------------------------------------------------------------
\* createBackup, one at a time: the name, VACUUM INTO, scrub, verify, prune.
NewestBackups == CHOOSE b \in Slots \cup {0} :
            /\ b # 0 => backups[b] # Absent
            /\ \A c \in Slots : backups[c] # Absent => c =< b

StartBackup ==
  /\ making.pc = "idle" /\ NewestBackups < MaxBackups
  /\ backups' = [backups EXCEPT ![NewestBackups + 1] = Torn]
  /\ making' = [pc |-> "vacuum", slot |-> NewestBackups + 1]
  /\ UNCHANGED kept

Vacuumed ==
  /\ making.pc = "vacuum"
  /\ backups' = IF backups[making.slot] = Absent THEN backups
                ELSE [backups EXCEPT ![making.slot] = Database(1, TRUE)]
  /\ making' = [making EXCEPT !.pc = "scrub"]
  /\ UNCHANGED kept

\* scrubSnapshot opens the name, and so makes an empty file of one deleted meanwhile.
Scrubbed ==
  /\ making.pc = "scrub"
  /\ backups' = [backups EXCEPT ![making.slot] = IF @ = Absent THEN Empty ELSE scrubSnapshot(@)]
  /\ making' = [making EXCEPT !.pc = "verify"]
  /\ UNCHANGED kept

\* pruneBackups keeps the Keep names that sort last.
Pruned(bs) == [b \in Slots |->
  IF Cardinality({c \in Slots : c >= b /\ bs[c] # Absent}) > Keep THEN Absent ELSE bs[b]]

VerifiedFault ==
  /\ making.pc = "verify"
  /\ LET f == backups[making.slot]
     IN IF verifySQLiteFile(f)
        THEN backups' = Pruned(backups) /\ kept' = TRUE
        ELSE backups' = [Pruned(backups) EXCEPT ![making.slot] = Absent] /\ UNCHANGED kept
  /\ making' = NotMaking

Verified ==
  /\ making.pc = "verify"
  /\ LET f == backups[making.slot]
     IN IF verifySQLiteFile(f)
        THEN backups' = Pruned(backups) /\ kept' = TRUE
        ELSE backups' = [backups EXCEPT ![making.slot] = Absent] /\ UNCHANGED kept
  /\ making' = NotMaking

\* VACUUM INTO, the scrub or the verification fails: the file is removed.
BackupFailed ==
  /\ making.pc # "idle"
  /\ backups' = [backups EXCEPT ![making.slot] = Absent]
  /\ making' = NotMaking
  /\ UNCHANGED kept

\* handleDeleteBackup
DeleteBackup(b) ==
  /\ backups[b] # Absent
  /\ backups' = [backups EXCEPT ![b] = Absent]
  /\ kept' = IF b = making.slot THEN kept ELSE FALSE
  /\ UNCHANGED making

\* The process ends and is started again: the file it was making stays.
Interrupted ==
  /\ making.pc # "idle" /\ making' = NotMaking
  /\ UNCHANGED <<backups, kept>>

BackupNext ==
  \/ StartBackup \/ Vacuumed \/ Scrubbed \/ Verified \/ BackupFailed \/ Interrupted
  \/ \E b \in Slots : DeleteBackup(b)

BackupSpec == BackupInit /\ [][BackupNext]_backupVars

-------------------------------------------------------------------------------
\* Once a backup has succeeded there is a verified, scrubbed snapshot until an
\* administrator deletes one: neither pruning nor a failed or interrupted backup
\* takes the last good one away.
GoodBackupRemains == kept => \E b \in Slots : Good(backups[b])

===============================================================================
