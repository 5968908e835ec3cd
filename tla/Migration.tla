------------------------------- MODULE Migration -------------------------------
(***************************************************************************)
(* The start of the server up to its first request: Migrate, statement by   *)
(* statement and without a transaction, on the database of this or of an    *)
(* earlier release, then bootstrapAdminUser.  The process may die, or a     *)
(* statement fail, anywhere; some errors stop the start and some are        *)
(* ignored.  While the server runs people change what the one-shot          *)
(* migrations once set.                                                     *)
(***************************************************************************)
EXTENDS Naturals

CONSTANTS
  Columns,    \* columns of applyAdditiveColumnPatches
  MaxStarts   \* bound on starts of the server

VARIABLES
  starting,   \* where the start is; "down" and "serving" are its ends
  columns,    \* columns the tables have
  marks,      \* migration_marks: "seed" is admin_role_seed_v1, "schema" schemaMarkCurrent
  adminRow,   \* the user with id admin
  converted,  \* the rows of earlier releases have been converted
  choice,     \* what people have set since: "none", "made", or "undone" by a migration
  demoted,    \* history: the user admin has lost the role by hand under this release
  ignored,    \* history: statements whose error was ignored
  starts

migrationVars == <<starting, columns, marks, adminRow, converted, choice, demoted, ignored, starts>>

\* Tags of targets become columns; links without a cap become single-use.
Conversions == {"tags", "links"}

NoAdmin == [role |-> "none", rotate |-> FALSE]

\* A new database, or one an earlier release has left.
MigrationInit ==
  /\ starting = "down"
  /\ marks \in {{}, {"seed"}, {"seed", "schema"}}
  /\ columns \in IF marks = {} THEN {{}}
                 ELSE {C \in SUBSET Columns : {"role"} \cup (IF "schema" \in marks THEN {"max_uses"} ELSE {}) \subseteq C}
  /\ adminRow \in {[role |-> r, rotate |-> FALSE] : r \in IF marks = {} THEN {"none", "user"} ELSE {"admin", "user"}}
  /\ converted = [c \in Conversions |-> "schema" \in marks]
  /\ choice = [c \in Conversions |-> "none"]
  /\ demoted = FALSE
  /\ ignored = {}
  /\ starts = 0

StartAt(pc) == starting = pc
StartGoes(pc) == starting' = pc

\* What the server has in memory is gone and the database is as the last statement
\* left it: a crash, a restart, or an error that panics.
Stop ==
  /\ starting # "down"
  /\ StartGoes("down")
  /\ UNCHANGED <<columns, marks, adminRow, converted, choice, demoted, ignored, starts>>

Start ==
  /\ StartAt("down") /\ starts < MaxStarts
  /\ StartGoes("columns")
  /\ starts' = starts + 1
  /\ UNCHANGED <<columns, marks, adminRow, converted, choice, demoted, ignored>>

\* The columns are patched only after the mark was looked at.
applyAdditiveColumnPatchesFault ==
  /\ StartAt("columns")
  /\ IF columns = Columns \/ "schema" \in marks THEN StartGoes("fast") /\ UNCHANGED columns
     ELSE \E c \in Columns \ columns : columns' = columns \cup {c} /\ UNCHANGED starting
  /\ UNCHANGED <<marks, adminRow, converted, choice, demoted, ignored, starts>>

applyAdditiveColumnPatches ==
  /\ StartAt("columns")
  /\ IF columns = Columns THEN StartGoes("fast") /\ UNCHANGED columns
     ELSE \E c \in Columns \ columns : columns' = columns \cup {c} /\ UNCHANGED starting
  /\ UNCHANGED <<marks, adminRow, converted, choice, demoted, ignored, starts>>

\* A mark that cannot be read counts as missing.
hasMigrationMark ==
  /\ StartAt("fast")
  /\ \/ StartGoes(IF "schema" \in marks THEN "bootstrap" ELSE "seed") /\ UNCHANGED ignored
     \/ StartGoes("seed") /\ ignored' = ignored \cup {"mark"}
  /\ UNCHANGED <<columns, marks, adminRow, converted, choice, demoted, starts>>

\* INSERT OR IGNORE, and then a count of the mark, which is there by now; an error of
\* either leaves the role as it is.
SeedMark ==
  /\ StartAt("seed")
  /\ \/ StartGoes("promote") /\ marks' = marks \cup {"seed"}
     \/ StartGoes("tags") /\ marks' \in {marks, marks \cup {"seed"}}
  /\ UNCHANGED <<columns, adminRow, converted, choice, demoted, ignored, starts>>

PromoteSeed ==
  /\ StartAt("promote")
  /\ StartGoes("tags")
  /\ adminRow' = IF adminRow.role = "none" THEN adminRow ELSE [adminRow EXCEPT !.role = "admin"]
  /\ UNCHANGED <<columns, marks, converted, choice, demoted, ignored, starts>>

\* An UPDATE whose error is ignored.
Convert(c) ==
  /\ StartAt(c)
  /\ StartGoes(IF c = "tags" THEN "links" ELSE "setmark")
  /\ \/ /\ converted' = [converted EXCEPT ![c] = TRUE]
        /\ choice' = [choice EXCEPT ![c] = IF @ = "made" THEN "undone" ELSE @]
        /\ UNCHANGED ignored
     \/ ignored' = ignored \cup {c} /\ UNCHANGED <<converted, choice>>
  /\ UNCHANGED <<columns, marks, adminRow, demoted, starts>>

\* The mark is forgotten.
setMigrationMarkFault ==
  /\ StartAt("setmark")
  /\ StartGoes("bootstrap")
  /\ UNCHANGED <<columns, marks, adminRow, converted, choice, demoted, ignored, starts>>

setMigrationMark ==
  /\ StartAt("setmark")
  /\ StartGoes("bootstrap")
  /\ \/ marks' = marks \cup {"schema"} /\ UNCHANGED ignored
     \/ ignored' = ignored \cup {"mark"} /\ UNCHANGED marks
  /\ UNCHANGED <<columns, adminRow, converted, choice, demoted, starts>>

\* CreateUser, unless the row is there ...
bootstrapAdminUser ==
  /\ StartAt("bootstrap")
  /\ IF adminRow.role = "none"
     THEN StartGoes("rotate") /\ adminRow' = [role |-> "admin", rotate |-> FALSE]
     ELSE StartGoes("serving") /\ UNCHANGED adminRow
  /\ UNCHANGED <<columns, marks, converted, choice, demoted, ignored, starts>>

\* ... and SetForcePasswordChange, whose error is logged.
ForcePasswordChange ==
  /\ StartAt("rotate")
  /\ StartGoes("serving")
  /\ adminRow' \in {adminRow, [adminRow EXCEPT !.rotate = TRUE]}
  /\ UNCHANGED <<columns, marks, converted, choice, demoted, ignored, starts>>

-------------------------------------------------------------------------------
(* Requests.                                                                 *)

\* PATCH of the user admin.
SetRole(r) ==
  /\ StartAt("serving") /\ adminRow.role # "none"
  /\ adminRow' = [adminRow EXCEPT !.role = r]
  /\ demoted' = (r = "user")
  /\ UNCHANGED <<starting, columns, marks, converted, choice, ignored, starts>>

\* An unlimited link is created, or SFTP enabled for a target tagged no-sftp.
MakeChoice(c) ==
  /\ StartAt("serving")
  /\ choice' = [choice EXCEPT ![c] = "made"]
  /\ UNCHANGED <<starting, columns, marks, adminRow, converted, demoted, ignored, starts>>

MigrationNext ==
  \/ Stop \/ Start
  \/ applyAdditiveColumnPatches \/ hasMigrationMark \/ SeedMark \/ PromoteSeed
  \/ \E c \in Conversions : Convert(c) \/ MakeChoice(c)
  \/ setMigrationMark \/ bootstrapAdminUser \/ ForcePasswordChange
  \/ \E r \in {"admin", "user"} : SetRole(r)

MigrationSpec == MigrationInit /\ [][MigrationNext]_migrationVars

-------------------------------------------------------------------------------
\* However often a start was cut short, and whatever mark an earlier release has left,
\* requests are served on all columns and with the old rows converted, unless an error
\* of that statement was ignored.
SchemaReady ==
  starting = "serving" => columns = Columns /\ \A c \in Conversions : converted[c] \/ c \in ignored

\* A one-shot migration does not come back for what people have set since, the role of
\* the user admin included, unless the mark of this schema could not be written or
\* read: the mark of the seed alone, which every start finds, keeps nothing out.
OneShot ==
  (demoted /\ adminRow.role = "admin") \/ (\E c \in Conversions : choice[c] = "undone")
  => "mark" \in ignored

\* Starting the server migrates what it must and nothing else.
MigrationSound == SchemaReady /\ OneShot

===============================================================================
