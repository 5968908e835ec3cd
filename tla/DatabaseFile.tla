----------------------------- MODULE DatabaseFile -----------------------------
(***************************************************************************)
(* What backup and restore tell apart of an SQLite file: whether it is     *)
(* whole, the last transaction in it, and whether it holds sessions.       *)
(***************************************************************************)
EXTENDS Integers

Absent == [kind |-> "absent", tx |-> 0, sess |-> FALSE]
Torn == [Absent EXCEPT !.kind = "torn"]
Database(n, s) == [kind |-> "db", tx |-> n, sess |-> s]
\* What sqlite.Open makes of a name that has no file: no table in it.
Empty == [Absent EXCEPT !.kind = "empty"]

\* The header, integrity_check and the users table.
verifySQLiteFile(f) == f.kind = "db"

\* DELETE FROM sessions, where there is such a table.
scrubSnapshot(f) == [f EXCEPT !.sess = FALSE]

===============================================================================
