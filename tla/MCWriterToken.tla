---------------------------- MODULE MCWriterToken ----------------------------
(***************************************************************************)
(* WriterToken on a small instance.  Viewers, handlers, requests and all   *)
(* connections but the first are interchangeable.                          *)
(***************************************************************************)
EXTENDS WriterToken, TLC

Symmetry ==
  Permutations(Users \ {Owner}) \cup Permutations(Conns \ {FirstConn})
  \cup Permutations(Handlers) \cup Permutations(RequestIDs)
=============================================================================
