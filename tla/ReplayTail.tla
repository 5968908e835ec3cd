------------------------------ MODULE ReplayTail ------------------------------
(***************************************************************************)
(* What a client that attaches to a running session may expect to be shown *)
(* first: the last Cap bytes of everything the session has written.        *)
(***************************************************************************)
EXTENDS Integers, Sequences

CONSTANTS
  Cap,      \* bytes kept
  Data,     \* the bytes
  Chunks    \* what one write may carry


VARIABLES
  tail,   \* what is replayed
  arg     \* what the latest write carried

Newest(s) == IF Len(s) <= Cap THEN s ELSE SubSeq(s, Len(s) - Cap + 1, Len(s))

TailInit == tail = << >> /\ arg = << >>
Extend(p) == tail' = Newest(tail \o p) /\ arg' = p
TailSpec == TailInit /\ [][\E p \in Chunks : Extend(p)]_<<tail, arg>>

===============================================================================
