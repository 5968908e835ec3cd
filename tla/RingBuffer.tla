------------------------------ MODULE RingBuffer ------------------------------
(***************************************************************************)
(* session.RingBuffer, the replay buffer of a terminal session.  Write and *)
(* Bytes run under its lock, so each is one step.                          *)
(***************************************************************************)
EXTENDS Integers, Sequences

CONSTANTS
  Cap,      \* its capacity in bytes
  Data,     \* the bytes
  Zero,     \* the byte make() fills it with
  Chunks    \* what the pumps may write at once

ASSUME CapAssumption == Cap \in Nat \ {0}
ASSUME ChunksAssumption == Chunks \subseteq Seq(Data)
ASSUME ZeroAssumption == Zero \in Data

VARIABLES
  buf,    \* the array
  head,   \* where the next byte goes
  size,   \* bytes held
  arg     \* what the latest Write was given

ringVars == <<buf, head, size, arg>>

Index == 0 .. Cap - 1

RingInit ==
  /\ buf = [i \in Index |-> Zero]
  /\ head = 0
  /\ size = 0
  /\ arg = << >>

\* (head + 1) % cap after each byte: a chunk shorter than Cap wraps at most once.
Wrap(i) == IF i < Cap THEN i ELSE i - Cap

\* How far cell i lies after head.
Ahead(i) == IF i < head THEN i - head + Cap ELSE i - head

\* A long chunk keeps its beginning.
KeepLastFault(p) ==
  /\ buf' = [i \in Index |-> p[i + 1]]
  /\ head' = 0
  /\ size' = Cap

\* A chunk that fills the buffer: only its last Cap bytes are kept.
KeepLast(p) ==
  /\ buf' = [i \in Index |-> p[Len(p) - Cap + i + 1]]
  /\ head' = 0
  /\ size' = Cap

PutEach(p) ==
  /\ buf' = [i \in Index |-> IF Ahead(i) < Len(p) THEN p[Ahead(i) + 1] ELSE buf[i]]
  /\ head' = Wrap(head + Len(p))
  /\ size' = IF size + Len(p) < Cap THEN size + Len(p) ELSE Cap

Write(p) ==
  /\ p # << >>
  /\ arg' = p
  /\ IF Len(p) >= Cap THEN KeepLast(p) ELSE PutEach(p)

\* Oldest first: once the buffer is full, head is the oldest cell.
Bytes ==
  [k \in 1 .. size |-> IF size < Cap THEN buf[k - 1] ELSE buf[Wrap(head + k - 1)]]

RingNext == \E p \in Chunks : Write(p)
RingSpec == RingInit /\ [][RingNext]_ringVars

-------------------------------------------------------------------------------
Abstract == INSTANCE ReplayTail WITH tail <- Bytes

\* Bytes always returns the last Cap bytes written, oldest first, whatever the
\* lengths of the writes and wherever they wrapped: the buffer implements
\* ReplayTail.
ReplayIsTail == Abstract!TailSpec

===============================================================================
