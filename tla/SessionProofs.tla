----------------------------- MODULE SessionProofs -----------------------------
(***************************************************************************)
(* A terminal or VNC session: it ends clean, its replay buffer implements   *)
(* ReplayTail, its clients see the output whole, and a shared VNC bridge    *)
(* leaks no connection and has one driver; and the file transfers started   *)
(* beside it have their goroutines and their files.  Each for any number of *)
(* requests, pumps, clients, tabs, users and jobs.  And the Telnet filter   *)
(* decodes the stream the same however it is cut into reads.                *)
(***************************************************************************)
EXTENDS SessionLifecycle, TerminalOutput, VncBridge, FileTransferJobs, TelnetIac, SequenceTheorems,
        FiniteSetTheorems, WellFoundedInduction, TLAPS

--------------------------------------------------------------------------------
(* The life of a session (SessionLifecycle).                                 *)

\* What the goroutine has acquired and given back by the time it is where it is: the
\* connection and the recording are gone past their deferred calls, the list past Delete
\* and, for a browser session, the bridge and the room past theirs; a room found there
\* later is another one.
GivenBack ==
  /\ worker \in {"idle", "closing", "done"} => ~listed
  /\ worker \in {"idle", "setup", "room", "dial"} => upstream = "none"
  /\ worker \in {"unregister", "remove", "record", "announce", "delete", "closing", "done"} =>
       upstream \in {"none", "closed"}
  /\ worker \in {"announce", "delete", "closing", "done"} => recording # "open"
  /\ origin = "browser" =>
       /\ worker \in {"remove", "record", "announce", "delete", "closing", "done"} => ~registered
       /\ worker \in RoomRemoved => (roomOpen => reopened)

StopRecord == [pc : {"idle", "purge", "lookup", "wait", "remove", "announce", "end"},
               kind : {"none", "delete", "purge", "ctrl-d"}, clean : BOOLEAN]

LifeIInv == LifeTypeOK /\ GivenBack /\ LeakReported

\* A step that only moves one stop request: the others stay, and a Stop that has reported
\* its failure has still reported it.
LEMMA StopperMoves ==
  ASSUME LifeIInv, NEW s \in Stoppers,
         NEW f \in StopRecord,
         stopper' = [stopper EXCEPT ![s] = f],
         stopper[s].pc \in {"remove", "announce", "end"} =>
           f.pc \in {"remove", "announce", "end"} /\ f.clean = stopper[s].clean,
         UNCHANGED <<listed, worker>>,
         cancelled' \in BOOLEAN, notified' \in BOOLEAN,
         UNCHANGED room \/ (roomOpen' = FALSE /\ reopened' = FALSE),
         UNCHANGED <<origin, visiting, upstream, recording, registered, starter, seen>>
  PROVE  LifeIInv'
<1>1. /\ stopper' \in [Stoppers -> StopRecord]
      /\ stopper'[s] = f /\ \A z \in Stoppers \ {s} : stopper'[z] = stopper[z]
      BY DEF LifeIInv, LifeTypeOK, StopRecord
<1>2. LifeTypeOK'
  <2>1. {listed, cancelled, roomOpen, reopened, registered, visiting, notified, seen} \subseteq BOOLEAN
        BY DEF LifeIInv, LifeTypeOK
  <2>2. listed' \in BOOLEAN BY <2>1
  <2>3. {registered', seen', visiting', roomOpen', reopened'} \subseteq BOOLEAN BY <2>1 DEF room
  <2>4. {listed, cancelled, roomOpen, reopened, registered, visiting, notified, seen}' \subseteq BOOLEAN BY <2>2, <2>3
  <2>5. worker' = worker OBVIOUS
  <2> QED BY <1>1, <2>4, <2>5 DEF LifeIInv, LifeTypeOK, StopRecord
<1>3. GivenBack' BY DEF LifeIInv, GivenBack, room
<1>4. LeakReported' BY <1>1 DEF LifeIInv, LeakReported
<1> QED BY <1>2, <1>3, <1>4 DEF LifeIInv

\* The stop requests keep the invariant, the one that gives up on the session too.
LEMMA StopsKeep ==
  ASSUME LifeIInv, NEW s \in Stoppers, StopSteps(s) \/ \E kind \in StopKinds : StopRequest(s, kind)
  PROVE  LifeIInv'
<1> USE DEF StopperAt, To, resources, room, frontend
<1>0. stopper[s] \in StopRecord
      /\ stopper \in [Stoppers -> StopRecord]
      /\ {cancelled, notified, roomOpen} \subseteq BOOLEAN
      BY DEF LifeIInv, LifeTypeOK, StopRecord
<1>1. ASSUME NEW pc \in {"lookup", "wait", "announce", "end"}, stopper' = [stopper EXCEPT ![s].pc = pc],
             stopper[s].pc \in {"remove", "announce", "end"} => pc \in {"announce", "end"}
      PROVE  \E f \in StopRecord :
               /\ stopper' = [stopper EXCEPT ![s] = f]
               /\ stopper[s].pc \in {"remove", "announce", "end"} =>
                    f.pc \in {"remove", "announce", "end"} /\ f.clean = stopper[s].clean
  <2>1. PICK f : f = [stopper[s] EXCEPT !.pc = pc] OBVIOUS
  <2>2. f \in StopRecord
        /\ f.pc = pc /\ f.clean = stopper[s].clean
        BY <1>0, <2>1 DEF StopRecord
  <2>3. stopper' = [stopper EXCEPT ![s] = f] BY <1>0, <1>1, <2>1
  <2> QED BY <1>1, <2>2, <2>3
<1>2. ASSUME NEW clean \in BOOLEAN, Stopped(s, clean)
      PROVE  \E f \in StopRecord :
               /\ stopper' = [stopper EXCEPT ![s] = f]
               /\ f.pc \in {"remove", "announce", "end"} /\ f.clean = clean
  <2>1. PICK pc \in {"remove", "announce", "end"} :
          pc = CASE stopper[s].kind = "delete" -> "remove"
                 [] stopper[s].kind = "purge" -> "announce"
                 [] OTHER -> "end"
        OBVIOUS
  <2>2. PICK f : f = [stopper[s] EXCEPT !.clean = clean, !.pc = pc] OBVIOUS
  <2>3. f \in StopRecord
        /\ f.pc = pc /\ f.clean = clean
        BY <1>0, <2>1, <2>2 DEF StopRecord
  <2>4. stopper' = [stopper EXCEPT ![s].clean = clean, ![s].pc = pc] BY <1>2, <2>1 DEF Stopped
  <2>5. stopper' = [stopper EXCEPT ![s] = f] BY <1>0, <2>2, <2>4
  <2> QED BY <2>1, <2>3, <2>5
<1>3. ASSUME NEW kind \in StopKinds, StopRequest(s, kind) PROVE LifeIInv'
  <2>1. PICK f : f = [pc |-> IF kind = "purge" THEN "purge" ELSE "lookup", kind |-> kind, clean |-> FALSE]
        OBVIOUS
  <2>2. f \in StopRecord
        BY <2>1 DEF StopKinds, StopRecord
  <2>3. stopper' = [stopper EXCEPT ![s] = f] /\ stopper[s].pc = "idle" BY <1>3, <2>1 DEF StopRequest
  <2>4. UNCHANGED <<origin, visiting, worker, listed, cancelled, resources, frontend>> BY <1>3 DEF StopRequest
  <2> QED BY <1>0, <2>2, <2>3, <2>4, StopperMoves
<1>4. CASE PurgeRoom(s)
  <2>1. PICK f \in StopRecord :
            /\ stopper' = [stopper EXCEPT ![s] = f]
            /\ stopper[s].pc \in {"remove", "announce", "end"} =>
                 f.pc \in {"remove", "announce", "end"} /\ f.clean = stopper[s].clean
        BY <1>1, <1>4 DEF PurgeRoom
  <2>2. /\ roomOpen' = FALSE /\ reopened' = FALSE
        /\ UNCHANGED <<origin, visiting, worker, listed, cancelled, upstream, recording, registered, frontend>>
        BY <1>4 DEF PurgeRoom
  <2> QED BY <1>0, <2>1, <2>2, StopperMoves
<1>5. CASE StopLookup(s)
  <2>1. CASE listed
    <3>1. PICK f \in StopRecord :
              /\ stopper' = [stopper EXCEPT ![s] = f]
              /\ stopper[s].pc \in {"remove", "announce", "end"} =>
                   f.pc \in {"remove", "announce", "end"} /\ f.clean = stopper[s].clean
          BY <1>1, <1>5, <2>1 DEF StopLookup
    <3>2. cancelled' \in BOOLEAN /\ UNCHANGED <<origin, visiting, worker, listed, resources, frontend>>
          BY <1>5, <2>1 DEF StopLookup
    <3> QED BY <1>0, <3>1, <3>2, StopperMoves
  <2>2. CASE ~listed
    <3>1. PICK f \in StopRecord :
              /\ stopper' = [stopper EXCEPT ![s] = f]
              /\ f.pc \in {"remove", "announce", "end"} /\ f.clean = TRUE
          BY <1>2, <1>5, <2>2 DEF StopLookup
    <3>2. UNCHANGED <<origin, visiting, worker, listed, cancelled, resources, frontend>> /\ stopper[s].pc = "lookup"
          BY <1>5, <2>2 DEF StopLookup
    <3> QED BY <1>0, <3>1, <3>2, StopperMoves
  <2> QED BY <2>1, <2>2 DEF StopLookup
<1>6. CASE StopFinished(s)
  <2>1. PICK f \in StopRecord :
            /\ stopper' = [stopper EXCEPT ![s] = f]
            /\ f.pc \in {"remove", "announce", "end"} /\ f.clean = TRUE
        BY <1>2, <1>6 DEF StopFinished
  <2>2. UNCHANGED <<origin, visiting, worker, listed, cancelled, resources, frontend>> /\ stopper[s].pc = "wait"
        BY <1>6 DEF StopFinished
  <2> QED BY <1>0, <2>1, <2>2, StopperMoves
<1>7. CASE StopTimesOut(s)
  <2>1. PICK f \in StopRecord :
            /\ stopper' = [stopper EXCEPT ![s] = f]
            /\ f.pc \in {"remove", "announce", "end"} /\ f.clean = FALSE
        BY <1>2, <1>7 DEF StopTimesOut
  <2>2. /\ UNCHANGED <<origin, visiting, worker, cancelled, resources, frontend>> /\ stopper[s].pc = "wait"
        /\ listed' = FALSE
        BY <1>7 DEF StopTimesOut
  <2>3. LifeTypeOK' /\ GivenBack' /\ LeakReported'
    <3>1. /\ stopper' \in [Stoppers -> StopRecord]
          /\ stopper'[s] = f
          BY <1>0, <2>1
    <3>2. LifeTypeOK' BY <2>2, <3>1 DEF LifeIInv, LifeTypeOK, StopRecord
    <3>3. GivenBack' BY <2>2 DEF LifeIInv, GivenBack
    <3>4. LeakReported' BY <2>1, <3>1 DEF LeakReported
    <3> QED BY <3>2, <3>3, <3>4
  <2> QED BY <2>3 DEF LifeIInv
<1>8. CASE RemoveAfterStop(s)
  <2>1. PICK f \in StopRecord :
            /\ stopper' = [stopper EXCEPT ![s] = f]
            /\ stopper[s].pc \in {"remove", "announce", "end"} =>
                 f.pc \in {"remove", "announce", "end"} /\ f.clean = stopper[s].clean
        BY <1>1, <1>8 DEF RemoveAfterStop
  <2>2. /\ roomOpen' = FALSE /\ reopened' = FALSE
        /\ UNCHANGED <<origin, visiting, worker, listed, cancelled, upstream, recording, registered, frontend>>
        BY <1>8 DEF RemoveAfterStop
  <2> QED BY <1>0, <2>1, <2>2, StopperMoves
<1>9. CASE AnnounceStop(s)
  <2>1. PICK f \in StopRecord :
            /\ stopper' = [stopper EXCEPT ![s] = f]
            /\ stopper[s].pc \in {"remove", "announce", "end"} =>
                 f.pc \in {"remove", "announce", "end"} /\ f.clean = stopper[s].clean
        BY <1>1, <1>9 DEF AnnounceStop
  <2>2. notified' = TRUE /\ UNCHANGED <<origin, visiting, worker, listed, cancelled, resources, starter, seen>>
        BY <1>9 DEF AnnounceStop
  <2> QED BY <1>0, <2>1, <2>2, StopperMoves
<1> QED BY <1>3, <1>4, <1>5, <1>6, <1>7, <1>8, <1>9 DEF StopSteps, StopWaits

\* The goroutine, the target and the browser keep the invariant.
LEMMA LifeKeeps == LifeIInv /\ [LifeNext]_lifeVars => LifeIInv'
<1> SUFFICES ASSUME LifeIInv, [LifeNext]_lifeVars PROVE LifeIInv'
    OBVIOUS
<1>1. ASSUME \/ Start \/ WorkerSteps \/ WorkerHangs \/ RemoteCloses \/ CleanupOnCancel \/ CleanupHangs
             \/ FindSession \/ EnsureRoom \/ AnnounceStart \/ Refetch \/ UNCHANGED lifeVars
      PROVE  LifeIInv'
  <2> USE DEF LifeIInv, LifeTypeOK, GivenBack, LeakReported, WorkerTo, resources, room, frontend, RoomRemoved
  <2>1. CASE Start BY <2>1 DEF Start
  <2>2. CASE SetupRecording BY <2>2 DEF SetupRecording
  <2>3. CASE OpenRoom BY <2>3 DEF OpenRoom
  <2>4. CASE DialFails BY <2>4 DEF DialFails, FirstDefer
  <2>5. CASE DialSucceeds BY <2>5 DEF DialSucceeds
  <2>6. CASE RunEnds BY <2>6 DEF RunEnds
  <2>7. CASE Cleanup BY <2>7 DEF Cleanup, FirstDefer
  <2>8. CASE Unregister BY <2>8 DEF Unregister
  <2>9. CASE RemoveRoom BY <2>9 DEF RemoveRoom
  <2>10. CASE CloseRecording BY <2>10 DEF CloseRecording
  <2>11. CASE AnnounceEnd BY <2>11 DEF AnnounceEnd
  <2>12. CASE Delete BY <2>12 DEF Delete
  <2>13. CASE CloseDone BY <2>13 DEF CloseDone
  <2>14. CASE RemoteCloses BY <2>14 DEF RemoteCloses
  <2>15. CASE CleanupOnCancel BY <2>15 DEF CleanupOnCancel
  <2>16. CASE CleanupHangs BY <2>16 DEF CleanupHangs
  <2>17. CASE AnnounceStart BY <2>17 DEF AnnounceStart
  <2>18. CASE Refetch
    <3>1. seen' \in BOOLEAN /\ notified' \in BOOLEAN
          /\ UNCHANGED <<origin, visiting, worker, listed, cancelled, resources, stopper, starter>>
          BY <2>18 DEF Refetch
    <3> QED BY <3>1
  <2>19. CASE UNCHANGED lifeVars BY <2>19 DEF lifeVars
  <2>20. CASE WorkerHangs BY <2>20 DEF WorkerHangs, FirstDefer
  <2>21. CASE FindSession BY <2>21 DEF FindSession
  <2>22. CASE EnsureRoom
    <3>1. /\ {roomOpen', reopened', visiting'} \subseteq BOOLEAN
          /\ roomOpen' = TRUE /\ reopened' = (reopened \/ (~roomOpen /\ worker \in RoomRemoved))
          /\ UNCHANGED <<origin, worker, listed, cancelled, upstream, recording, registered, stopper, frontend>>
          BY <2>22 DEF EnsureRoom
    <3>2. {listed, cancelled, roomOpen, reopened, registered, visiting, notified, seen}' \subseteq BOOLEAN BY <3>1
    <3>3. LifeTypeOK' BY <3>1, <3>2
    <3>4. GivenBack' BY <3>1
    <3>5. LeakReported' BY <3>1
    <3> QED BY <3>3, <3>4, <3>5
  <2> QED BY <1>1, <2>1, <2>2, <2>3, <2>4, <2>5, <2>6, <2>7, <2>8, <2>9, <2>10, <2>11, <2>12, <2>13,
             <2>14, <2>15, <2>16, <2>17, <2>18, <2>19, <2>20, <2>21, <2>22 DEF WorkerSteps, Dial
<1> QED BY <1>1, StopsKeep DEF LifeNext

\* When the goroutine of a session has finished nothing of it is left, but for a room that
\* a handler made after its removal, and one that was given up on was reported; for any
\* number of requests that stop or share it (EndsClean).
THEOREM SessionEndsClean == LifeSpec => []EndsClean
<1>1. LifeInit => LifeIInv
  <2> SUFFICES ASSUME LifeInit PROVE LifeIInv
      OBVIOUS
  <2>1. LifeTypeOK BY DEF LifeInit, LifeTypeOK, IdleStop
  <2> QED BY <2>1 DEF LifeInit, LifeIInv, GivenBack, LeakReported, RoomRemoved
<1>2. LifeIInv => EndsClean BY DEF LifeIInv, GivenBack, EndsClean, NothingLeft, RoomRemoved
<1> QED BY <1>1, <1>2, LifeKeeps, PTL DEF LifeSpec

--------------------------------------------------------------------------------
(* The replay buffer (RingBuffer).                                           *)

\* Until the buffer is full, head has not wrapped.
RingInv ==
  /\ buf \in [Index -> Data]
  /\ head \in Index
  /\ size \in 0 .. Cap
  /\ size < Cap => head = size

\* A write keeps the invariant.
LEMMA WriteKeepsInv == ASSUME RingInv, NEW p \in Seq(Data), Write(p) PROVE RingInv'
<1>1. Len(p) \in Nat \ {0}
  BY DEF Write
<1>2. CASE Len(p) >= Cap
  BY <1>1, <1>2, CapAssumption DEF Write, KeepLast, RingInv, Index
<1>3. CASE Len(p) < Cap
  <2>1. PutEach(p)
    BY <1>1, <1>3, CapAssumption DEF Write
  <2>2. \A i \in Index : Ahead(i) \in Nat
    BY CapAssumption DEF Index, Ahead, RingInv
  <2>3. \A i \in Index : Ahead(i) < Len(p) => p[Ahead(i) + 1] \in Data
    BY <1>1, <2>2
  <2>4. buf' \in [Index -> Data]
    BY <2>1, <2>3 DEF PutEach, RingInv
  <2>5. /\ head' \in Index
        /\ size' \in 0 .. Cap
        /\ size' < Cap => head' = size'
    BY <1>1, <1>3, <2>1, CapAssumption DEF PutEach, RingInv, Index, Wrap
  <2> QED BY <2>4, <2>5 DEF RingInv, Index
<1> QED BY <1>1, <1>2, <1>3, CapAssumption

\* The buffer starts in its invariant, and every write keeps it.
LEMMA RingInvariant == RingSpec => []RingInv
<1>1. RingInit => RingInv
  BY CapAssumption, ZeroAssumption DEF RingInit, RingInv, Index
<1>2. RingInv /\ [RingNext]_ringVars => RingInv'
  <2> SUFFICES ASSUME RingInv, [RingNext]_ringVars PROVE RingInv'
    OBVIOUS
  <2>1. CASE UNCHANGED ringVars
    BY <2>1 DEF RingInv, ringVars, Index
  <2>2. CASE RingNext
    BY <2>2, WriteKeepsInv, ChunksAssumption DEF RingNext
  <2> QED BY <2>1, <2>2
<1> QED BY <1>1, <1>2, PTL DEF RingSpec

\* Where the k-th oldest byte of a buffer of that shape lies.
Cell(h, sz, k) == IF sz < Cap THEN k - 1 ELSE Wrap(h + k - 1)

\* The contents form a sequence as long as size says, each byte from its cell.
SeqView ==
  /\ Bytes \in Seq(Data)
  /\ Len(Bytes) = size
  /\ \A k \in 1 .. size : Bytes[k] = buf[Cell(head, size, k)]

\* What Bytes returns, in a state the buffer can be in.
LEMMA BytesIsSeq == RingInv => SeqView
<1> SUFFICES ASSUME RingInv PROVE SeqView
  OBVIOUS
<1>1. \A k \in 1 .. size : Cell(head, size, k) \in Index
  BY CapAssumption DEF RingInv, Index, Cell, Wrap
<1>2. Bytes = [k \in 1 .. size |-> buf[Cell(head, size, k)]]
  BY DEF Bytes, Cell
<1>3. \A k \in 1 .. size : buf[Cell(head, size, k)] \in Data
  BY <1>1 DEF RingInv
<1>4. size \in Nat
  BY CapAssumption DEF RingInv
<1> QED BY <1>2, <1>3, <1>4 DEF SeqView

\* How many elements of a sequence of that length are not among its newest.
Dropped(len) == IF len <= Cap THEN 0 ELSE len - Cap

\* The newest elements of s, one by one.
LEMMA NewestElements ==
  ASSUME NEW s \in Seq(Data)
  PROVE  /\ Abstract!Newest(s) \in Seq(Data)
         /\ Len(Abstract!Newest(s)) = Len(s) - Dropped(Len(s))
         /\ \A k \in 1 .. Len(s) - Dropped(Len(s)) : Abstract!Newest(s)[k] = s[k + Dropped(Len(s))]
<1>1. CASE Len(s) <= Cap
  BY <1>1, CapAssumption DEF Abstract!Newest, Dropped
<1>2. CASE ~(Len(s) <= Cap)
  <2> DEFINE m == Len(s) - Cap + 1
  <2>1. Abstract!Newest(s) = SubSeq(s, m, Len(s))
    BY <1>2 DEF Abstract!Newest
  <2>2. m \in 1 .. Len(s) + 1 /\ Len(s) \in Nat
    BY <1>2, CapAssumption
  <2> HIDE DEF m
  <2>3. /\ SubSeq(s, m, Len(s)) \in Seq(Data)
        /\ Len(SubSeq(s, m, Len(s))) = Len(s) - m + 1
        /\ \A k \in 1 .. Len(s) - m + 1 : SubSeq(s, m, Len(s))[k] = s[m + k - 1]
    BY <2>2, SubSeqProperties
  <2> USE DEF m
  <2>4. Dropped(Len(s)) = Len(s) - Cap
    BY <1>2 DEF Dropped
  <2> QED BY <2>1, <2>2, <2>3, <2>4, CapAssumption
<1> QED BY <1>1, <1>2

\* One Write keeps the newest Cap bytes of what was there and what came.
LEMMA WriteKeepsNewest ==
  ASSUME RingInv, NEW p \in Seq(Data), Write(p)
  PROVE  Bytes' = Abstract!Newest(Bytes \o p)
<1> DEFINE n == Len(p)
           s == Bytes \o p
           d == Dropped(size + n)
<1>1. n \in Nat \ {0} /\ size \in 0 .. Cap /\ Cap \in Nat \ {0}
  BY CapAssumption DEF Write, RingInv
<1>d. /\ d \in Nat
      /\ size + n <= Cap => d = 0
      /\ size + n > Cap => d = size + n - Cap
  BY <1>1 DEF Dropped
<1>2. Bytes \in Seq(Data) /\ Len(Bytes) = size
  BY BytesIsSeq DEF SeqView
<1>3. SeqView'
  <2>1. RingInv'
    BY WriteKeepsInv
  <2> QED BY <2>1, BytesIsSeq, PTL
<1>4. s \in Seq(Data) /\ Len(s) = size + n
  BY <1>1, <1>2
<1> HIDE DEF d, n
<1>5. size' = size + n - d
  <2>1. size' = IF n >= Cap \/ size + n >= Cap THEN Cap ELSE size + n
    BY <1>1 DEF Write, KeepLast, PutEach, n
  <2> QED BY <1>1, <1>d, <2>1
<1>6. ASSUME NEW k \in 1 .. size' PROVE Bytes'[k] = s[k + d]
  <2>1. Bytes'[k] = buf'[Cell(head', size', k)]
    BY <1>3 DEF SeqView, Cell, Wrap
  <2>2. k \in Nat \ {0} /\ k + d \in 1 .. size + n
    BY <1>1, <1>d, <1>5
  <2>3. CASE n >= Cap
    <3>1. KeepLast(p)
      BY <2>3 DEF Write, n
    <3>2. Cell(head', size', k) = k - 1 /\ k - 1 \in Index
      BY <1>1, <3>1 DEF KeepLast, Cell, Wrap, Index
    <3>3. buf'[k - 1] = p[n - Cap + k]
      BY <1>1, <3>1, <3>2 DEF KeepLast, n
    <3>4. k + d > size /\ k + d - size = n - Cap + k
      BY <1>1, <1>d, <2>2, <2>3
    <3>5. s[k + d] = p[k + d - size]
      BY <1>1, <1>2, <1>d, <2>2, <3>4 DEF n
    <3> QED BY <2>1, <3>2, <3>3, <3>4, <3>5
  <2>4. CASE n < Cap
    <3> DEFINE c == Cell(head', size', k)
    <3>1. PutEach(p)
      BY <1>1, <2>4 DEF Write, n
    <3>2. head' = Wrap(head + n) /\ size' = IF size + n < Cap THEN size + n ELSE Cap
      BY <3>1 DEF PutEach, n
    <3>3. c \in Index
      BY <1>1, <2>4, <3>2 DEF Cell, Wrap, RingInv, Index
    <3>4. buf'[c] = IF Ahead(c) < n THEN p[Ahead(c) + 1] ELSE buf[c]
      BY <3>1, <3>3 DEF PutEach, n
    <3>5. CASE k + d <= size
      <4>1. k + d \in 1 .. size
        BY <1>1, <2>2, <3>5
      <4>2. s[k + d] = Bytes[k + d]
        BY <1>2, <4>1
      <4>3. Bytes[k + d] = buf[Cell(head, size, k + d)]
        BY <4>1, BytesIsSeq DEF SeqView
      <4>4. c = Cell(head, size, k + d) /\ ~(Ahead(c) < n)
        BY <1>1, <1>d, <2>2, <2>4, <3>2, <3>5 DEF Cell, Wrap, RingInv, Index, Ahead
      <4> HIDE DEF c
      <4> QED BY <2>1, <3>4, <4>2, <4>3, <4>4 DEF c
    <3>6. CASE k + d > size
      <4>1. s[k + d] = p[k + d - size]
        BY <1>1, <1>2, <1>d, <2>2, <3>6 DEF n
      <4>2. Ahead(c) = k + d - size - 1
        <5>1. CASE size + n < Cap
          BY <1>1, <1>d, <1>5, <2>2, <2>4, <3>2, <3>6, <5>1 DEF Cell, Wrap, RingInv, Index, Ahead
        <5>2. CASE size + n >= Cap /\ size < Cap
          BY <1>1, <1>d, <1>5, <2>2, <2>4, <3>2, <3>6, <5>2 DEF Cell, Wrap, RingInv, Index, Ahead
        <5>3. CASE size = Cap
          BY <1>1, <1>d, <1>5, <2>2, <2>4, <3>2, <3>6, <5>3 DEF Cell, Wrap, RingInv, Index, Ahead
        <5> QED BY <1>1, <5>1, <5>2, <5>3
      <4> HIDE DEF c
      <4>3. Ahead(c) < n /\ Ahead(c) + 1 = k + d - size
        BY <1>1, <1>d, <2>2, <3>6, <4>2
      <4> QED BY <2>1, <3>4, <4>1, <4>3 DEF c
    <3>7. k + d <= size \/ k + d > size
      BY <1>1, <2>2
    <3> HIDE DEF s
    <3> QED BY <3>5, <3>6, <3>7
  <2>5. n >= Cap \/ n < Cap
    BY <1>1
  <2> HIDE DEF s
  <2> QED BY <2>3, <2>4, <2>5
<1> HIDE DEF s
<1>7. /\ Abstract!Newest(s) \in Seq(Data)
      /\ Len(Abstract!Newest(s)) = size'
      /\ \A k \in 1 .. size' : Abstract!Newest(s)[k] = s[k + d]
  <2>1. Dropped(Len(s)) = d
    BY <1>4 DEF d, s
  <2>2. Len(s) - Dropped(Len(s)) = size'
    BY <1>1, <1>4, <1>5, <1>d, <2>1
  <2>3. /\ Abstract!Newest(s) \in Seq(Data)
        /\ Len(Abstract!Newest(s)) = Len(s) - Dropped(Len(s))
        /\ \A k \in 1 .. Len(s) - Dropped(Len(s)) : Abstract!Newest(s)[k] = s[k + Dropped(Len(s))]
    BY <1>4, NewestElements
  <2> QED BY <2>1, <2>2, <2>3
<1> QED BY <1>3, <1>6, <1>7, SeqEqual DEF s, SeqView

\* The refinement: whatever is written, in chunks of whatever length, Bytes is
\* the last Cap bytes written (ReplayIsTail, checked on a small instance by the
\* run `session`).
THEOREM RingImplementsTail == RingSpec => ReplayIsTail
<1>1. RingInit => Abstract!TailInit
  <2> SUFFICES ASSUME RingInit PROVE Bytes = << >> /\ arg = << >>
    BY DEF Abstract!TailInit
  <2> QED BY DEF RingInit, Bytes
<1>2. RingInv /\ [RingNext]_ringVars => [\E p \in Chunks : Abstract!Extend(p)]_<<Bytes, arg>>
  <2> SUFFICES ASSUME RingInv, [RingNext]_ringVars
               PROVE  (\E p \in Chunks : Abstract!Extend(p)) \/ UNCHANGED <<Bytes, arg>>
    OBVIOUS
  <2>1. CASE UNCHANGED ringVars
    BY <2>1 DEF ringVars, Bytes, Wrap
  <2>2. ASSUME NEW p \in Chunks, Write(p) PROVE Abstract!Extend(p)
    <3>1. p \in Seq(Data)
      BY ChunksAssumption
    <3> QED BY <2>2, <3>1, WriteKeepsNewest DEF Abstract!Extend, Write
  <2> QED BY <2>1, <2>2 DEF RingNext
<1> QED BY <1>1, <1>2, RingInvariant, PTL DEF RingSpec, ReplayIsTail, Abstract!TailSpec

--------------------------------------------------------------------------------
(* The output of a terminal (TerminalOutput).                                *)

ByteSet == Nat \cup Data
PumpRecord == [pc : {"read", "ring", "tee", "broadcast", "done"}, byte : Nat]
ViewerRecord == [pc : {"new", "added", "snapped", "live", "broken", "told", "closed"},
                 replay : Seq(Data), got : SUBSET ByteSet, from : Int]

OutputTypeOK ==
  /\ RingInv
  /\ pump \in [Pumps -> PumpRecord]
  /\ written \in Seq(Data)
  /\ recorded \subseteq 1 .. produced
  /\ produced \in 0 .. MaxOutput
  /\ clients \subseteq Viewers
  /\ viewer \in [Viewers -> ViewerRecord]
  /\ ctxDone \in BOOLEAN
  /\ runLoop \in Viewers \cup {"select", "done", "stopped"}

\* The replay buffer holds the end of what was written.
RingIsTail ==
  /\ size =< Len(written)
  /\ \A k \in 1 .. size : Bytes[k] = written[Len(written) - size + k]

\* Every byte of the target is recorded or in the hands of the pump that read it, and
\* one in hand past the ring is a byte the target wrote.
BytesAccounted ==
  /\ \A p \in Pumps : pump[p].pc \in {"ring", "tee", "broadcast"} => pump[p].byte \in 1 .. produced
  /\ \A b \in 1 .. produced : b \in recorded \/ \E p \in Pumps : pump[p].pc \in {"ring", "tee"} /\ pump[p].byte = b

ReplayOf(v) == {viewer[v].replay[k] : k \in DOMAIN viewer[v].replay}

\* Where a client is: only the one the run loop attends to is being attached, only a
\* session that has ended has told anyone, and a client has all it is owed: what it got,
\* what its replay will bring and what a pump is about to broadcast.
ViewerOK(v) ==
  /\ viewer[v].pc \in {"added", "snapped"} => runLoop = v
  /\ viewer[v].pc = "told" => runLoop \in {"done", "stopped"}
  /\ v \in clients => viewer[v].pc \in {"added", "snapped", "live", "broken", "told"}
  /\ v \in clients /\ viewer[v].pc \in {"snapped", "live", "told"} => viewer[v].from >= 1
  /\ v \in clients /\ viewer[v].pc = "snapped" => Since(v) \subseteq viewer[v].got \cup ReplayOf(v) \cup InHand
  /\ v \in clients /\ viewer[v].pc \in {"live", "told"} => Since(v) \subseteq viewer[v].got \cup InHand

ViewersOK == \A v \in Viewers : ViewerOK(v)

\* A session that has ended with its target has no pump left, and no client whose write
\* had failed or that was still being attached.
EndedQuiet == runLoop = "done" => BridgeDone /\ \A v \in clients : viewer[v].pc = "told"

OutputIInv == OutputTypeOK /\ RingIsTail /\ BytesAccounted /\ ViewersOK /\ EndedQuiet

\* A fresh bridge is in order: the buffer empty, nobody attached.
LEMMA OutputStart == OutputInit => OutputIInv
<1> SUFFICES ASSUME OutputInit PROVE OutputIInv
    OBVIOUS
<1>1. RingInv BY CapAssumption, ZeroAssumption DEF OutputInit, RingInit, RingInv, Index
<1>2. NewViewer \in ViewerRecord /\ NewViewer.pc = "new" BY DEF NewViewer, ViewerRecord
<1>3. viewer \in [Viewers -> ViewerRecord] /\ \A v \in Viewers : viewer[v].pc = "new"
      BY <1>2 DEF OutputInit
<1>4. pump \in [Pumps -> PumpRecord] /\ \A p \in Pumps : pump[p].pc = "read"
      BY DEF OutputInit, PumpRecord
<1>5. produced = 0 /\ produced \in 0 .. MaxOutput /\ recorded = {} /\ clients = {} /\ written = << >>
      /\ ctxDone = FALSE /\ runLoop = "select" /\ size = 0
      BY OutputAssumption DEF OutputInit, RingInit
<1>6. OutputTypeOK
  <2>1. written \in Seq(Data) /\ recorded \subseteq 1 .. produced /\ clients \subseteq Viewers BY <1>5
  <2>2. ctxDone \in BOOLEAN /\ runLoop \in Viewers \cup {"select", "done", "stopped"} BY <1>5
  <2> QED BY <1>1, <1>3, <1>4, <1>5, <2>1, <2>2 DEF OutputTypeOK
<1>7. RingIsTail BY <1>5 DEF RingIsTail
<1>8. BytesAccounted BY <1>4, <1>5 DEF BytesAccounted
<1>9. ViewersOK BY <1>3, <1>5 DEF ViewersOK, ViewerOK
<1>10. EndedQuiet BY <1>5 DEF EndedQuiet
<1> QED BY <1>6, <1>7, <1>8, <1>9, <1>10 DEF OutputIInv

\* One more byte is written: the buffer still holds the end of what was.
LEMMA TailGrows ==
  ASSUME OutputTypeOK, RingIsTail, NEW b \in Data, Write(<<b>>), written' = Append(written, b)
  PROVE  RingInv' /\ RingIsTail' /\ written' \in Seq(Data)
<1>0. <<b>> \in Seq(Data) /\ Len(<<b>>) = 1 /\ <<b>>[1] = b OBVIOUS
<1>1. RingInv' BY <1>0, WriteKeepsInv DEF OutputTypeOK
<1>2. /\ Bytes \in Seq(Data) /\ Len(Bytes) = size /\ size \in 0 .. Cap
      BY BytesIsSeq DEF OutputTypeOK, SeqView, RingInv
<1>3. SeqView' BY <1>1, BytesIsSeq, PTL
<1>4. PICK s : s = Bytes \o <<b>> OBVIOUS
<1>5. /\ s \in Seq(Data) /\ Len(s) = size + 1 /\ s[size + 1] = b
      /\ \A k \in 1 .. size : s[k] = Bytes[k]
  <2>1. PICK old \in Seq(Data) : old = Bytes BY <1>2
  <2>2. s = old \o <<b>> /\ Len(old) = size /\ size \in Nat BY <1>2, <1>4, <2>1, CapAssumption
  <2>3. s \in Seq(Data) /\ Len(s) = size + 1 BY <1>0, <2>2
  <2>4. s[size + 1] = b BY <1>0, <2>2
  <2>5. \A k \in 1 .. size : s[k] = old[k] BY <1>0, <2>2
  <2> QED BY <2>1, <2>3, <2>4, <2>5
<1>6. Bytes' = Abstract!Newest(s) BY <1>0, <1>4, WriteKeepsNewest DEF OutputTypeOK
<1>7. PICK d : d = Dropped(size + 1) OBVIOUS
<1>8. d \in 0 .. 1 /\ (size + 1 =< Cap => d = 0) BY <1>2, <1>7, CapAssumption DEF Dropped
<1>9. /\ Len(Bytes') = size + 1 - d
      /\ \A k \in 1 .. size + 1 - d : Bytes'[k] = s[k + d]
  <2>1. Dropped(Len(s)) = d /\ Len(s) - Dropped(Len(s)) = size + 1 - d
    <3>1. Dropped(Len(s)) = d BY <1>5, <1>7
    <3> QED BY <1>2, <1>5, <1>8, <3>1, CapAssumption
  <2>2. /\ Len(Abstract!Newest(s)) = Len(s) - Dropped(Len(s))
        /\ \A k \in 1 .. Len(s) - Dropped(Len(s)) : Abstract!Newest(s)[k] = s[k + Dropped(Len(s))]
        BY <1>5, NewestElements
  <2> QED BY <1>6, <2>1, <2>2
<1>10. Len(Bytes') = size' BY <1>3 DEF SeqView
<1>11. /\ written' \in Seq(Data) /\ Len(written') = Len(written) + 1 /\ written'[Len(written) + 1] = b
       /\ \A k \in 1 .. Len(written) : written'[k] = written[k]
       /\ Len(written) \in Nat
       BY DEF OutputTypeOK
<1>12. size =< Len(written) /\ \A k \in 1 .. size : Bytes[k] = written[Len(written) - size + k]
       BY DEF RingIsTail
<1>13. size' =< Len(written') BY <1>2, <1>8, <1>9, <1>10, <1>11, <1>12
<1>14. ASSUME NEW k \in 1 .. size' PROVE Bytes'[k] = written'[Len(written') - size' + k]
  <2>1. Bytes'[k] = s[k + d] /\ k + d \in 1 .. size + 1 /\ Len(written') - size' + k = Len(written) - size + (k + d)
    <3>1. k \in 1 .. size + 1 - d /\ size' = size + 1 - d BY <1>9, <1>10
    <3>2. Bytes'[k] = s[k + d] BY <1>9, <3>1
    <3>3. size \in Nat /\ d \in Nat /\ k \in Nat /\ k >= 1 BY <1>2, <1>8, <3>1, CapAssumption
    <3>4. k + d \in 1 .. size + 1 BY <3>1, <3>3
    <3>5. Len(written') - size' + k = Len(written) - size + (k + d) BY <1>11, <3>1, <3>3
    <3> QED BY <3>2, <3>4, <3>5
  <2>2. CASE k + d = size + 1
        BY <1>2, <1>5, <1>11, <2>1, <2>2
  <2>3. CASE k + d # size + 1
    <3>1. k + d \in 1 .. size
      <4>1. PICK i : i = k + d OBVIOUS
      <4>2. i \in 1 .. size + 1 /\ i # size + 1 BY <2>1, <2>3, <4>1
      <4>3. size \in Nat BY <1>2, CapAssumption
      <4>4. i \in 1 .. size BY <4>2, <4>3
      <4> QED BY <4>1, <4>4
    <3>2. s[k + d] = written[Len(written) - size + (k + d)] BY <1>5, <1>12, <3>1
    <3>3. Len(written) - size + (k + d) \in 1 .. Len(written) BY <1>2, <1>11, <1>12, <3>1
    <3> QED BY <1>11, <2>1, <3>2, <3>3
  <2> QED BY <2>2, <2>3
<1>15. RingIsTail' BY <1>13, <1>14 DEF RingIsTail
<1> QED BY <1>1, <1>11, <1>15

\* A step that leaves the buffer and what was written alone.
LEMMA TailStays ==
  ASSUME OutputTypeOK, RingIsTail, UNCHANGED <<ringVars, written>>
  PROVE  RingInv' /\ RingIsTail' /\ Bytes' = Bytes
BY DEF OutputTypeOK, RingIsTail, RingInv, ringVars, Bytes, Wrap, Index

\* A pump that moves: it hands its byte on.
LEMMA PumpMoves ==
  ASSUME OutputTypeOK, NEW p \in Pumps, NEW f \in PumpRecord, pump' = [pump EXCEPT ![p] = f]
  PROVE  pump' \in [Pumps -> PumpRecord] /\ pump'[p] = f /\ \A q \in Pumps \ {p} : pump'[q] = pump[q]
BY DEF OutputTypeOK

\* The pumps up to the broadcast.
LEMMA PumpsKeep ==
  ASSUME OutputIInv, NEW p \in Pumps, Read(p) \/ ToRing(p) \/ ToRecording(p) \/ PumpEnds(p)
  PROVE  OutputIInv'
<1> USE DEF OutputIInv
<1>0. pump[p] \in PumpRecord /\ pump \in [Pumps -> PumpRecord] /\ produced \in 0 .. MaxOutput /\ MaxOutput \in Nat
      BY OutputAssumption DEF OutputTypeOK
<1>q. ASSUME runLoop' = runLoop, clients' = clients, viewer' = viewer, pump[p].pc # "done"
      PROVE  EndedQuiet'
      BY <1>q DEF EndedQuiet, BridgeDone
<1>1. CASE Read(p)
  <2>1. PICK f : f = [pc |-> "ring", byte |-> produced + 1] OBVIOUS
  <2>2. f \in PumpRecord /\ f.pc = "ring" /\ f.byte = produced + 1 BY <1>0, <2>1 DEF PumpRecord
  <2>3. /\ pump' = [pump EXCEPT ![p] = f] /\ produced' = produced + 1 /\ produced < MaxOutput /\ pump[p].pc = "read"
        /\ UNCHANGED <<ringVars, written, recorded, clients, viewer, ctxDone, runLoop>>
        BY <1>1, <2>1 DEF Read
  <2>4. pump' \in [Pumps -> PumpRecord] /\ pump'[p] = f /\ \A q \in Pumps \ {p} : pump'[q] = pump[q]
        BY <2>2, <2>3, PumpMoves
  <2>5. RingInv' /\ RingIsTail' BY <2>3, TailStays
  <2>6. OutputTypeOK' BY <1>0, <2>3, <2>4, <2>5 DEF OutputTypeOK
  <2>7. BytesAccounted' BY <1>0, <2>2, <2>3, <2>4 DEF BytesAccounted
  <2>8. InHand' = InHand BY <2>2, <2>3, <2>4 DEF InHand
  <2>9. ViewersOK' BY <2>3, <2>8 DEF ViewersOK, ViewerOK, Since, ReplayOf
  <2> QED BY <1>q, <2>3, <2>5, <2>6, <2>7, <2>9
<1>2. CASE ToRing(p)
  <2>1. PICK f : f = [pump[p] EXCEPT !.pc = "tee"] OBVIOUS
  <2>2. f \in PumpRecord /\ f.pc = "tee" /\ f.byte = pump[p].byte BY <1>0, <2>1 DEF PumpRecord
  <2>3. /\ pump' = [pump EXCEPT ![p] = f] /\ pump[p].pc = "ring"
        /\ Write(<<pump[p].byte>>) /\ written' = Append(written, pump[p].byte)
        /\ UNCHANGED <<recorded, produced, clients, viewer, ctxDone, runLoop>>
        BY <1>0, <1>2, <2>1 DEF ToRing
  <2>4. pump' \in [Pumps -> PumpRecord] /\ pump'[p] = f /\ \A q \in Pumps \ {p} : pump'[q] = pump[q]
        BY <2>2, <2>3, PumpMoves
  <2>5. PICK b : b = pump[p].byte OBVIOUS
  <2>6. b \in 1 .. produced BY <2>3, <2>5 DEF BytesAccounted
  <2>7. b \in Data
    <3>1. b \in 1 .. MaxOutput BY <1>0, <2>6
    <3>2. <<b>> \in Seq(Data) BY <3>1, OutputAssumption, ChunksAssumption
    <3> QED BY <3>2
  <2>8. RingInv' /\ RingIsTail' /\ written' \in Seq(Data) BY <2>3, <2>5, <2>7, TailGrows
  <2>9. OutputTypeOK' BY <2>3, <2>4, <2>8 DEF OutputTypeOK
  <2>10. BytesAccounted' BY <2>2, <2>3, <2>4 DEF BytesAccounted
  <2>11. InHand \cup {b} \subseteq InHand'
    <3>1. \A q \in Pumps : pump[q].pc \in {"tee", "broadcast"} => q # p /\ pump'[q] = pump[q] BY <2>3, <2>4
    <3>2. b \in InHand' BY <2>2, <2>4, <2>5 DEF InHand
    <3> QED BY <3>1, <3>2 DEF InHand
  <2>12. ASSUME NEW v \in Viewers, viewer[v].from >= 1 PROVE Since(v)' \subseteq Since(v) \cup {b}
    <3> SUFFICES ASSUME NEW k \in viewer[v].from .. Len(written') PROVE written'[k] \in Since(v) \cup {b}
        BY <2>3 DEF Since
    <3>1. /\ Len(written') = Len(written) + 1 /\ written'[Len(written) + 1] = b /\ Len(written) \in Nat
          /\ \A i \in 1 .. Len(written) : written'[i] = written[i]
          BY <2>3, <2>5 DEF OutputTypeOK
    <3>2. viewer[v].from \in Int BY DEF OutputTypeOK, ViewerRecord
    <3>3. k = Len(written) + 1 \/ k \in viewer[v].from .. Len(written) BY <2>12, <3>1, <3>2
    <3>4. k \in viewer[v].from .. Len(written) => k \in 1 .. Len(written) BY <2>12, <3>1, <3>2
    <3> QED BY <3>1, <3>3, <3>4 DEF Since
  <2>13. ViewersOK'
    <3> SUFFICES ASSUME NEW v \in Viewers PROVE ViewerOK(v)'
        BY DEF ViewersOK
    <3>1. ViewerOK(v) BY DEF ViewersOK
    <3>2. ReplayOf(v)' = ReplayOf(v) BY <2>3 DEF ReplayOf
    <3> QED BY <2>3, <2>11, <2>12, <3>1, <3>2 DEF ViewerOK
  <2> QED BY <1>q, <2>3, <2>8, <2>9, <2>10, <2>13
<1>3. CASE ToRecording(p)
  <2>1. PICK f : f = [pump[p] EXCEPT !.pc = "broadcast"] OBVIOUS
  <2>2. f \in PumpRecord /\ f.pc = "broadcast" /\ f.byte = pump[p].byte BY <1>0, <2>1 DEF PumpRecord
  <2>3. /\ pump' = [pump EXCEPT ![p] = f] /\ pump[p].pc = "tee"
        /\ recorded' = recorded \cup {pump[p].byte}
        /\ UNCHANGED <<ringVars, written, produced, clients, viewer, ctxDone, runLoop>>
        BY <1>0, <1>3, <2>1 DEF ToRecording
  <2>4. pump' \in [Pumps -> PumpRecord] /\ pump'[p] = f /\ \A q \in Pumps \ {p} : pump'[q] = pump[q]
        BY <2>2, <2>3, PumpMoves
  <2>5. RingInv' /\ RingIsTail' BY <2>3, TailStays
  <2>6. pump[p].byte \in 1 .. produced BY <2>3 DEF BytesAccounted
  <2>7. OutputTypeOK' BY <2>3, <2>4, <2>5, <2>6 DEF OutputTypeOK
  <2>8. BytesAccounted' BY <2>2, <2>3, <2>4 DEF BytesAccounted
  <2>9. InHand' = InHand BY <2>2, <2>3, <2>4 DEF InHand
  <2>10. ViewersOK' BY <2>3, <2>9 DEF ViewersOK, ViewerOK, Since, ReplayOf
  <2> QED BY <1>q, <2>3, <2>5, <2>7, <2>8, <2>10
<1>4. CASE PumpEnds(p)
  <2>1. PICK f : f = [pump[p] EXCEPT !.pc = "done"] OBVIOUS
  <2>2. f \in PumpRecord /\ f.pc = "done" BY <1>0, <2>1 DEF PumpRecord
  <2>3. /\ pump' = [pump EXCEPT ![p] = f] /\ pump[p].pc = "read"
        /\ UNCHANGED <<ringVars, written, recorded, produced, clients, viewer, ctxDone, runLoop>>
        BY <1>0, <1>4, <2>1 DEF PumpEnds
  <2>4. pump' \in [Pumps -> PumpRecord] /\ pump'[p] = f /\ \A q \in Pumps \ {p} : pump'[q] = pump[q]
        BY <2>2, <2>3, PumpMoves
  <2>5. RingInv' /\ RingIsTail' BY <2>3, TailStays
  <2>6. OutputTypeOK' BY <2>3, <2>4, <2>5 DEF OutputTypeOK
  <2>7. BytesAccounted' BY <2>2, <2>3, <2>4 DEF BytesAccounted
  <2>8. InHand' = InHand BY <2>2, <2>3, <2>4 DEF InHand
  <2>9. ViewersOK' BY <2>3, <2>8 DEF ViewersOK, ViewerOK, Since, ReplayOf
  <2> QED BY <1>q, <2>3, <2>5, <2>6, <2>7, <2>9
<1> QED BY <1>1, <1>2, <1>3, <1>4

\* The clients after a broadcast: each of them has got the byte, or is no client any more.
LEMMA BroadcastKeeps ==
  ASSUME OutputIInv, NEW p \in Pumps, NEW dead \in SUBSET Viewers, Broadcast(p, dead)
  PROVE  OutputIInv'
<1> USE DEF OutputIInv
<1>0. pump[p] \in PumpRecord /\ viewer \in [Viewers -> ViewerRecord] BY DEF OutputTypeOK
<1>1. PICK f : f = [pc |-> "read", byte |-> 0] OBVIOUS
<1>2. f \in PumpRecord /\ f.pc = "read" BY <1>1 DEF PumpRecord
<1>3. /\ pump' = [pump EXCEPT ![p] = f] /\ pump[p].pc = "broadcast" /\ clients' = clients \ dead
      /\ dead \subseteq clients
      /\ viewer' = [v \in Viewers |->
           IF v \in dead THEN [viewer[v] EXCEPT !.pc = IF runLoop = v THEN @ ELSE "closed"]
           ELSE IF v \in clients THEN [viewer[v] EXCEPT !.got = @ \cup {pump[p].byte}]
           ELSE viewer[v]]
      /\ UNCHANGED <<ringVars, written, recorded, produced, ctxDone, runLoop>>
      BY <1>1 DEF Broadcast, MayFail, Receivers
<1>4. pump' \in [Pumps -> PumpRecord] /\ pump'[p] = f /\ \A q \in Pumps \ {p} : pump'[q] = pump[q]
      BY <1>2, <1>3, PumpMoves
<1>5. RingInv' /\ RingIsTail' BY <1>3, TailStays
<1>6. ASSUME NEW v \in Viewers
      PROVE  /\ viewer'[v] \in ViewerRecord
             /\ viewer'[v].pc = viewer[v].pc \/ (v \in dead /\ runLoop # v /\ viewer'[v].pc = "closed")
             /\ viewer'[v].replay = viewer[v].replay /\ viewer'[v].from = viewer[v].from
             /\ v \in clients' => viewer'[v].got = viewer[v].got \cup {pump[p].byte} /\ viewer'[v].pc = viewer[v].pc
  <2>1. viewer[v] \in ViewerRecord /\ pump[p].byte \in Nat BY <1>0 DEF PumpRecord
  <2>2. CASE v \in dead
    <3>1. PICK pc : pc = IF runLoop = v THEN viewer[v].pc ELSE "closed" OBVIOUS
    <3>2. viewer'[v] = [viewer[v] EXCEPT !.pc = pc] BY <1>3, <2>2, <3>1
    <3> QED BY <1>3, <2>1, <2>2, <3>1, <3>2 DEF ViewerRecord
  <2>3. CASE v \in clients \ dead
    <3>1. viewer'[v] = [viewer[v] EXCEPT !.got = viewer[v].got \cup {pump[p].byte}] BY <1>3, <2>3
    <3>2. viewer[v].got \cup {pump[p].byte} \subseteq ByteSet BY <2>1 DEF ViewerRecord, ByteSet
    <3> QED BY <2>1, <2>3, <3>1, <3>2 DEF ViewerRecord
  <2>4. CASE v \notin clients
    <3>1. viewer'[v] = viewer[v] BY <1>3, <2>4
    <3> QED BY <1>3, <2>1, <2>4, <3>1
  <2> QED BY <2>2, <2>3, <2>4
<1>7. viewer' \in [Viewers -> ViewerRecord] BY <1>3, <1>6
<1>8. OutputTypeOK' BY <1>3, <1>4, <1>5, <1>7 DEF OutputTypeOK
<1>9. BytesAccounted' BY <1>2, <1>3, <1>4 DEF BytesAccounted
<1>10. InHand \subseteq InHand' \cup {pump[p].byte} BY <1>3, <1>4 DEF InHand
<1>11. ViewersOK'
  <2> SUFFICES ASSUME NEW v \in Viewers PROVE ViewerOK(v)'
      BY DEF ViewersOK
  <2>1. ViewerOK(v) BY DEF ViewersOK
  <2>2. Since(v)' = Since(v) /\ ReplayOf(v)' = ReplayOf(v) BY <1>3, <1>6 DEF Since, ReplayOf
  <2>3. CASE v \in clients'
    <3>1. /\ v \in clients /\ viewer'[v].pc = viewer[v].pc /\ viewer'[v].from = viewer[v].from
          /\ viewer'[v].got = viewer[v].got \cup {pump[p].byte} /\ runLoop' = runLoop
          BY <1>3, <1>6, <2>3
    <3>3. viewer[v].pc = "snapped" => Since(v) \subseteq viewer'[v].got \cup ReplayOf(v) \cup InHand'
          BY <1>10, <2>1, <3>1 DEF ViewerOK
    <3>4. viewer[v].pc \in {"live", "told"} => Since(v) \subseteq viewer'[v].got \cup InHand'
          BY <1>10, <2>1, <3>1 DEF ViewerOK
    <3> QED BY <2>1, <2>2, <3>1, <3>3, <3>4 DEF ViewerOK
  <2>4. CASE v \notin clients' BY <1>3, <1>6, <2>1, <2>4 DEF ViewerOK
  <2> QED BY <2>3, <2>4
<1>12. EndedQuiet' BY <1>3 DEF EndedQuiet, BridgeDone
<1> QED BY <1>5, <1>8, <1>9, <1>11, <1>12

\* A step of the run loop, or of a client, that leaves the pumps and what they wrote alone.
LEMMA ClientsMove ==
  ASSUME OutputIInv, UNCHANGED <<ringVars, pump, written, recorded, produced>>,
         clients' \subseteq Viewers, viewer' \in [Viewers -> ViewerRecord], ctxDone' \in BOOLEAN,
         runLoop' \in Viewers \cup {"select", "done", "stopped"},
         InHand' = InHand => ViewersOK', EndedQuiet'
  PROVE  OutputIInv'
<1> USE DEF OutputIInv
<1>1. RingInv' /\ RingIsTail' BY TailStays
<1>2. OutputTypeOK' BY <1>1 DEF OutputTypeOK
<1>3. BytesAccounted' BY DEF BytesAccounted
<1>4. InHand' = InHand BY DEF InHand
<1> QED BY <1>1, <1>2, <1>3, <1>4

\* A viewer that nothing happens to stays in order, unless the run loop leaves it.
LEMMA ViewerStays ==
  ASSUME OutputIInv, NEW v \in Viewers, viewer'[v] = viewer[v], v \in clients' <=> v \in clients,
         UNCHANGED written, InHand' = InHand,
         runLoop = v => runLoop' = v, runLoop \in {"done", "stopped"} => runLoop' \in {"done", "stopped"}
  PROVE  ViewerOK(v)'
<1>1. ViewerOK(v) BY DEF OutputIInv, ViewersOK
<1>2. Since(v)' = Since(v) /\ ReplayOf(v)' = ReplayOf(v) BY DEF Since, ReplayOf
<1> QED BY <1>1, <1>2 DEF ViewerOK

\* The run loop attaches a client in three steps, and a client leaves at any of them.
LEMMA ClientAttachKeeps ==
  ASSUME OutputIInv, NEW v \in Viewers,
         \/ Attach(v) \/ Snapshot(v) \/ SendReplay(v)
         \/ ReplayFails(v, "closed") \/ ReplayFails(v, "broken") \/ Detach(v)
  PROVE  OutputIInv'
<1>0. /\ viewer \in [Viewers -> ViewerRecord] /\ viewer[v] \in ViewerRecord /\ ViewerOK(v)
      /\ clients \subseteq Viewers /\ ctxDone \in BOOLEAN
      /\ runLoop \in Viewers \cup {"select", "done", "stopped"} /\ written \in Seq(Data)
      /\ v \notin {"select", "done", "stopped"}
      BY ViewersAssumption DEF OutputIInv, OutputTypeOK, ViewersOK
<1>1. ASSUME NEW f \in ViewerRecord, viewer' = [viewer EXCEPT ![v] = f],
             clients' = clients \/ clients' = clients \cup {v} \/ clients' = clients \ {v},
             UNCHANGED <<ringVars, pump, written, recorded, produced, ctxDone>>,
             \/ runLoop' = runLoop
             \/ runLoop = "select" /\ runLoop' = v
             \/ runLoop = v /\ runLoop' = "select",
             InHand' = InHand => ViewerOK(v)',
             runLoop = "done" => clients' = clients \ {v}
      PROVE  OutputIInv'
  <2>1. /\ viewer' \in [Viewers -> ViewerRecord] /\ viewer'[v] = f
        /\ \A w \in Viewers \ {v} : viewer'[w] = viewer[w]
        BY <1>0, <1>1
  <2>2. ASSUME InHand' = InHand, NEW w \in Viewers, w # v PROVE ViewerOK(w)'
        BY <1>0, <1>1, <2>1, <2>2, ViewerStays, ViewersAssumption
  <2>3. InHand' = InHand => ViewersOK' BY <1>1, <2>2 DEF ViewersOK
  <2>4. EndedQuiet' BY <1>0, <1>1, <2>1 DEF OutputIInv, EndedQuiet, BridgeDone
  <2>5. clients' \subseteq Viewers /\ runLoop' \in Viewers \cup {"select", "done", "stopped"} BY <1>0, <1>1
  <2> QED BY <1>0, <1>1, <2>1, <2>3, <2>4, <2>5, ClientsMove
<1>2. CASE Attach(v)
  <2>1. PICK f : f = [viewer[v] EXCEPT !.pc = "added"] OBVIOUS
  <2>2. f \in ViewerRecord /\ f.pc = "added" BY <1>0, <2>1 DEF ViewerRecord
  <2>3. /\ viewer' = [viewer EXCEPT ![v] = f] /\ clients' = clients \cup {v} /\ runLoop = "select" /\ runLoop' = v
        /\ UNCHANGED <<ringVars, pump, written, recorded, produced, ctxDone>>
        BY <1>0, <1>2, <2>1 DEF Attach
  <2>4. viewer'[v] = f BY <1>0, <2>3
  <2>5. ViewerOK(v)' BY <2>2, <2>3, <2>4 DEF ViewerOK
  <2> QED BY <1>1, <2>2, <2>3, <2>5
<1>3. CASE Snapshot(v)
  <2>0. Bytes \in Seq(Data) /\ Len(Bytes) = size /\ size \in Nat /\ DOMAIN Bytes = 1 .. size
        BY BytesIsSeq, CapAssumption DEF OutputIInv, OutputTypeOK, SeqView, RingInv
  <2>1. PICK f : f = [viewer[v] EXCEPT !.pc = "snapped", !.replay = Bytes, !.from = Len(written) - Len(Bytes) + 1]
        OBVIOUS
  <2>2. Len(written) \in Nat /\ Len(written) - Len(Bytes) + 1 \in Int BY <1>0, <2>0
  <2>3. /\ f \in ViewerRecord /\ f.pc = "snapped" /\ f.replay = Bytes
        /\ f.from = Len(written) - Len(Bytes) + 1
        BY <1>0, <2>0, <2>1, <2>2 DEF ViewerRecord
  <2>4. /\ viewer' = [viewer EXCEPT ![v] = f] /\ clients' = clients /\ runLoop = v /\ runLoop' = v
        /\ UNCHANGED <<ringVars, pump, written, recorded, produced, ctxDone>>
        BY <1>0, <1>3, <2>1 DEF Snapshot
  <2>5. viewer'[v] = f BY <1>0, <2>4
  <2>6. size =< Len(written) /\ \A k \in 1 .. size : Bytes[k] = written[Len(written) - size + k]
        BY DEF OutputIInv, RingIsTail
  <2>7. f.from >= 1 BY <2>0, <2>2, <2>3, <2>6
  <2>8. Since(v)' \subseteq ReplayOf(v)'
    <3>a. Since(v)' = {written[k] : k \in f.from .. Len(written)} BY <2>4, <2>5 DEF Since
    <3>b. ReplayOf(v)' = {Bytes[i] : i \in 1 .. size} BY <2>0, <2>3, <2>5 DEF ReplayOf
    <3> SUFFICES ASSUME NEW k \in f.from .. Len(written) PROVE written[k] \in {Bytes[i] : i \in 1 .. size}
        BY <3>a, <3>b
    <3>1. PICK i : i = k - Len(written) + size OBVIOUS
    <3>2. i \in 1 .. size /\ Len(written) - size + i = k BY <2>0, <2>2, <2>3, <3>1
    <3> QED BY <2>6, <3>2
  <2>9. ViewerOK(v)' BY <2>3, <2>4, <2>5, <2>7, <2>8 DEF ViewerOK
  <2> QED BY <1>0, <1>1, <2>3, <2>4, <2>9
<1>4. CASE SendReplay(v)
  <2>1. PICK pc \in {"live", "closed"} : pc = IF v \in clients THEN "live" ELSE "closed" OBVIOUS
  <2>2. PICK f : f = [viewer[v] EXCEPT !.pc = pc, !.got = viewer[v].got \cup ReplayOf(v)] OBVIOUS
  <2>3. viewer[v].got \cup ReplayOf(v) \subseteq ByteSet
    <3>1. viewer[v].replay \in Seq(Data) /\ viewer[v].got \subseteq ByteSet BY <1>0 DEF ViewerRecord
    <3>2. \A k \in DOMAIN viewer[v].replay : viewer[v].replay[k] \in Data BY <3>1
    <3> QED BY <3>1, <3>2 DEF ReplayOf, ByteSet
  <2>4. /\ f \in ViewerRecord /\ f.pc = pc /\ f.got = viewer[v].got \cup ReplayOf(v) /\ f.from = viewer[v].from
        BY <1>0, <2>1, <2>2, <2>3 DEF ViewerRecord
  <2>5. /\ viewer' = [viewer EXCEPT ![v] = f] /\ clients' = clients /\ runLoop = v /\ runLoop' = "select"
        /\ viewer[v].pc = "snapped"
        /\ UNCHANGED <<ringVars, pump, written, recorded, produced, ctxDone>>
    <3>1. viewer' = [viewer EXCEPT ![v] =
            [viewer[v] EXCEPT !.pc = IF v \in clients THEN "live" ELSE "closed",
                              !.got = viewer[v].got \cup ReplayOf(v)]]
          BY <1>0, <1>4 DEF SendReplay, ReplayOf, ViewerRecord
    <3>2. viewer' = [viewer EXCEPT ![v] = f] BY <2>1, <2>2, <3>1
    <3> QED BY <1>4, <3>2 DEF SendReplay
  <2>6. viewer'[v] = f BY <1>0, <2>5
  <2>7. Since(v)' = Since(v) BY <2>4, <2>5, <2>6 DEF Since
  <2>8. v \in clients => f.from >= 1 /\ Since(v) \subseteq f.got \cup InHand BY <1>0, <2>4, <2>5 DEF ViewerOK
  <2>9. InHand' = InHand => ViewerOK(v)' BY <2>1, <2>4, <2>5, <2>6, <2>7, <2>8 DEF ViewerOK
  <2> QED BY <1>0, <1>1, <2>4, <2>5, <2>9
<1>5. ASSUME NEW to \in {"closed", "broken"}, ReplayFails(v, to) PROVE OutputIInv'
  <2>1. PICK pc \in {"broken", "closed"} : pc = IF v \in clients THEN to ELSE "closed" OBVIOUS
  <2>2. PICK f : f = [viewer[v] EXCEPT !.pc = pc] OBVIOUS
  <2>3. f \in ViewerRecord /\ f.pc = pc BY <1>0, <2>1, <2>2 DEF ViewerRecord
  <2>4. /\ viewer' = [viewer EXCEPT ![v] = f] /\ clients' = (IF to = "closed" THEN clients \ {v} ELSE clients)
        /\ runLoop = v /\ runLoop' = "select"
        /\ UNCHANGED <<ringVars, pump, written, recorded, produced, ctxDone>>
        BY <1>0, <1>5, <2>1, <2>2 DEF ReplayFails
  <2>5. viewer'[v] = f BY <1>0, <2>4
  <2>6. v \in clients' => pc = "broken" BY <1>5, <2>1, <2>4
  <2>7. ViewerOK(v)' BY <2>1, <2>3, <2>4, <2>5, <2>6 DEF ViewerOK
  <2> QED BY <1>0, <1>1, <2>3, <2>4, <2>7
<1>6. CASE Detach(v)
  <2>1. PICK pc : pc = IF runLoop = v THEN viewer[v].pc ELSE "closed" OBVIOUS
  <2>2. PICK f : f = [viewer[v] EXCEPT !.pc = pc] OBVIOUS
  <2>3. f \in ViewerRecord /\ f.pc = pc BY <1>0, <2>1, <2>2 DEF ViewerRecord
  <2>4. /\ viewer' = [viewer EXCEPT ![v] = f] /\ clients' = clients \ {v} /\ runLoop' = runLoop
        /\ UNCHANGED <<ringVars, pump, written, recorded, produced, ctxDone>>
        BY <1>0, <1>6, <2>1, <2>2 DEF Detach
  <2>5. viewer'[v] = f BY <1>0, <2>4
  <2>6. ViewerOK(v)' BY <1>0, <2>1, <2>3, <2>4, <2>5 DEF ViewerOK
  <2> QED BY <1>1, <2>3, <2>4, <2>6
<1> QED BY <1>2, <1>3, <1>4, <1>5, <1>6

\* The end of the session: whoever is told had everything, as no pump has anything left
\* when it is the target that ended it.
LEMMA EndsKeep ==
  ASSUME OutputIInv, NEW how \in {"stopped", "done"}, NEW dead \in SUBSET Viewers, Ends(how, dead)
  PROVE  OutputIInv'
<1>1. /\ runLoop = "select" /\ runLoop' = how /\ (how = "done" => BridgeDone)
      /\ dead \subseteq clients /\ (\A v \in clients : viewer[v].pc = "broken" => v \in dead)
      /\ clients' = clients \ dead
      /\ viewer' = [v \in Viewers |->
           IF v \in dead THEN [viewer[v] EXCEPT !.pc = "closed"]
           ELSE IF v \in clients THEN [viewer[v] EXCEPT !.pc = "told"] ELSE viewer[v]]
      /\ UNCHANGED <<ringVars, pump, written, recorded, produced, ctxDone>>
      BY DEF Ends, MayFail
<1>2. clients \subseteq Viewers /\ \A v \in Viewers : v # "select" /\ viewer[v] \in ViewerRecord /\ ViewerOK(v)
      BY ViewersAssumption DEF OutputIInv, OutputTypeOK, ViewersOK
<1>3. ASSUME NEW v \in Viewers
      PROVE  /\ viewer'[v] \in ViewerRecord
             /\ viewer'[v].got = viewer[v].got /\ viewer'[v].from = viewer[v].from
             /\ v \in clients' => viewer'[v].pc = "told" /\ viewer[v].pc = "live"
             /\ viewer'[v].pc \notin {"added", "snapped"}
  <2>1. viewer[v] \in ViewerRecord /\ viewer[v].pc \notin {"added", "snapped", "told"}
        BY <1>1, <1>2 DEF ViewerOK
  <2>2. CASE v \in dead
    <3>1. viewer'[v] = [viewer[v] EXCEPT !.pc = "closed"] BY <1>1, <2>2
    <3> QED BY <1>1, <2>1, <2>2, <3>1 DEF ViewerRecord
  <2>3. CASE v \in clients \ dead
    <3>1. viewer'[v] = [viewer[v] EXCEPT !.pc = "told"] BY <1>1, <2>3
    <3>2. viewer[v].pc = "live" BY <1>1, <1>2, <2>1, <2>3 DEF ViewerOK
    <3> QED BY <2>1, <2>3, <3>1, <3>2 DEF ViewerRecord
  <2>4. CASE v \notin clients
    <3>1. viewer'[v] = viewer[v] BY <1>1, <2>4
    <3> QED BY <1>1, <2>1, <2>4, <3>1
  <2> QED BY <2>2, <2>3, <2>4
<1>4. viewer' \in [Viewers -> ViewerRecord] BY <1>1, <1>3
<1>5. ASSUME InHand' = InHand, NEW v \in Viewers PROVE ViewerOK(v)'
  <2>1. Since(v)' = Since(v) BY <1>1, <1>3 DEF Since
  <2>2. v \in clients' => v \in clients BY <1>1
  <2> QED BY <1>1, <1>2, <1>3, <1>5, <2>1, <2>2 DEF ViewerOK
<1>6. InHand' = InHand => ViewersOK' BY <1>5 DEF ViewersOK
<1>7. EndedQuiet' BY <1>1, <1>2, <1>3 DEF EndedQuiet, BridgeDone
<1>8. ctxDone' \in BOOLEAN /\ clients' \subseteq Viewers /\ runLoop' \in Viewers \cup {"select", "done", "stopped"}
      BY <1>1, <1>2 DEF OutputIInv, OutputTypeOK
<1> QED BY <1>1, <1>4, <1>6, <1>7, <1>8, ClientsMove

\* Every step of the pumps, the run loop and the clients.
LEMMA OutputKeeps == OutputIInv /\ [OutputNext]_outputVars => OutputIInv'
<1> SUFFICES ASSUME OutputIInv, [OutputNext]_outputVars PROVE OutputIInv'
    OBVIOUS
<1>1. ASSUME UNCHANGED <<ringVars, pump, written, recorded, produced, clients, viewer, runLoop>>, ctxDone' \in BOOLEAN
      PROVE  OutputIInv'
  <2>1. InHand' = InHand => ViewersOK' BY <1>1, ViewerStays DEF ViewersOK
  <2>2. EndedQuiet' BY <1>1 DEF OutputIInv, EndedQuiet, BridgeDone
  <2> QED BY <1>1, <2>1, <2>2, ClientsMove DEF OutputIInv, OutputTypeOK
<1>2. CASE UNCHANGED outputVars BY <1>1, <1>2 DEF outputVars, OutputIInv, OutputTypeOK
<1>3. CASE Cancel
  <2>1. ctxDone' \in BOOLEAN BY <1>3 DEF Cancel
  <2> QED BY <1>1, <1>3, <2>1 DEF Cancel
<1> QED BY <1>2, <1>3, PumpsKeep, BroadcastKeeps, ClientAttachKeeps, EndsKeep DEF OutputNext

\* Clients see the output whole, for any number of pumps and clients, any capacity of the
\* replay buffer and any amount of output (OutputComplete).
THEOREM OutputIsComplete == OutputSpec => []OutputComplete
<1>1. OutputIInv => OutputComplete
  <2> SUFFICES ASSUME OutputIInv PROVE OutputComplete
      OBVIOUS
  <2>1. NoGap BY DEF OutputIInv, ViewersOK, ViewerOK, NoGap
  <2>2. EndIsLast
    <3> SUFFICES ASSUME runLoop = "done" PROVE recorded = 1 .. produced /\ \A v \in clients : Since(v) \subseteq viewer[v].got
        BY DEF EndIsLast
    <3>1. (\A p \in Pumps : pump[p].pc = "done") /\ \A v \in clients : viewer[v].pc = "told"
          BY DEF OutputIInv, EndedQuiet, BridgeDone
    <3>2. InHand = {} BY <3>1 DEF InHand
    <3>3. recorded = 1 .. produced BY <3>1 DEF OutputIInv, OutputTypeOK, BytesAccounted
    <3>4. \A v \in clients : v \in Viewers /\ Since(v) \subseteq viewer[v].got
          BY <3>1, <3>2 DEF OutputIInv, OutputTypeOK, ViewersOK, ViewerOK
    <3> QED BY <3>3, <3>4
  <2> QED BY <2>1, <2>2 DEF OutputComplete
<1> QED BY <1>1, OutputStart, OutputKeeps, PTL DEF OutputSpec

--------------------------------------------------------------------------------
(* The shared VNC bridge (VncBridge).                                        *)

VncTypeOK ==
  /\ vncLoop \in Tabs \cup {"select", "over"}
  /\ vncDone \in BOOLEAN
  /\ attached \subseteq Tabs
  /\ tab \in [Tabs -> [user : VncUsers, canWrite : BOOLEAN]]
  /\ ws \in [Tabs -> {"new", "open", "gone", "closed"}]
  /\ tcp \in [Tabs -> {"none", "open", "gone", "closed"}]
  /\ copier \in [Tabs -> [Directions -> {"off", "running", "leaving", "returned"}]]
  /\ toClose \subseteq Tabs

\* A tab that is not dialled yet, or is being dialled for, has no connection, and
\* one without a connection is in neither list and has no goroutine.
Undialled == \A t \in Tabs :
  /\ ws[t] = "new" \/ vncLoop = t => tcp[t] = "none"
  /\ ws[t] = "new" => vncLoop # t
  /\ tcp[t] = "none" => /\ t \notin attached \cup toClose
                        /\ \A d \in Directions : copier[t][d] = "off"

VncInv == VncTypeOK /\ Undialled /\ NoOrphanUpstream /\ OneDriver

\* The bridge starts with no tab.
LEMMA VncStart == VncInit => VncInv
<1> SUFFICES ASSUME VncInit PROVE VncInv
  OBVIOUS
<1>1. [user : VncUsers, canWrite : {FALSE}] \subseteq [user : VncUsers, canWrite : BOOLEAN]
  OBVIOUS
<1>2. tab \in [Tabs -> [user : VncUsers, canWrite : BOOLEAN]]
  BY <1>1 DEF VncInit
<1>3. VncTypeOK
  BY <1>2 DEF VncInit, VncTypeOK
<1>4. Undialled /\ NoOrphanUpstream /\ OneDriver
  BY TabsAssumption DEF VncInit, Undialled, NoOrphanUpstream, OneDriver
<1> QED BY <1>3, <1>4 DEF VncInv

\* A goroutine that returns, for whatever reason, takes its tab and both its
\* connections with it.
LEMMA DetachKeeps == ASSUME VncInv, NEW t \in Tabs, NEW d \in Directions, detachEntry(t, d) PROVE VncInv'
<1> USE DEF VncInv
<1>1. VncTypeOK'
  BY DEF VncTypeOK, detachEntry, Closed
<1>2. tcp[t] # "none"
  BY DEF Undialled, detachEntry, VncTypeOK
<1>3. /\ \A s \in Tabs \ {t} : ws'[s] = ws[s] /\ tcp'[s] = tcp[s] /\ copier'[s] = copier[s]
      /\ ws'[t] = "closed" /\ tcp'[t] = "closed"
      /\ attached' = attached \ {t} /\ toClose' = toClose /\ vncLoop' = vncLoop /\ tab' = tab
  BY DEF VncTypeOK, detachEntry, Closed
<1>4. Undialled'
  BY <1>2, <1>3 DEF Undialled
<1>5. NoOrphanUpstream'
  BY <1>3 DEF NoOrphanUpstream
<1>6. OneDriver'
  BY <1>3 DEF OneDriver
<1> QED BY <1>1, <1>4, <1>5, <1>6

\* A tab joins with a connection just dialled; a writer demotes the others.
LEMMA AttachKeeps == ASSUME VncInv, NEW t \in Tabs, NEW writer \in BOOLEAN, attachWebSocket(t, writer) PROVE VncInv'
<1> USE DEF VncInv
<1> DEFINE others == IF writer THEN Demoted(t) ELSE tab
<1>0. others \in [Tabs -> [user : VncUsers, canWrite : BOOLEAN]]
  BY DEF VncTypeOK, Demoted
<1>1. tab' = [others EXCEPT ![t].canWrite = writer]
  BY DEF attachWebSocket
<1> HIDE DEF others
<1>2. tab' \in [Tabs -> [user : VncUsers, canWrite : BOOLEAN]]
  BY <1>0, <1>1
<1>3. VncTypeOK'
  BY <1>2 DEF VncTypeOK, attachWebSocket, Directions
<1>4. Undialled'
  BY TabsAssumption DEF VncTypeOK, Undialled, attachWebSocket
<1>5. NoOrphanUpstream'
  BY DEF VncTypeOK, NoOrphanUpstream, attachWebSocket, Directions
<1>6. CASE writer
  <2>1. \A s \in attached \ {t} : tab'[s].canWrite = FALSE
    BY <1>1, <1>6 DEF others, VncTypeOK, Demoted
  <2> QED BY <1>3, <1>4, <1>5, <2>1 DEF OneDriver, attachWebSocket
<1>7. CASE ~writer
  <2>1. tab'[t].canWrite = FALSE
    BY <1>0, <1>1, <1>7
  <2>2. \A s \in attached \ {t} : tab'[s] = tab[s]
    BY <1>1, <1>7 DEF others, VncTypeOK
  <2> QED BY <1>3, <1>4, <1>5, <2>1, <2>2 DEF OneDriver, attachWebSocket
<1> QED BY <1>6, <1>7

\* SetWriter leaves the tabs of one user writing.
LEMMA SetWriterKeeps == ASSUME VncInv, NEW u \in VncUsers, SetVncWriter(u) PROVE VncInv'
<1> USE DEF VncInv
<1>1. tab' \in [Tabs -> [user : VncUsers, canWrite : BOOLEAN]]
  BY DEF VncTypeOK, SetVncWriter
<1>2. VncTypeOK'
  BY <1>1 DEF VncTypeOK, SetVncWriter
<1>3. Undialled' /\ NoOrphanUpstream'
  BY DEF Undialled, NoOrphanUpstream, SetVncWriter
<1>4. ASSUME NEW t \in attached, tab'[t].canWrite PROVE tab'[t].user = u
  <2>1. tab'[t] = [tab[t] EXCEPT !.canWrite = tab[t].user = u] /\ tab[t] \in [user : VncUsers, canWrite : BOOLEAN]
    BY DEF VncTypeOK, SetVncWriter
  <2> QED BY <1>4, <2>1
<1>5. OneDriver'
  BY <1>4 DEF OneDriver, SetVncWriter
<1> QED BY <1>2, <1>3, <1>5

\* The two halves of DetachUser, and the end of the bridge.
LEMMA ListsKeep ==
  ASSUME VncInv,
         \/ \E u \in VncUsers : DetachUserTakes(u)
         \/ \E t \in Tabs : DetachUserCloses(t)
         \/ VncEnds
  PROVE  VncInv'
<1> USE DEF VncInv
<1>1. CASE \E u \in VncUsers : DetachUserTakes(u)
  BY <1>1 DEF VncTypeOK, Undialled, NoOrphanUpstream, OneDriver, DetachUserTakes
<1>2. ASSUME NEW t \in Tabs, DetachUserCloses(t) PROVE VncInv'
  <2>1. VncTypeOK'
    BY <1>2 DEF VncTypeOK, DetachUserCloses, Closed
  <2>2. Undialled'
    BY <1>2 DEF VncTypeOK, Undialled, DetachUserCloses, Closed
  <2>3. NoOrphanUpstream' /\ OneDriver'
    BY <1>2 DEF VncTypeOK, NoOrphanUpstream, OneDriver, DetachUserCloses, Closed
  <2> QED BY <2>1, <2>2, <2>3
<1>3. CASE VncEnds
  <2>1. VncTypeOK'
    BY <1>3 DEF VncTypeOK, VncEnds, Closed
  <2>2. Undialled'
    BY <1>3, TabsAssumption DEF VncTypeOK, Undialled, VncEnds, Closed
  <2>3. NoOrphanUpstream' /\ OneDriver'
    BY <1>3 DEF VncTypeOK, NoOrphanUpstream, OneDriver, VncEnds, Closed
  <2> QED BY <2>1, <2>2, <2>3
<1> QED BY <1>1, <1>2, <1>3

\* The dialling loop, and connections that go away by themselves.
LEMMA EventsKeep ==
  ASSUME VncInv, NEW t \in Tabs,
         \/ DialTarget(t) \/ DialRefused(t) \/ BrowserCloses(t) \/ TargetCloses(t) \/ VncCancel
         \/ \E d \in Directions : CopierFails(t, d)
  PROVE  VncInv'
<1> USE DEF VncInv
<1>1. CASE DialTarget(t)
  BY <1>1, TabsAssumption DEF VncTypeOK, Undialled, NoOrphanUpstream, OneDriver, DialTarget
<1>2. CASE DialRefused(t)
  BY <1>2, TabsAssumption DEF VncTypeOK, Undialled, NoOrphanUpstream, OneDriver, DialRefused
<1>3. CASE BrowserCloses(t)
  BY <1>3 DEF VncTypeOK, Undialled, NoOrphanUpstream, OneDriver, BrowserCloses
<1>4. CASE TargetCloses(t)
  BY <1>4 DEF VncTypeOK, Undialled, NoOrphanUpstream, OneDriver, TargetCloses
<1>5. CASE VncCancel
  BY <1>5 DEF VncTypeOK, Undialled, NoOrphanUpstream, OneDriver, VncCancel
<1>6. ASSUME NEW d \in Directions, CopierFails(t, d) PROVE VncInv'
  <2>1. VncTypeOK'
    BY <1>6 DEF VncTypeOK, CopierFails
  <2>2. /\ \A s \in Tabs \ {t} : copier'[s] = copier[s]
        /\ \A e \in Directions \ {d} : copier'[t][e] = copier[t][e]
        /\ copier[t][d] = "running" /\ copier'[t][d] = "leaving"
        /\ UNCHANGED <<vncLoop, attached, tab, ws, tcp, toClose>>
    BY <1>6 DEF VncTypeOK, CopierFails
  <2>3. tcp[t] # "none"
    BY <2>2 DEF Undialled
  <2>4. Undialled'
    BY <2>2, <2>3 DEF Undialled
  <2>5. NoOrphanUpstream' /\ OneDriver'
    BY <2>2 DEF NoOrphanUpstream, OneDriver
  <2> QED BY <2>1, <2>4, <2>5
<1> QED BY <1>1, <1>2, <1>3, <1>4, <1>5, <1>6

\* The shared VNC bridge leaks no connection to the target and never has two users
\* driving the desktop, for any number of tabs and users (VncSound, checked on a
\* small instance by the run `session`).
THEOREM VncBridgeSound == VncSpec => []VncSound
<1>1. VncInv /\ [VncNext]_vncVars => VncInv'
  <2> SUFFICES ASSUME VncInv, [VncNext]_vncVars PROVE VncInv'
    OBVIOUS
  <2>1. CASE UNCHANGED vncVars
    BY <2>1 DEF vncVars, VncInv, VncTypeOK, Undialled, NoOrphanUpstream, OneDriver
  <2>2. CASE VncNext
    <3>1. CASE VncCancel /\ Tabs = {}
      BY <3>1 DEF VncInv, VncTypeOK, Undialled, NoOrphanUpstream, OneDriver, VncCancel
    <3> QED BY <2>2, <3>1, DetachKeeps, AttachKeeps, SetWriterKeeps, ListsKeep, EventsKeep DEF VncNext
  <2> QED BY <2>1, <2>2
<1>2. VncInv => VncSound
  BY DEF VncInv, VncSound
<1> QED BY <1>1, <1>2, VncStart, PTL DEF VncSpec

--------------------------------------------------------------------------------
(* Background file transfers (FileTransferJobs).                             *)

Steps == Ended \cup {"register", "temp", "receive", "path", "begin", "open", "copy", "hung", "check", "write", "settle", "unwind"}
RowRecord == [state : {"none"} \cup ActiveStates \cup Terminal, temp : BOOLEAN]
WorkRecord == [pc : Steps, job : {"none"} \cup ActiveStates \cup Terminal, ctx : BOOLEAN,
               next : {"none", "begin", "unwind", "done"}]
ReqRecord == [pc : {"idle", "signal", "mark", "release", "get", "clean", "remove"},
              job : Jobs \cup {"none"}, temp : BOOLEAN]

\* Of one job j: its row o, its goroutine w, and whether it is among the staged
\* files fs, the handles lv, the jobs ask that somebody asked to delete and the marred ones mar.

\* A goroutine that works has a state that is not terminal; it ends only past a terminal one.
WorkOK(j, w) ==
  /\ w.pc \in {"register", "temp", "receive", "path", "begin", "open", "copy", "hung", "check"} => w.job \in ActiveStates
  /\ w.pc = "receive" => j \in Uploads
  /\ w.pc = "write" => \/ w.job \in ActiveStates /\ w.next = "begin" /\ j \in Uploads
                       \/ w.job \in Terminal /\ w.next \in {"unwind", "done"}
  /\ w.pc = "settle" => w.job \in Terminal /\ w.next \in {"unwind", "done"}
  /\ w.pc \in {"unwind", "done"} => w.job \in Terminal

\* The row is there from Create on; once the goroutine has written a terminal state, or the
\* restart has reaped the row, it is not active any more.
RowOK(j, o, w, mar, u) ==
  /\ w.pc = "none" => o.state = "none"
  /\ w.pc \in {"settle", "unwind", "done"} \/ (w.pc = "dead" /\ u = TRUE) => o.state \notin ActiveStates \/ j \in mar
  /\ u = FALSE => w.pc \in Ended
  /\ o.state = "completed" => w.pc = "dead" \/ (w.pc \in {"settle", "unwind", "done"} /\ w.job = "completed")

\* A handle is given back before the deferred calls, a staged file by them, unless it is what a
\* download completed with.
HeldOK(j, w, fs, lv) ==
  /\ j \in lv => w.pc \notin Ended \cup {"unwind"}
  /\ w.pc \in {"none", "register", "temp"} \/ (w.pc \in {"write", "settle"} /\ w.next = "done") => j \notin fs
  /\ w.pc = "done" /\ j \in fs => j \in Downloads /\ w.job = "completed"

\* The file of a download is there from its start, and named by its row once it is complete.
DownloadOK(j, o, w, fs, ask, mar) == j \in Downloads /\ j \notin ask =>
  /\ w.pc \in {"begin", "open", "copy", "hung", "check", "path"} => j \in fs
  /\ w.pc \in {"write", "settle", "unwind", "done"} /\ w.job = "completed" =>
       j \in fs /\ (j \in mar \/ o.state = "none" \/ o.temp = TRUE)
  /\ o.state = "completed" => j \in mar \/ (o.temp = TRUE /\ j \in fs)

JobShape(j, o, w, fs, lv, ask, mar, u) ==
  WorkOK(j, w) /\ RowOK(j, o, w, mar, u) /\ HeldOK(j, w, fs, lv) /\ DownloadOK(j, o, w, fs, ask, mar)
JobOK(j) == JobShape(j, row[j], work[j], files, live, asked, marred, up)
JobsOK == \A j \in Jobs : JobOK(j)

\* A request works on a job that somebody asked to delete.
ReqsOK == \A c \in Callers : req[c].pc # "idle" => req[c].job \in asked

TransferIInv == TransferTypeOK /\ JobsOK /\ ReqsOK /\ HistoryCapped /\ (up = FALSE => crashes > 0)

\* All jobs of the user, and all requests, are finitely many.
LEMMA FiniteJobs == IsFiniteSet(Jobs) /\ IsFiniteSet(Callers)
BY TransferAssumption, FS_Union DEF Jobs

\* The types, by record.
LEMMA TransferTypes ==
  TransferTypeOK <=>
    /\ row \in [Jobs -> RowRecord] /\ files \subseteq Jobs /\ live \subseteq Jobs /\ work \in [Jobs -> WorkRecord]
    /\ req \in [Callers -> ReqRecord] /\ up \in BOOLEAN /\ faults \in 0..MaxFaults /\ crashes \in 0..MaxCrashes
    /\ marred \subseteq Jobs /\ asked \subseteq Jobs
BY DEF TransferTypeOK, RowRecord, WorkRecord, ReqRecord, Steps

\* A job endures what others do: its row may be trimmed or cancelled, its context cancelled, its
\* handle released, and its file removed when somebody asked for it.
LEMMA JobEndures ==
  ASSUME NEW j, NEW o \in RowRecord, NEW w \in WorkRecord, NEW fs, NEW lv, NEW ask, NEW mar, NEW u,
         NEW o2, NEW w2, NEW fs2, NEW lv2, NEW ask2, NEW mar2,
         JobShape(j, o, w, fs, lv, ask, mar, u),
         o2 = o \/ o2 = NoRow \/ (o.state # "none" /\ o2 = [o EXCEPT !.state = "cancelled"]),
         w2.pc = w.pc, w2.job = w.job, w2.next = w.next,
         j \in fs2 => j \in fs, j \in fs => j \in fs2 \/ j \in ask2, j \in lv2 => j \in lv,
         j \in ask => j \in ask2, j \in mar => j \in mar2
  PROVE  JobShape(j, o2, w2, fs2, lv2, ask2, mar2, u)
<1>0. /\ o2.state = o.state \/ o2.state = "none" \/ (o.state # "none" /\ o2.state = "cancelled")
      /\ o2.state # "none" => o2.temp = o.temp
      BY DEF NoRow, RowRecord
<1>1. WorkOK(j, w2) BY DEF JobShape, WorkOK
<1>2. RowOK(j, o2, w2, mar2, u) BY <1>0 DEF JobShape, RowOK, ActiveStates
<1>3. HeldOK(j, w2, fs2, lv2) BY DEF JobShape, HeldOK
<1>4. DownloadOK(j, o2, w2, fs2, ask2, mar2)
  <2> SUFFICES ASSUME j \in Downloads, j \notin ask2
               PROVE  /\ w2.pc \in {"begin", "open", "copy", "hung", "check", "path"} => j \in fs2
                      /\ w2.pc \in {"write", "settle", "unwind", "done"} /\ w2.job = "completed" =>
                           j \in fs2 /\ (j \in mar2 \/ o2.state = "none" \/ o2.temp = TRUE)
                      /\ o2.state = "completed" => j \in mar2 \/ (o2.temp = TRUE /\ j \in fs2)
      BY DEF DownloadOK
  <2> QED BY <1>0 DEF JobShape, DownloadOK
<1> QED BY <1>1, <1>2, <1>3, <1>4 DEF JobShape

\* The job k is left to itself by a step, but for what it endures.
Endures(k) ==
  /\ row'[k] = row[k] \/ row'[k] = NoRow \/ (row[k].state # "none" /\ row'[k] = [row[k] EXCEPT !.state = "cancelled"])
  /\ work'[k].pc = work[k].pc /\ work'[k].job = work[k].job /\ work'[k].next = work[k].next
  /\ (k \in files' => k \in files) /\ (k \in files => k \in files' \/ k \in asked')
  /\ (k \in live' => k \in live) /\ (k \in asked => k \in asked') /\ (k \in marred => k \in marred')

\* So it is still as it should be.
LEMMA StillOK == ASSUME TransferTypeOK, NEW k \in Jobs, JobOK(k), Endures(k), up' = up PROVE JobOK(k)'
<1>1. row[k] \in RowRecord /\ work[k] \in WorkRecord BY TransferTypes
<1>2. JobShape(k, row[k], work[k], files, live, asked, marred, up) BY DEF JobOK
<1>3. JobShape(k, row'[k], work'[k], files', live', asked', marred', up) BY <1>1, <1>2, JobEndures DEF Endures
<1> QED BY <1>3 DEF JobOK

(* The history.                                                              *)

EndedRows == {j \in Jobs : row[j].state \in Terminal}
Settling == {j \in Jobs : work[j].pc = "settle"}
Releasing == {c \in Callers : req[c].pc = "release"}

\* The counted sets are finite.
LEMMA HistoryFinite ==
  /\ IsFiniteSet(EndedRows) /\ IsFiniteSet(Settling) /\ IsFiniteSet(Releasing)
  /\ Cardinality(EndedRows) \in Nat /\ Cardinality(Settling) \in Nat /\ Cardinality(Releasing) \in Nat
<1>1. EndedRows \subseteq Jobs /\ Settling \subseteq Jobs /\ Releasing \subseteq Callers BY DEF EndedRows, Settling, Releasing
<1>2. IsFiniteSet(EndedRows) /\ IsFiniteSet(Settling) /\ IsFiniteSet(Releasing) BY <1>1, FiniteJobs, FS_Subset
<1> QED BY <1>2, FS_CardinalityType

\* The same in the next state.
LEMMA HistoryFiniteNext ==
  /\ IsFiniteSet(EndedRows') /\ IsFiniteSet(Settling') /\ IsFiniteSet(Releasing')
  /\ Cardinality(EndedRows') \in Nat /\ Cardinality(Settling') \in Nat /\ Cardinality(Releasing') \in Nat
<1>1. EndedRows' \subseteq Jobs /\ Settling' \subseteq Jobs /\ Releasing' \subseteq Callers BY DEF EndedRows, Settling, Releasing
<1>2. IsFiniteSet(EndedRows') /\ IsFiniteSet(Settling') /\ IsFiniteSet(Releasing') BY <1>1, FiniteJobs, FS_Subset
<1> QED BY <1>2, FS_CardinalityType

\* No row ends, and nobody's trim is over.
LEMMA HistoryStays ==
  ASSUME HistoryCapped, EndedRows' \subseteq EndedRows, Settling \subseteq Settling', Releasing \subseteq Releasing',
         faults' = 0 /\ crashes' = 0 => faults = 0 /\ crashes = 0
  PROVE  HistoryCapped'
<1>1. Cardinality(EndedRows') =< Cardinality(EndedRows) BY HistoryFinite, FS_Subset
<1>2. Cardinality(Settling) =< Cardinality(Settling') BY HistoryFiniteNext, FS_Subset
<1>3. Cardinality(Releasing) =< Cardinality(Releasing') BY HistoryFiniteNext, FS_Subset
<1>4. faults = 0 /\ crashes = 0 => Cardinality(EndedRows) =< MaxHistory + Cardinality(Settling) + Cardinality(Releasing)
      BY DEF HistoryCapped, EndedRows, Settling, Releasing
<1>5. faults' = 0 /\ crashes' = 0 => Cardinality(EndedRows') =< MaxHistory + Cardinality(Settling') + Cardinality(Releasing')
      BY <1>1, <1>2, <1>3, <1>4, HistoryFinite, HistoryFiniteNext, TransferAssumption
<1> QED BY <1>5 DEF HistoryCapped, EndedRows, Settling, Releasing

\* One more row ends, and its trim is to come.
LEMMA HistoryGrows ==
  ASSUME HistoryCapped, NEW j \in Jobs, EndedRows' \subseteq EndedRows \cup {j},
         \/ \E k \in Settling' : k \notin Settling /\ Settling \subseteq Settling' /\ Releasing \subseteq Releasing'
         \/ \E c \in Releasing' : c \notin Releasing /\ Settling \subseteq Settling' /\ Releasing \subseteq Releasing',
         faults' = 0 /\ crashes' = 0 => faults = 0 /\ crashes = 0
  PROVE  HistoryCapped'
<1>1. Cardinality(EndedRows') =< Cardinality(EndedRows) + 1
  <2>0. /\ IsFiniteSet(EndedRows \cup {j})
        /\ Cardinality(EndedRows \cup {j}) = IF j \in EndedRows THEN Cardinality(EndedRows) ELSE Cardinality(EndedRows) + 1
        BY HistoryFinite, FS_AddElement, Zenon
  <2>1. IsFiniteSet(EndedRows \cup {j}) /\ Cardinality(EndedRows \cup {j}) =< Cardinality(EndedRows) + 1
        BY <2>0, HistoryFinite
  <2>2. Cardinality(EndedRows') =< Cardinality(EndedRows \cup {j}) /\ Cardinality(EndedRows \cup {j}) \in Nat
        BY <2>1, FS_Subset, FS_CardinalityType
  <2> QED BY <2>1, <2>2, HistoryFinite, HistoryFiniteNext
<1>2. Cardinality(Settling) =< Cardinality(Settling') BY HistoryFiniteNext, FS_Subset
<1>3. Cardinality(Releasing) =< Cardinality(Releasing') BY HistoryFiniteNext, FS_Subset
<1>4. Cardinality(Settling) + Cardinality(Releasing) + 1 =< Cardinality(Settling') + Cardinality(Releasing')
  <2>1. CASE \E k \in Settling' : k \notin Settling
    <3>1. Settling # Settling' BY <2>1
    <3>2. Cardinality(Settling) =< Cardinality(Settling') /\ Cardinality(Settling') # Cardinality(Settling)
          BY <3>1, HistoryFiniteNext, FS_Subset
    <3> QED BY <1>3, <3>2, HistoryFinite, HistoryFiniteNext
  <2>2. CASE \E c \in Releasing' : c \notin Releasing
    <3>1. Releasing # Releasing' BY <2>2
    <3>2. Cardinality(Releasing) =< Cardinality(Releasing') /\ Cardinality(Releasing') # Cardinality(Releasing)
          BY <3>1, HistoryFiniteNext, FS_Subset
    <3> QED BY <1>2, <3>2, HistoryFinite, HistoryFiniteNext
  <2> QED BY <2>1, <2>2
<1>5. faults = 0 /\ crashes = 0 => Cardinality(EndedRows) =< MaxHistory + Cardinality(Settling) + Cardinality(Releasing)
      BY DEF HistoryCapped, EndedRows, Settling, Releasing
<1>6. faults' = 0 /\ crashes' = 0 => Cardinality(EndedRows') =< MaxHistory + Cardinality(Settling') + Cardinality(Releasing')
      BY <1>1, <1>4, <1>5, HistoryFinite, HistoryFiniteNext, TransferAssumption
<1> QED BY <1>6 DEF HistoryCapped, EndedRows, Settling, Releasing

\* TrimUserHistory: rows go or stay, and MaxHistory of the ended ones remain.
LEMMA Trimmed ==
  ASSUME TransferTypeOK, NEW j \in Jobs, TrimHistory(j)
  PROVE  /\ row' \in [Jobs -> RowRecord] /\ marred' \subseteq Jobs /\ faults' \in 0..MaxFaults
         /\ crashes' = crashes /\ asked' = asked /\ marred \subseteq marred'
         /\ \A k \in Jobs : row'[k] = row[k] \/ row'[k] = NoRow
         /\ HistoryCapped'
<1>0. /\ row \in [Jobs -> RowRecord] /\ marred \subseteq Jobs /\ faults \in 0..MaxFaults /\ faults \in Nat /\ MaxFaults \in Nat
      BY TransferTypes, TransferAssumption
<1>1. CASE StoreFails(j)
  <2>1. faults' = faults + 1 /\ faults < MaxFaults /\ marred' = marred \cup {j} /\ row' = row /\ crashes' = crashes /\ asked' = asked
        BY <1>1 DEF StoreFails
  <2>2. faults' \in 0..MaxFaults /\ faults' # 0 BY <1>0, <2>1
  <2> QED BY <1>0, <2>1, <2>2 DEF HistoryCapped
<1>2. CASE \E kept \in SUBSET EndedRows :
             /\ Cardinality(kept) = Min({MaxHistory, Cardinality(EndedRows)})
             /\ row' = [k \in Jobs |-> IF k \in EndedRows \ kept THEN NoRow ELSE row[k]]
             /\ UNCHANGED history
  <2>1. PICK kept \in SUBSET EndedRows :
             /\ Cardinality(kept) = Min({MaxHistory, Cardinality(EndedRows)})
             /\ row' = [k \in Jobs |-> IF k \in EndedRows \ kept THEN NoRow ELSE row[k]]
             /\ UNCHANGED history
        BY <1>2
  <2>2. faults' = faults /\ crashes' = crashes /\ marred' = marred /\ asked' = asked BY <2>1 DEF history
  <2>3. NoRow \in RowRecord /\ NoRow.state = "none" BY DEF NoRow, RowRecord
  <2>4. row' \in [Jobs -> RowRecord] BY <1>0, <2>1, <2>3
  <2>5. \A k \in Jobs : row'[k] = row[k] \/ row'[k] = NoRow BY <2>1
  <2>6. EndedRows' \subseteq kept
    <3> SUFFICES ASSUME NEW k \in Jobs, row'[k].state \in Terminal PROVE k \in kept BY DEF EndedRows
    <3>1. row'[k] # NoRow BY <2>3 DEF Terminal
    <3>2. row'[k] = row[k] /\ k \notin EndedRows \ kept BY <2>1, <3>1
    <3>3. k \in EndedRows BY <3>2 DEF EndedRows
    <3> QED BY <3>2, <3>3
  <2>7. Min({MaxHistory, Cardinality(EndedRows)}) =< MaxHistory
    <3>1. MaxHistory \in Nat /\ Cardinality(EndedRows) \in Nat BY TransferAssumption, HistoryFinite
    <3>2. \E x \in {MaxHistory, Cardinality(EndedRows)} : \A y \in {MaxHistory, Cardinality(EndedRows)} : x =< y BY <3>1
    <3>3. \A y \in {MaxHistory, Cardinality(EndedRows)} : Min({MaxHistory, Cardinality(EndedRows)}) =< y BY <3>2 DEF Min
    <3> QED BY <3>3
  <2>8. IsFiniteSet(kept) /\ Cardinality(kept) \in Nat BY HistoryFinite, FS_Subset, FS_CardinalityType
  <2>9. Cardinality(EndedRows') =< Cardinality(kept) BY <2>6, <2>8, FS_Subset
  <2>10. Cardinality(EndedRows') =< MaxHistory + Cardinality(Settling') + Cardinality(Releasing')
         BY <2>1, <2>7, <2>8, <2>9, HistoryFiniteNext, TransferAssumption
  <2>11. HistoryCapped' BY <2>10 DEF HistoryCapped, EndedRows, Settling, Releasing
  <2> QED BY <1>0, <2>2, <2>4, <2>5, <2>11
<1> QED BY <1>1, <1>2 DEF TrimHistory, EndedRows

(* The goroutine of a job.                                                   *)

\* A step of the goroutine of j.
LEMMA WorkerMoves ==
  ASSUME TransferIInv, NEW j \in Jobs, up' = up, req' = req, asked' = asked, crashes' = crashes,
         TransferTypeOK', HistoryCapped', JobOK(j)', \A k \in Jobs \ {j} : Endures(k)
  PROVE  TransferIInv'
<1> USE DEF TransferIInv
<1>1. ASSUME NEW k \in Jobs PROVE JobOK(k)'
  <2>1. CASE k = j BY <2>1
  <2>2. CASE k # j BY <2>2, StillOK DEF JobsOK
  <2> QED BY <2>1, <2>2
<1>2. JobsOK' BY <1>1 DEF JobsOK
<1>3. ReqsOK' BY DEF ReqsOK
<1> QED BY <1>2, <1>3

\* One that writes no row and is not the trim.
LEMMA QuietStep ==
  ASSUME TransferIInv, NEW j \in Jobs, up' = up, row' = row, req' = req, UNCHANGED history,
         work' \in [Jobs -> WorkRecord], files' \subseteq Jobs, live' \subseteq Jobs,
         \A k \in Jobs \ {j} : work'[k] = work[k] /\ (k \in files' <=> k \in files) /\ (k \in live' <=> k \in live),
         work[j].pc # "settle", JobOK(j)'
  PROVE  TransferIInv'
<1> USE DEF TransferIInv
<1>1. faults' = faults /\ crashes' = crashes /\ marred' = marred /\ asked' = asked BY DEF history
<1>2. TransferTypeOK'
  <2>1. /\ row \in [Jobs -> RowRecord] /\ req \in [Callers -> ReqRecord] /\ up \in BOOLEAN /\ faults \in 0..MaxFaults
        /\ crashes \in 0..MaxCrashes /\ marred \subseteq Jobs /\ asked \subseteq Jobs
        BY TransferTypes
  <2> QED BY <1>1, <2>1 DEF TransferTypeOK, RowRecord, WorkRecord, ReqRecord, Steps
<1>3. \A k \in Jobs \ {j} : Endures(k) BY <1>1 DEF Endures
<1>4. EndedRows' \subseteq EndedRows /\ Settling \subseteq Settling' /\ Releasing \subseteq Releasing' BY DEF EndedRows, Settling, Releasing
<1>5. HistoryCapped' BY <1>1, <1>4, HistoryStays
<1> QED BY <1>1, <1>2, <1>3, <1>5, WorkerMoves

\* The goroutine of j goes to pc.
LEMMA Goes ==
  ASSUME TransferTypeOK, NEW j \in Jobs, NEW pc \in Steps, Goto(j, pc)
  PROVE  /\ work' \in [Jobs -> WorkRecord]
         /\ work'[j].pc = pc /\ work'[j].job = work[j].job /\ work'[j].next = work[j].next
         /\ \A k \in Jobs \ {j} : work'[k] = work[k]
<1>1. work \in [Jobs -> WorkRecord] /\ work[j] \in WorkRecord BY TransferTypes
<1>2. PICK b \in BOOLEAN : b = (work[j].ctx \/ pc = "done") OBVIOUS
<1>3. PICK w : w = [work[j] EXCEPT !.pc = pc, !.ctx = b] OBVIOUS
<1>4. w \in WorkRecord /\ w.pc = pc /\ w.job = work[j].job /\ w.next = work[j].next BY <1>1, <1>3 DEF WorkRecord
<1>5. work' = [work EXCEPT ![j] = w] BY <1>2, <1>3 DEF Goto
<1>6. work' \in [Jobs -> WorkRecord] /\ work'[j] = w /\ \A k \in Jobs \ {j} : work'[k] = work[k] BY <1>1, <1>4, <1>5
<1> QED BY <1>4, <1>6

\* Job.SetState of a goroutine whose own copy is not terminal.
LEMMA Sets ==
  ASSUME TransferTypeOK, NEW j \in Jobs, NEW s \in ActiveStates \cup Terminal, NEW next \in {"begin", "unwind", "done"},
         work[j].job \in ActiveStates, SetState(j, s, next)
  PROVE  /\ work' \in [Jobs -> WorkRecord]
         /\ work'[j].pc = "write" /\ work'[j].job = s /\ work'[j].next = next
         /\ \A k \in Jobs \ {j} : work'[k] = work[k]
<1>1. work \in [Jobs -> WorkRecord] /\ work[j] \in WorkRecord BY TransferTypes
<1>2. PICK w : w = [work[j] EXCEPT !.pc = "write", !.job = s, !.next = next] OBVIOUS
<1>3. w \in WorkRecord /\ w.pc = "write" /\ w.job = s /\ w.next = next BY <1>1, <1>2 DEF WorkRecord, Steps
<1>4. work' = [work EXCEPT ![j] = w] BY <1>2 DEF SetState, ActiveStates, Terminal
<1>5. work' \in [Jobs -> WorkRecord] /\ work'[j] = w /\ \A k \in Jobs \ {j} : work'[k] = work[k] BY <1>1, <1>3, <1>4
<1> QED BY <1>3, <1>5

\* A write by id.
LEMMA Written ==
  ASSUME TransferTypeOK, NEW j \in Jobs, NEW new \in RowRecord, Writes(j, new)
  PROVE  /\ row' \in [Jobs -> RowRecord] /\ \A k \in Jobs \ {j} : row'[k] = row[k]
         /\ marred' \subseteq Jobs /\ marred \subseteq marred' /\ faults' \in 0..MaxFaults
         /\ crashes' = crashes /\ asked' = asked
         /\ \/ row[j].state # "none" /\ row'[j] = new /\ faults' = faults
            \/ row[j].state = "none" /\ row'[j] = row[j] /\ faults' = faults
            \/ row'[j] = row[j] /\ j \in marred' /\ faults' # 0
<1>0. /\ row \in [Jobs -> RowRecord] /\ marred \subseteq Jobs /\ faults \in 0..MaxFaults /\ faults \in Nat /\ MaxFaults \in Nat
      BY TransferTypes, TransferAssumption
<1>1. CASE StoreFails(j)
  <2>1. faults' = faults + 1 /\ faults < MaxFaults /\ marred' = marred \cup {j} /\ row' = row /\ crashes' = crashes /\ asked' = asked
        BY <1>1 DEF StoreFails
  <2>2. faults' \in 0..MaxFaults /\ faults' # 0 BY <1>0, <2>1
  <2> QED BY <1>0, <2>1, <2>2
<1>2. CASE Update(j, new) /\ UNCHANGED history
  <2>1. faults' = faults /\ crashes' = crashes /\ marred' = marred /\ asked' = asked BY <1>2 DEF history
  <2>2. row' = IF row[j].state # "none" THEN [row EXCEPT ![j] = new] ELSE row BY <1>2 DEF Update, HasRow
  <2> QED BY <1>0, <2>1, <2>2
<1> QED BY <1>1, <1>2 DEF Writes

\* What the shapes of a job say of it.
LEMMA Shapes ==
  ASSUME TransferIInv, NEW j \in Jobs
  PROVE  /\ WorkOK(j, work[j]) /\ RowOK(j, row[j], work[j], marred, up) /\ HeldOK(j, work[j], files, live)
         /\ DownloadOK(j, row[j], work[j], files, asked, marred)
BY DEF TransferIInv, JobsOK, JobOK, JobShape

\* Register: the handle.
LEMMA RegisterKeeps == ASSUME TransferIInv, NEW j \in Jobs, Register(j) PROVE TransferIInv'
<1>1. /\ up /\ work[j].pc = "register" /\ live' = live \cup {j} /\ Goto(j, "temp") /\ row' = row /\ files' = files
      /\ req' = req /\ up' = up /\ UNCHANGED history /\ marred' = marred /\ asked' = asked
      BY DEF Register, At, disk, history
<1>2. "temp" \in Steps BY DEF Steps
<1>3. TransferTypeOK BY DEF TransferIInv
<1>4. /\ work' \in [Jobs -> WorkRecord]
      /\ work'[j].pc = "temp" /\ work'[j].job = work[j].job /\ work'[j].next = work[j].next
      /\ \A k \in Jobs \ {j} : work'[k] = work[k]
      BY <1>1, <1>2, <1>3, Goes
<1>5. files \subseteq Jobs /\ live \subseteq Jobs /\ up \in BOOLEAN BY <1>3, TransferTypes
<1>6. WorkOK(j, work'[j]) BY <1>1, <1>4, Shapes DEF WorkOK
<1>7. RowOK(j, row'[j], work'[j], marred', up') BY <1>1, <1>4, Shapes DEF RowOK, Ended
<1>8. HeldOK(j, work'[j], files', live') BY <1>1, <1>4, Shapes DEF HeldOK, Ended
<1>9. DownloadOK(j, row'[j], work'[j], files', asked', marred') BY <1>1, <1>4, Shapes DEF DownloadOK
<1>10. JobOK(j)' BY <1>6, <1>7, <1>8, <1>9 DEF JobOK, JobShape
<1> QED BY <1>1, <1>4, <1>5, <1>10, QuietStep

\* os.CreateTemp.
LEMMA CreateTempKeeps == ASSUME TransferIInv, NEW j \in Jobs, CreateTemp(j) PROVE TransferIInv'
<1>1. /\ up /\ work[j].pc = "temp" /\ row' = row /\ live' = live /\ req' = req /\ up' = up
      /\ UNCHANGED history /\ marred' = marred /\ asked' = asked
      BY DEF CreateTemp, At, disk, history
<1>2. TransferTypeOK BY DEF TransferIInv
<1>3. files \subseteq Jobs /\ live \subseteq Jobs BY <1>2, TransferTypes
<1>4. work[j].job \in ActiveStates BY <1>1, Shapes DEF WorkOK
<1>5. CASE files' = files \cup {j} /\ j \in Uploads /\ Goto(j, "receive")
  <2>0. files' \subseteq Jobs /\ \A k \in Jobs \ {j} : k \in files' <=> k \in files BY <1>3, <1>5
  <2>1. /\ work' \in [Jobs -> WorkRecord]
        /\ work'[j].pc = "receive" /\ work'[j].job = work[j].job /\ work'[j].next = work[j].next
        /\ \A k \in Jobs \ {j} : work'[k] = work[k]
        BY <1>2, <1>5, Goes DEF Steps, Ended
  <2>2. WorkOK(j, work'[j])
        BY <1>1, <1>5, <2>1, Shapes DEF WorkOK, ActiveStates, Terminal
  <2>3. RowOK(j, row'[j], work'[j], marred', up')
        BY <1>1, <1>5, <2>1, Shapes DEF RowOK, WorkOK, Ended, ActiveStates, Terminal
  <2>4. HeldOK(j, work'[j], files', live')
        BY <1>1, <1>5, <2>1, Shapes, TransferAssumption DEF HeldOK, WorkOK, Ended, ActiveStates, Terminal
  <2>5. DownloadOK(j, row'[j], work'[j], files', asked', marred')
        BY <1>1, <1>5, <2>1, Shapes, TransferAssumption DEF DownloadOK, WorkOK, RowOK, Ended, ActiveStates, Terminal
  <2>6. JobOK(j)' BY <2>2, <2>3, <2>4, <2>5 DEF JobOK, JobShape
  <2> QED BY <1>1, <1>3, <2>0, <2>1, <2>6, QuietStep
<1>6. CASE files' = files \cup {j} /\ j \notin Uploads /\ Goto(j, "begin")
  <2>0. files' \subseteq Jobs /\ \A k \in Jobs \ {j} : k \in files' <=> k \in files BY <1>3, <1>6
  <2>1. /\ work' \in [Jobs -> WorkRecord]
        /\ work'[j].pc = "begin" /\ work'[j].job = work[j].job /\ work'[j].next = work[j].next
        /\ \A k \in Jobs \ {j} : work'[k] = work[k]
        BY <1>2, <1>6, Goes DEF Steps, Ended
  <2>2. WorkOK(j, work'[j])
        BY <1>1, <1>6, <2>1, Shapes DEF WorkOK, ActiveStates, Terminal
  <2>3. RowOK(j, row'[j], work'[j], marred', up')
        BY <1>1, <1>6, <2>1, Shapes DEF RowOK, WorkOK, Ended, ActiveStates, Terminal
  <2>4. HeldOK(j, work'[j], files', live')
        BY <1>1, <1>6, <2>1, Shapes, TransferAssumption DEF HeldOK, WorkOK, Ended, ActiveStates, Terminal
  <2>5. DownloadOK(j, row'[j], work'[j], files', asked', marred')
        BY <1>1, <1>6, <2>1, Shapes, TransferAssumption DEF DownloadOK, WorkOK, RowOK, Ended, ActiveStates, Terminal
  <2>6. JobOK(j)' BY <2>2, <2>3, <2>4, <2>5 DEF JobOK, JobShape
  <2> QED BY <1>1, <1>3, <2>0, <2>1, <2>6, QuietStep
<1>7. CASE files' = files /\ FailTransferJob(j, "done")
  <2>0. files' \subseteq Jobs /\ \A k \in Jobs \ {j} : k \in files' <=> k \in files BY <1>3, <1>7
  <2>1. /\ work' \in [Jobs -> WorkRecord]
        /\ work'[j].pc = "write" /\ work'[j].job = "failed" /\ work'[j].next = "done"
        /\ \A k \in Jobs \ {j} : work'[k] = work[k]
        BY <1>2, <1>4, <1>7, Sets DEF FailTransferJob, Terminal, ActiveStates
  <2>2. WorkOK(j, work'[j])
        BY <1>1, <1>7, <2>1, Shapes DEF WorkOK, ActiveStates, Terminal
  <2>3. RowOK(j, row'[j], work'[j], marred', up')
        BY <1>1, <1>7, <2>1, Shapes DEF RowOK, WorkOK, Ended, ActiveStates, Terminal
  <2>4. HeldOK(j, work'[j], files', live')
        BY <1>1, <1>7, <2>1, Shapes, TransferAssumption DEF HeldOK, WorkOK, Ended, ActiveStates, Terminal
  <2>5. DownloadOK(j, row'[j], work'[j], files', asked', marred')
        BY <1>1, <1>7, <2>1, Shapes, TransferAssumption DEF DownloadOK, WorkOK, RowOK, Ended, ActiveStates, Terminal
  <2>6. JobOK(j)' BY <2>2, <2>3, <2>4, <2>5 DEF JobOK, JobShape
  <2> QED BY <1>1, <1>3, <2>0, <2>1, <2>6, QuietStep
<1> QED BY <1>1, <1>5, <1>6, <1>7 DEF CreateTemp

\* stageUploadFile: a broken upload leaves no file.
LEMMA ReceiveKeeps == ASSUME TransferIInv, NEW j \in Jobs, Receive(j) PROVE TransferIInv'
<1>1. /\ up /\ work[j].pc = "receive" /\ row' = row /\ live' = live /\ req' = req /\ up' = up
      /\ UNCHANGED history /\ marred' = marred /\ asked' = asked
      BY DEF Receive, At, disk, history
<1>2. TransferTypeOK BY DEF TransferIInv
<1>3. files \subseteq Jobs /\ live \subseteq Jobs BY <1>2, TransferTypes
<1>4. work[j].job \in ActiveStates BY <1>1, Shapes DEF WorkOK
<1>5. CASE files' = files /\ Goto(j, "path")
  <2>0. files' \subseteq Jobs /\ \A k \in Jobs \ {j} : k \in files' <=> k \in files BY <1>3, <1>5
  <2>1. /\ work' \in [Jobs -> WorkRecord]
        /\ work'[j].pc = "path" /\ work'[j].job = work[j].job /\ work'[j].next = work[j].next
        /\ \A k \in Jobs \ {j} : work'[k] = work[k]
        BY <1>2, <1>5, Goes DEF Steps, Ended
  <2>2. WorkOK(j, work'[j])
        BY <1>1, <1>5, <2>1, Shapes DEF WorkOK, ActiveStates, Terminal
  <2>3. RowOK(j, row'[j], work'[j], marred', up')
        BY <1>1, <1>5, <2>1, Shapes DEF RowOK, WorkOK, Ended, ActiveStates, Terminal
  <2>4. HeldOK(j, work'[j], files', live')
        BY <1>1, <1>5, <2>1, Shapes, TransferAssumption DEF HeldOK, WorkOK, Ended, ActiveStates, Terminal
  <2>5. DownloadOK(j, row'[j], work'[j], files', asked', marred')
        BY <1>1, <1>5, <2>1, Shapes, TransferAssumption DEF DownloadOK, WorkOK, RowOK, Ended, ActiveStates, Terminal
  <2>6. JobOK(j)' BY <2>2, <2>3, <2>4, <2>5 DEF JobOK, JobShape
  <2> QED BY <1>1, <1>3, <2>0, <2>1, <2>6, QuietStep
<1>6. CASE files' = files \ {j} /\ FailTransferJob(j, "done")
  <2>0. files' \subseteq Jobs /\ \A k \in Jobs \ {j} : k \in files' <=> k \in files BY <1>3, <1>6
  <2>1. /\ work' \in [Jobs -> WorkRecord]
        /\ work'[j].pc = "write" /\ work'[j].job = "failed" /\ work'[j].next = "done"
        /\ \A k \in Jobs \ {j} : work'[k] = work[k]
        BY <1>2, <1>4, <1>6, Sets DEF FailTransferJob, Terminal, ActiveStates
  <2>2. WorkOK(j, work'[j])
        BY <1>1, <1>6, <2>1, Shapes DEF WorkOK, ActiveStates, Terminal
  <2>3. RowOK(j, row'[j], work'[j], marred', up')
        BY <1>1, <1>6, <2>1, Shapes DEF RowOK, WorkOK, Ended, ActiveStates, Terminal
  <2>4. HeldOK(j, work'[j], files', live')
        BY <1>1, <1>6, <2>1, Shapes, TransferAssumption DEF HeldOK, WorkOK, Ended, ActiveStates, Terminal
  <2>5. DownloadOK(j, row'[j], work'[j], files', asked', marred')
        BY <1>1, <1>6, <2>1, Shapes, TransferAssumption DEF DownloadOK, WorkOK, RowOK, Ended, ActiveStates, Terminal
  <2>6. JobOK(j)' BY <2>2, <2>3, <2>4, <2>5 DEF JobOK, JobShape
  <2> QED BY <1>1, <1>3, <2>0, <2>1, <2>6, QuietStep
<1> QED BY <1>1, <1>5, <1>6 DEF Receive

\* The first look at the context.
LEMMA BeginKeeps == ASSUME TransferIInv, NEW j \in Jobs, Begin(j) PROVE TransferIInv'
<1>1. /\ up /\ work[j].pc = "begin" /\ row' = row /\ live' = live /\ req' = req /\ up' = up
      /\ UNCHANGED history /\ marred' = marred /\ asked' = asked
      BY DEF Begin, At, disk, history
<1>2. TransferTypeOK BY DEF TransferIInv
<1>3. files \subseteq Jobs /\ live \subseteq Jobs BY <1>2, TransferTypes
<1>4. work[j].job \in ActiveStates BY <1>1, Shapes DEF WorkOK
<1>5. CASE files' = files /\ SetState(j, "cancelled", "unwind")
  <2>0. files' \subseteq Jobs /\ \A k \in Jobs \ {j} : k \in files' <=> k \in files BY <1>3, <1>5
  <2>1. /\ work' \in [Jobs -> WorkRecord]
        /\ work'[j].pc = "write" /\ work'[j].job = "cancelled" /\ work'[j].next = "unwind"
        /\ \A k \in Jobs \ {j} : work'[k] = work[k]
        BY <1>2, <1>4, <1>5, Sets DEF FailTransferJob, Terminal, ActiveStates
  <2>2. WorkOK(j, work'[j])
        BY <1>1, <1>5, <2>1, Shapes DEF WorkOK, ActiveStates, Terminal
  <2>3. RowOK(j, row'[j], work'[j], marred', up')
        BY <1>1, <1>5, <2>1, Shapes DEF RowOK, WorkOK, Ended, ActiveStates, Terminal
  <2>4. HeldOK(j, work'[j], files', live')
        BY <1>1, <1>5, <2>1, Shapes, TransferAssumption DEF HeldOK, WorkOK, Ended, ActiveStates, Terminal
  <2>5. DownloadOK(j, row'[j], work'[j], files', asked', marred')
        BY <1>1, <1>5, <2>1, Shapes, TransferAssumption DEF DownloadOK, WorkOK, RowOK, Ended, ActiveStates, Terminal
  <2>6. JobOK(j)' BY <2>2, <2>3, <2>4, <2>5 DEF JobOK, JobShape
  <2> QED BY <1>1, <1>3, <2>0, <2>1, <2>6, QuietStep
<1>6. CASE files' = files /\ Goto(j, "open")
  <2>0. files' \subseteq Jobs /\ \A k \in Jobs \ {j} : k \in files' <=> k \in files BY <1>3, <1>6
  <2>1. /\ work' \in [Jobs -> WorkRecord]
        /\ work'[j].pc = "open" /\ work'[j].job = work[j].job /\ work'[j].next = work[j].next
        /\ \A k \in Jobs \ {j} : work'[k] = work[k]
        BY <1>2, <1>6, Goes DEF Steps, Ended
  <2>2. WorkOK(j, work'[j])
        BY <1>1, <1>6, <2>1, Shapes DEF WorkOK, ActiveStates, Terminal
  <2>3. RowOK(j, row'[j], work'[j], marred', up')
        BY <1>1, <1>6, <2>1, Shapes DEF RowOK, WorkOK, Ended, ActiveStates, Terminal
  <2>4. HeldOK(j, work'[j], files', live')
        BY <1>1, <1>6, <2>1, Shapes, TransferAssumption DEF HeldOK, WorkOK, Ended, ActiveStates, Terminal
  <2>5. DownloadOK(j, row'[j], work'[j], files', asked', marred')
        BY <1>1, <1>6, <2>1, Shapes, TransferAssumption DEF DownloadOK, WorkOK, RowOK, Ended, ActiveStates, Terminal
  <2>6. JobOK(j)' BY <2>2, <2>3, <2>4, <2>5 DEF JobOK, JobShape
  <2> QED BY <1>1, <1>3, <2>0, <2>1, <2>6, QuietStep
<1> QED BY <1>1, <1>5, <1>6 DEF Begin, disk

\* Both ends are opened.
LEMMA OpenKeeps == ASSUME TransferIInv, NEW j \in Jobs, Open(j) PROVE TransferIInv'
<1>1. /\ up /\ work[j].pc = "open" /\ row' = row /\ live' = live /\ req' = req /\ up' = up
      /\ UNCHANGED history /\ marred' = marred /\ asked' = asked
      BY DEF Open, At, disk, history
<1>2. TransferTypeOK BY DEF TransferIInv
<1>3. files \subseteq Jobs /\ live \subseteq Jobs BY <1>2, TransferTypes
<1>4. work[j].job \in ActiveStates BY <1>1, Shapes DEF WorkOK
<1>5. CASE files' = files \cup {j} /\ Goto(j, "copy")
  <2>0. files' \subseteq Jobs /\ \A k \in Jobs \ {j} : k \in files' <=> k \in files BY <1>3, <1>5
  <2>1. /\ work' \in [Jobs -> WorkRecord]
        /\ work'[j].pc = "copy" /\ work'[j].job = work[j].job /\ work'[j].next = work[j].next
        /\ \A k \in Jobs \ {j} : work'[k] = work[k]
        BY <1>2, <1>5, Goes DEF Steps, Ended
  <2>2. WorkOK(j, work'[j])
        BY <1>1, <1>5, <2>1, Shapes DEF WorkOK, ActiveStates, Terminal
  <2>3. RowOK(j, row'[j], work'[j], marred', up')
        BY <1>1, <1>5, <2>1, Shapes DEF RowOK, WorkOK, Ended, ActiveStates, Terminal
  <2>4. HeldOK(j, work'[j], files', live')
        BY <1>1, <1>5, <2>1, Shapes, TransferAssumption DEF HeldOK, WorkOK, Ended, ActiveStates, Terminal
  <2>5. DownloadOK(j, row'[j], work'[j], files', asked', marred')
        BY <1>1, <1>5, <2>1, Shapes, TransferAssumption DEF DownloadOK, WorkOK, RowOK, Ended, ActiveStates, Terminal
  <2>6. JobOK(j)' BY <2>2, <2>3, <2>4, <2>5 DEF JobOK, JobShape
  <2> QED BY <1>1, <1>3, <2>0, <2>1, <2>6, QuietStep
<1>6. CASE files' = files /\ FailTransferJob(j, "unwind")
  <2>0. files' \subseteq Jobs /\ \A k \in Jobs \ {j} : k \in files' <=> k \in files BY <1>3, <1>6
  <2>1. /\ work' \in [Jobs -> WorkRecord]
        /\ work'[j].pc = "write" /\ work'[j].job = "failed" /\ work'[j].next = "unwind"
        /\ \A k \in Jobs \ {j} : work'[k] = work[k]
        BY <1>2, <1>4, <1>6, Sets DEF FailTransferJob, Terminal, ActiveStates
  <2>2. WorkOK(j, work'[j])
        BY <1>1, <1>6, <2>1, Shapes DEF WorkOK, ActiveStates, Terminal
  <2>3. RowOK(j, row'[j], work'[j], marred', up')
        BY <1>1, <1>6, <2>1, Shapes DEF RowOK, WorkOK, Ended, ActiveStates, Terminal
  <2>4. HeldOK(j, work'[j], files', live')
        BY <1>1, <1>6, <2>1, Shapes, TransferAssumption DEF HeldOK, WorkOK, Ended, ActiveStates, Terminal
  <2>5. DownloadOK(j, row'[j], work'[j], files', asked', marred')
        BY <1>1, <1>6, <2>1, Shapes, TransferAssumption DEF DownloadOK, WorkOK, RowOK, Ended, ActiveStates, Terminal
  <2>6. JobOK(j)' BY <2>2, <2>3, <2>4, <2>5 DEF JobOK, JobShape
  <2> QED BY <1>1, <1>3, <2>0, <2>1, <2>6, QuietStep
<1> QED BY <1>1, <1>5, <1>6 DEF Open

\* progressCopy.
LEMMA CopyKeeps == ASSUME TransferIInv, NEW j \in Jobs, Copy(j) PROVE TransferIInv'
<1>1. /\ up /\ work[j].pc = "copy" /\ row' = row /\ live' = live /\ req' = req /\ up' = up
      /\ UNCHANGED history /\ marred' = marred /\ asked' = asked
      BY DEF Copy, At, disk, history
<1>2. TransferTypeOK BY DEF TransferIInv
<1>3. files \subseteq Jobs /\ live \subseteq Jobs BY <1>2, TransferTypes
<1>4. work[j].job \in ActiveStates BY <1>1, Shapes DEF WorkOK
<1>5. CASE files' = files /\ Goto(j, "check")
  <2>0. files' \subseteq Jobs /\ \A k \in Jobs \ {j} : k \in files' <=> k \in files BY <1>3, <1>5
  <2>1. /\ work' \in [Jobs -> WorkRecord]
        /\ work'[j].pc = "check" /\ work'[j].job = work[j].job /\ work'[j].next = work[j].next
        /\ \A k \in Jobs \ {j} : work'[k] = work[k]
        BY <1>2, <1>5, Goes DEF Steps, Ended
  <2>2. WorkOK(j, work'[j])
        BY <1>1, <1>5, <2>1, Shapes DEF WorkOK, ActiveStates, Terminal
  <2>3. RowOK(j, row'[j], work'[j], marred', up')
        BY <1>1, <1>5, <2>1, Shapes DEF RowOK, WorkOK, Ended, ActiveStates, Terminal
  <2>4. HeldOK(j, work'[j], files', live')
        BY <1>1, <1>5, <2>1, Shapes, TransferAssumption DEF HeldOK, WorkOK, Ended, ActiveStates, Terminal
  <2>5. DownloadOK(j, row'[j], work'[j], files', asked', marred')
        BY <1>1, <1>5, <2>1, Shapes, TransferAssumption DEF DownloadOK, WorkOK, RowOK, Ended, ActiveStates, Terminal
  <2>6. JobOK(j)' BY <2>2, <2>3, <2>4, <2>5 DEF JobOK, JobShape
  <2> QED BY <1>1, <1>3, <2>0, <2>1, <2>6, QuietStep
<1>6. CASE files' = files /\ FailTransferJob(j, "unwind")
  <2>0. files' \subseteq Jobs /\ \A k \in Jobs \ {j} : k \in files' <=> k \in files BY <1>3, <1>6
  <2>1. /\ work' \in [Jobs -> WorkRecord]
        /\ work'[j].pc = "write" /\ work'[j].job = "failed" /\ work'[j].next = "unwind"
        /\ \A k \in Jobs \ {j} : work'[k] = work[k]
        BY <1>2, <1>4, <1>6, Sets DEF FailTransferJob, Terminal, ActiveStates
  <2>2. WorkOK(j, work'[j])
        BY <1>1, <1>6, <2>1, Shapes DEF WorkOK, ActiveStates, Terminal
  <2>3. RowOK(j, row'[j], work'[j], marred', up')
        BY <1>1, <1>6, <2>1, Shapes DEF RowOK, WorkOK, Ended, ActiveStates, Terminal
  <2>4. HeldOK(j, work'[j], files', live')
        BY <1>1, <1>6, <2>1, Shapes, TransferAssumption DEF HeldOK, WorkOK, Ended, ActiveStates, Terminal
  <2>5. DownloadOK(j, row'[j], work'[j], files', asked', marred')
        BY <1>1, <1>6, <2>1, Shapes, TransferAssumption DEF DownloadOK, WorkOK, RowOK, Ended, ActiveStates, Terminal
  <2>6. JobOK(j)' BY <2>2, <2>3, <2>4, <2>5 DEF JobOK, JobShape
  <2> QED BY <1>1, <1>3, <2>0, <2>1, <2>6, QuietStep
<1> QED BY <1>1, <1>5, <1>6 DEF Copy, disk

\* The other end stops answering.
LEMMA HangsKeeps == ASSUME TransferIInv, NEW j \in Jobs, Hangs(j) PROVE TransferIInv'
<1>1. /\ up /\ work[j].pc \in {"open", "copy"} /\ row' = row /\ live' = live /\ req' = req /\ up' = up
      /\ UNCHANGED history /\ marred' = marred /\ asked' = asked
      BY DEF Hangs, At, disk, history
<1>2. TransferTypeOK BY DEF TransferIInv
<1>3. files \subseteq Jobs /\ live \subseteq Jobs BY <1>2, TransferTypes
<1>4. work[j].job \in ActiveStates BY <1>1, Shapes DEF WorkOK
<1>5. CASE files' = files /\ Goto(j, "hung")
  <2>0. files' \subseteq Jobs /\ \A k \in Jobs \ {j} : k \in files' <=> k \in files BY <1>3, <1>5
  <2>1. /\ work' \in [Jobs -> WorkRecord]
        /\ work'[j].pc = "hung" /\ work'[j].job = work[j].job /\ work'[j].next = work[j].next
        /\ \A k \in Jobs \ {j} : work'[k] = work[k]
        BY <1>2, <1>5, Goes DEF Steps, Ended
  <2>2. WorkOK(j, work'[j])
        BY <1>1, <1>5, <2>1, Shapes DEF WorkOK, ActiveStates, Terminal
  <2>3. RowOK(j, row'[j], work'[j], marred', up')
        BY <1>1, <1>5, <2>1, Shapes DEF RowOK, WorkOK, Ended, ActiveStates, Terminal
  <2>4. HeldOK(j, work'[j], files', live')
        BY <1>1, <1>5, <2>1, Shapes, TransferAssumption DEF HeldOK, WorkOK, Ended, ActiveStates, Terminal
  <2>5. DownloadOK(j, row'[j], work'[j], files', asked', marred')
        BY <1>1, <1>5, <2>1, Shapes, TransferAssumption DEF DownloadOK, WorkOK, RowOK, Ended, ActiveStates, Terminal
  <2>6. JobOK(j)' BY <2>2, <2>3, <2>4, <2>5 DEF JobOK, JobShape
  <2> QED BY <1>1, <1>3, <2>0, <2>1, <2>6, QuietStep
<1> QED BY <1>1, <1>5 DEF Hangs, disk

\* The second look at the context: only an upload completes here.
LEMMA CheckKeeps == ASSUME TransferIInv, NEW j \in Jobs, Check(j) PROVE TransferIInv'
<1>1. /\ up /\ work[j].pc = "check" /\ row' = row /\ live' = live /\ req' = req /\ up' = up
      /\ UNCHANGED history /\ marred' = marred /\ asked' = asked
      BY DEF Check, At, disk, history
<1>2. TransferTypeOK BY DEF TransferIInv
<1>3. files \subseteq Jobs /\ live \subseteq Jobs BY <1>2, TransferTypes
<1>4. work[j].job \in ActiveStates BY <1>1, Shapes DEF WorkOK
<1>5. CASE files' = files /\ SetState(j, "cancelled", "unwind")
  <2>0. files' \subseteq Jobs /\ \A k \in Jobs \ {j} : k \in files' <=> k \in files BY <1>3, <1>5
  <2>1. /\ work' \in [Jobs -> WorkRecord]
        /\ work'[j].pc = "write" /\ work'[j].job = "cancelled" /\ work'[j].next = "unwind"
        /\ \A k \in Jobs \ {j} : work'[k] = work[k]
        BY <1>2, <1>4, <1>5, Sets DEF FailTransferJob, Terminal, ActiveStates
  <2>2. WorkOK(j, work'[j])
        BY <1>1, <1>5, <2>1, Shapes DEF WorkOK, ActiveStates, Terminal
  <2>3. RowOK(j, row'[j], work'[j], marred', up')
        BY <1>1, <1>5, <2>1, Shapes DEF RowOK, WorkOK, Ended, ActiveStates, Terminal
  <2>4. HeldOK(j, work'[j], files', live')
        BY <1>1, <1>5, <2>1, Shapes, TransferAssumption DEF HeldOK, WorkOK, Ended, ActiveStates, Terminal
  <2>5. DownloadOK(j, row'[j], work'[j], files', asked', marred')
        BY <1>1, <1>5, <2>1, Shapes, TransferAssumption DEF DownloadOK, WorkOK, RowOK, Ended, ActiveStates, Terminal
  <2>6. JobOK(j)' BY <2>2, <2>3, <2>4, <2>5 DEF JobOK, JobShape
  <2> QED BY <1>1, <1>3, <2>0, <2>1, <2>6, QuietStep
<1>6. CASE files' = files /\ j \in Downloads /\ Goto(j, "path")
  <2>0. files' \subseteq Jobs /\ \A k \in Jobs \ {j} : k \in files' <=> k \in files BY <1>3, <1>6
  <2>1. /\ work' \in [Jobs -> WorkRecord]
        /\ work'[j].pc = "path" /\ work'[j].job = work[j].job /\ work'[j].next = work[j].next
        /\ \A k \in Jobs \ {j} : work'[k] = work[k]
        BY <1>2, <1>6, Goes DEF Steps, Ended
  <2>2. WorkOK(j, work'[j])
        BY <1>1, <1>6, <2>1, Shapes DEF WorkOK, ActiveStates, Terminal
  <2>3. RowOK(j, row'[j], work'[j], marred', up')
        BY <1>1, <1>6, <2>1, Shapes DEF RowOK, WorkOK, Ended, ActiveStates, Terminal
  <2>4. HeldOK(j, work'[j], files', live')
        BY <1>1, <1>6, <2>1, Shapes, TransferAssumption DEF HeldOK, WorkOK, Ended, ActiveStates, Terminal
  <2>5. DownloadOK(j, row'[j], work'[j], files', asked', marred')
        BY <1>1, <1>6, <2>1, Shapes, TransferAssumption DEF DownloadOK, WorkOK, RowOK, Ended, ActiveStates, Terminal
  <2>6. JobOK(j)' BY <2>2, <2>3, <2>4, <2>5 DEF JobOK, JobShape
  <2> QED BY <1>1, <1>3, <2>0, <2>1, <2>6, QuietStep
<1>7. CASE files' = files /\ j \notin Downloads /\ SetState(j, "completed", "unwind")
  <2>0. files' \subseteq Jobs /\ \A k \in Jobs \ {j} : k \in files' <=> k \in files BY <1>3, <1>7
  <2>1. /\ work' \in [Jobs -> WorkRecord]
        /\ work'[j].pc = "write" /\ work'[j].job = "completed" /\ work'[j].next = "unwind"
        /\ \A k \in Jobs \ {j} : work'[k] = work[k]
        BY <1>2, <1>4, <1>7, Sets DEF FailTransferJob, Terminal, ActiveStates
  <2>2. WorkOK(j, work'[j])
        BY <1>1, <1>7, <2>1, Shapes DEF WorkOK, ActiveStates, Terminal
  <2>3. RowOK(j, row'[j], work'[j], marred', up')
        BY <1>1, <1>7, <2>1, Shapes DEF RowOK, WorkOK, Ended, ActiveStates, Terminal
  <2>4. HeldOK(j, work'[j], files', live')
        BY <1>1, <1>7, <2>1, Shapes, TransferAssumption DEF HeldOK, WorkOK, Ended, ActiveStates, Terminal
  <2>5. DownloadOK(j, row'[j], work'[j], files', asked', marred')
        BY <1>1, <1>7, <2>1, Shapes, TransferAssumption DEF DownloadOK, WorkOK, RowOK, Ended, ActiveStates, Terminal
  <2>6. JobOK(j)' BY <2>2, <2>3, <2>4, <2>5 DEF JobOK, JobShape
  <2> QED BY <1>1, <1>3, <2>0, <2>1, <2>6, QuietStep
<1> QED BY <1>1, <1>5, <1>6, <1>7 DEF Check, disk

\* The deferred calls.
LEMMA UnwindKeeps == ASSUME TransferIInv, NEW j \in Jobs, Unwind(j) PROVE TransferIInv'
<1>1. /\ up /\ work[j].pc = "unwind" /\ row' = row /\ live' = live /\ req' = req /\ up' = up
      /\ UNCHANGED history /\ marred' = marred /\ asked' = asked
      BY DEF Unwind, At, disk, history
<1>2. TransferTypeOK BY DEF TransferIInv
<1>3. files \subseteq Jobs /\ live \subseteq Jobs BY <1>2, TransferTypes
<1>5. CASE files' = files /\ j \in Downloads /\ work[j].job = "completed" /\ Goto(j, "done")
  <2>0. files' \subseteq Jobs /\ \A k \in Jobs \ {j} : k \in files' <=> k \in files BY <1>3, <1>5
  <2>1. /\ work' \in [Jobs -> WorkRecord]
        /\ work'[j].pc = "done" /\ work'[j].job = work[j].job /\ work'[j].next = work[j].next
        /\ \A k \in Jobs \ {j} : work'[k] = work[k]
        BY <1>2, <1>5, Goes DEF Steps, Ended
  <2>2. WorkOK(j, work'[j])
        BY <1>1, <1>5, <2>1, Shapes DEF WorkOK, ActiveStates, Terminal
  <2>3. RowOK(j, row'[j], work'[j], marred', up')
        BY <1>1, <1>5, <2>1, Shapes DEF RowOK, WorkOK, Ended, ActiveStates, Terminal
  <2>4. HeldOK(j, work'[j], files', live')
        BY <1>1, <1>5, <2>1, Shapes, TransferAssumption DEF HeldOK, WorkOK, Ended, ActiveStates, Terminal
  <2>5. DownloadOK(j, row'[j], work'[j], files', asked', marred')
        BY <1>1, <1>5, <2>1, Shapes, TransferAssumption DEF DownloadOK, WorkOK, RowOK, Ended, ActiveStates, Terminal
  <2>6. JobOK(j)' BY <2>2, <2>3, <2>4, <2>5 DEF JobOK, JobShape
  <2> QED BY <1>1, <1>3, <2>0, <2>1, <2>6, QuietStep
<1>6. CASE files' = files \ {j} /\ ~(j \in Downloads /\ work[j].job = "completed") /\ Goto(j, "done")
  <2>0. files' \subseteq Jobs /\ \A k \in Jobs \ {j} : k \in files' <=> k \in files BY <1>3, <1>6
  <2>1. /\ work' \in [Jobs -> WorkRecord]
        /\ work'[j].pc = "done" /\ work'[j].job = work[j].job /\ work'[j].next = work[j].next
        /\ \A k \in Jobs \ {j} : work'[k] = work[k]
        BY <1>2, <1>6, Goes DEF Steps, Ended
  <2>2. WorkOK(j, work'[j])
        BY <1>1, <1>6, <2>1, Shapes DEF WorkOK, ActiveStates, Terminal
  <2>3. RowOK(j, row'[j], work'[j], marred', up')
        BY <1>1, <1>6, <2>1, Shapes DEF RowOK, WorkOK, Ended, ActiveStates, Terminal
  <2>4. HeldOK(j, work'[j], files', live')
        BY <1>1, <1>6, <2>1, Shapes, TransferAssumption DEF HeldOK, WorkOK, Ended, ActiveStates, Terminal
  <2>5. DownloadOK(j, row'[j], work'[j], files', asked', marred')
        BY <1>1, <1>6, <2>1, Shapes, TransferAssumption DEF DownloadOK, WorkOK, RowOK, Ended, ActiveStates, Terminal
  <2>6. JobOK(j)' BY <2>2, <2>3, <2>4, <2>5 DEF JobOK, JobShape
  <2> QED BY <1>1, <1>3, <2>0, <2>1, <2>6, QuietStep
<1> QED BY <1>1, <1>5, <1>6 DEF Unwind

\* Manager.Create.
LEMMA CreateKeeps == ASSUME TransferIInv, NEW j \in Jobs, Create(j) PROVE TransferIInv'
<1>0. TransferTypeOK BY DEF TransferIInv
<1>1. /\ up /\ work[j].pc = "none" /\ files' = files /\ live' = live /\ req' = req /\ up' = up
      /\ UNCHANGED history /\ marred' = marred /\ asked' = asked /\ faults' = faults /\ crashes' = crashes
      /\ row' = [row EXCEPT ![j].state = InitialState(j)]
      /\ work' = [work EXCEPT ![j] = [NoWork EXCEPT !.pc = "register", !.job = row'[j].state]]
      BY DEF Create, At, history
<1>2. row \in [Jobs -> RowRecord] /\ row[j] \in RowRecord /\ work \in [Jobs -> WorkRecord] BY <1>0, TransferTypes
<1>3. InitialState(j) \in ActiveStates BY DEF InitialState, ActiveStates
<1>4. PICK o : o = [row[j] EXCEPT !.state = InitialState(j)] OBVIOUS
<1>5. o \in RowRecord /\ o.state \in ActiveStates BY <1>2, <1>3, <1>4 DEF RowRecord
<1>6. row' = [row EXCEPT ![j] = o] BY <1>1, <1>4
<1>7. row' \in [Jobs -> RowRecord] /\ row'[j] = o /\ \A k \in Jobs \ {j} : row'[k] = row[k] BY <1>2, <1>5, <1>6
<1>8. PICK w : w = [NoWork EXCEPT !.pc = "register", !.job = o.state] OBVIOUS
<1>9. w \in WorkRecord /\ w.pc = "register" /\ w.job \in ActiveStates /\ w.next = "none"
      BY <1>5, <1>8 DEF NoWork, WorkRecord, Steps
<1>10. work' = [work EXCEPT ![j] = w] BY <1>1, <1>7, <1>8
<1>11. work' \in [Jobs -> WorkRecord] /\ work'[j] = w /\ \A k \in Jobs \ {j} : work'[k] = work[k] BY <1>2, <1>9, <1>10
<1>12. TransferTypeOK'
  <2>1. /\ req \in [Callers -> ReqRecord] /\ up \in BOOLEAN /\ faults \in 0..MaxFaults /\ files \subseteq Jobs
        /\ live \subseteq Jobs /\ crashes \in 0..MaxCrashes /\ marred \subseteq Jobs /\ asked \subseteq Jobs
        BY <1>0, TransferTypes
  <2> QED BY <1>1, <1>7, <1>11, <2>1 DEF TransferTypeOK, RowRecord, WorkRecord, ReqRecord, Steps
<1>13. \A k \in Jobs \ {j} : Endures(k) BY <1>1, <1>7, <1>11 DEF Endures
<1>14. EndedRows' \subseteq EndedRows /\ Settling \subseteq Settling' /\ Releasing \subseteq Releasing'
       BY <1>1, <1>5, <1>7, <1>11 DEF EndedRows, Settling, Releasing, ActiveStates, Terminal
<1>15. HistoryCapped' BY <1>1, <1>14, HistoryStays DEF TransferIInv
<1>16. WorkOK(j, work'[j]) BY <1>9, <1>11 DEF WorkOK
<1>17. RowOK(j, row'[j], work'[j], marred', up') BY <1>0, <1>1, <1>5, <1>7, <1>9, <1>11, TransferTypes DEF RowOK, ActiveStates
<1>18. HeldOK(j, work'[j], files', live') BY <1>1, <1>9, <1>11, Shapes DEF HeldOK, Ended
<1>19. DownloadOK(j, row'[j], work'[j], files', asked', marred') BY <1>5, <1>7, <1>9, <1>11 DEF DownloadOK, ActiveStates
<1>20. JobOK(j)' BY <1>16, <1>17, <1>18, <1>19 DEF JobOK, JobShape
<1> QED BY <1>1, <1>12, <1>13, <1>15, <1>20, WorkerMoves

\* A step of the goroutine that writes the row of its job.
LEMMA WritingStep ==
  ASSUME TransferIInv, NEW j \in Jobs, up' = up, req' = req, files' = files, live' = live, crashes' = crashes, asked' = asked,
         row' \in [Jobs -> RowRecord], \A k \in Jobs \ {j} : row'[k] = row[k],
         marred' \subseteq Jobs, marred \subseteq marred', faults' \in 0..MaxFaults,
         work' \in [Jobs -> WorkRecord], \A k \in Jobs \ {j} : work'[k] = work[k],
         HistoryCapped', JobOK(j)'
  PROVE  TransferIInv'
<1>1. TransferTypeOK'
  <2>1. /\ req \in [Callers -> ReqRecord] /\ up \in BOOLEAN /\ files \subseteq Jobs
        /\ live \subseteq Jobs /\ crashes \in 0..MaxCrashes /\ asked \subseteq Jobs
        BY TransferTypes DEF TransferIInv
  <2> QED BY <2>1 DEF TransferTypeOK, RowRecord, WorkRecord, ReqRecord, Steps
<1>2. \A k \in Jobs \ {j} : Endures(k) BY DEF Endures
<1> QED BY <1>1, <1>2, WorkerMoves

\* SetTempPath, and the state that follows it.
LEMMA SetTempPathKeeps == ASSUME TransferIInv, NEW j \in Jobs, SetTempPath(j) PROVE TransferIInv'
<1>0. TransferTypeOK BY DEF TransferIInv
<1>1. /\ up /\ work[j].pc = "path" /\ files' = files /\ live' = live /\ req' = req /\ up' = up
      BY DEF SetTempPath, At
<1>2. row \in [Jobs -> RowRecord] /\ row[j] \in RowRecord BY <1>0, TransferTypes
<1>3. PICK new : new = [row[j] EXCEPT !.temp = TRUE] OBVIOUS
<1>4. new \in RowRecord /\ new.state = row[j].state /\ new.temp = TRUE BY <1>2, <1>3 DEF RowRecord
<1>5. Writes(j, new) BY <1>3 DEF SetTempPath
<1>6. /\ row' \in [Jobs -> RowRecord] /\ \A k \in Jobs \ {j} : row'[k] = row[k]
      /\ marred' \subseteq Jobs /\ marred \subseteq marred' /\ faults' \in 0..MaxFaults
      /\ crashes' = crashes /\ asked' = asked
      /\ \/ row[j].state # "none" /\ row'[j] = new /\ faults' = faults
         \/ row[j].state = "none" /\ row'[j] = row[j] /\ faults' = faults
         \/ row'[j] = row[j] /\ j \in marred' /\ faults' # 0
      BY <1>0, <1>4, <1>5, Written
<1>7. row'[j].state = row[j].state /\ (row[j].state = "none" \/ row'[j].temp = TRUE \/ j \in marred') BY <1>4, <1>6
<1>8. work[j].job \in ActiveStates BY <1>1, Shapes DEF WorkOK
<1>9. PICK s \in {"running", "completed"}, next \in {"begin", "unwind"} :
        /\ SetState(j, s, next)
        /\ (s = "running" /\ next = "begin" /\ j \in Uploads) \/ (s = "completed" /\ next = "unwind" /\ j \notin Uploads)
      BY DEF SetTempPath
<1>10. /\ work' \in [Jobs -> WorkRecord]
       /\ work'[j].pc = "write" /\ work'[j].job = s /\ work'[j].next = next
       /\ \A k \in Jobs \ {j} : work'[k] = work[k]
       BY <1>0, <1>8, <1>9, Sets DEF ActiveStates, Terminal
<1>11. EndedRows' \subseteq EndedRows /\ Settling \subseteq Settling' /\ Releasing \subseteq Releasing'
       BY <1>1, <1>6, <1>7, <1>10 DEF EndedRows, Settling, Releasing
<1>12. HistoryCapped' BY <1>6, <1>11, HistoryStays DEF TransferIInv
<1>13. WorkOK(j, work'[j]) BY <1>9, <1>10 DEF WorkOK, ActiveStates, Terminal
<1>14. RowOK(j, row'[j], work'[j], marred', up') BY <1>1, <1>7, <1>10, Shapes DEF RowOK, Ended
<1>15. HeldOK(j, work'[j], files', live') BY <1>1, <1>9, <1>10, Shapes DEF HeldOK, Ended
<1>16. DownloadOK(j, row'[j], work'[j], files', asked', marred')
       BY <1>1, <1>6, <1>7, <1>10, Shapes DEF DownloadOK, RowOK
<1>17. JobOK(j)' BY <1>13, <1>14, <1>15, <1>16 DEF JobOK, JobShape
<1> QED BY <1>1, <1>6, <1>10, <1>12, <1>17, WritingStep

\* SetState after its unlock.
LEMMA PersistStateKeeps == ASSUME TransferIInv, NEW j \in Jobs, PersistState(j) PROVE TransferIInv'
<1>0. TransferTypeOK BY DEF TransferIInv
<1>1. /\ up /\ work[j].pc = "write" /\ files' = files /\ live' = live /\ req' = req /\ up' = up
      BY DEF PersistState, At
<1>2. row \in [Jobs -> RowRecord] /\ row[j] \in RowRecord /\ work[j] \in WorkRecord BY <1>0, TransferTypes
<1>3. PICK new : new = [row[j] EXCEPT !.state = work[j].job] OBVIOUS
<1>4. new \in RowRecord /\ new.state = work[j].job /\ new.temp = row[j].temp BY <1>2, <1>3 DEF RowRecord, WorkRecord
<1>5. Writes(j, new) BY <1>3 DEF PersistState
<1>6. /\ row' \in [Jobs -> RowRecord] /\ \A k \in Jobs \ {j} : row'[k] = row[k]
      /\ marred' \subseteq Jobs /\ marred \subseteq marred' /\ faults' \in 0..MaxFaults
      /\ crashes' = crashes /\ asked' = asked
      /\ \/ row[j].state # "none" /\ row'[j] = new /\ faults' = faults
         \/ row[j].state = "none" /\ row'[j] = row[j] /\ faults' = faults
         \/ row'[j] = row[j] /\ j \in marred' /\ faults' # 0
      BY <1>0, <1>4, <1>5, Written
<1>7. row'[j].temp = row[j].temp BY <1>4, <1>6
<1>8. CASE work[j].job \in ActiveStates
  <2>1. work[j].next = "begin" /\ j \in Uploads BY <1>1, <1>8, Shapes DEF WorkOK, ActiveStates, Terminal
  <2>2. Goto(j, "begin") BY <1>8, <2>1 DEF PersistState, ActiveStates, Terminal
  <2>3. /\ work' \in [Jobs -> WorkRecord]
        /\ work'[j].pc = "begin" /\ work'[j].job = work[j].job
        /\ \A k \in Jobs \ {j} : work'[k] = work[k]
        BY <1>0, <2>2, Goes DEF Steps
  <2>4. row'[j].state = row[j].state \/ row'[j].state \in ActiveStates BY <1>4, <1>6, <1>8
  <2>5. EndedRows' \subseteq EndedRows /\ Settling \subseteq Settling' /\ Releasing \subseteq Releasing'
        BY <1>1, <1>6, <2>3, <2>4 DEF EndedRows, Settling, Releasing, ActiveStates, Terminal
  <2>6. HistoryCapped' BY <1>6, <2>5, HistoryStays DEF TransferIInv
  <2>7. WorkOK(j, work'[j]) BY <1>8, <2>3 DEF WorkOK
  <2>8. RowOK(j, row'[j], work'[j], marred', up') BY <1>1, <2>3, <2>4, Shapes DEF RowOK, Ended, ActiveStates
  <2>9. HeldOK(j, work'[j], files', live') BY <1>1, <2>3, Shapes DEF HeldOK, Ended
  <2>10. DownloadOK(j, row'[j], work'[j], files', asked', marred') BY <2>1, TransferAssumption DEF DownloadOK
  <2>11. JobOK(j)' BY <2>7, <2>8, <2>9, <2>10 DEF JobOK, JobShape
  <2> QED BY <1>1, <1>6, <2>3, <2>6, <2>11, WritingStep
<1>9. CASE work[j].job \in Terminal
  <2>1. work[j].next \in {"unwind", "done"} BY <1>1, <1>9, Shapes DEF WorkOK, ActiveStates, Terminal
  <2>2. Goto(j, "settle") BY <1>9 DEF PersistState
  <2>3. /\ work' \in [Jobs -> WorkRecord]
        /\ work'[j].pc = "settle" /\ work'[j].job = work[j].job /\ work'[j].next = work[j].next
        /\ \A k \in Jobs \ {j} : work'[k] = work[k]
        BY <1>0, <2>2, Goes DEF Steps
  <2>4. row'[j].state = work[j].job \/ (row'[j].state = row[j].state /\ (row[j].state = "none" \/ j \in marred')) BY <1>4, <1>6
  <2>5. EndedRows' \subseteq EndedRows \cup {j} /\ Settling \subseteq Settling' /\ Releasing \subseteq Releasing' /\ j \in Settling' /\ j \notin Settling
        BY <1>1, <1>6, <2>3 DEF EndedRows, Settling, Releasing
  <2>6. HistoryCapped' BY <1>6, <2>5, HistoryGrows DEF TransferIInv
  <2>7. WorkOK(j, work'[j]) BY <1>9, <2>1, <2>3 DEF WorkOK
  <2>8. RowOK(j, row'[j], work'[j], marred', up') BY <1>1, <1>9, <2>3, <2>4, Shapes DEF RowOK, Ended, ActiveStates, Terminal
  <2>9. HeldOK(j, work'[j], files', live') BY <1>1, <2>3, Shapes DEF HeldOK, Ended
  <2>10. DownloadOK(j, row'[j], work'[j], files', asked', marred')
         BY <1>1, <1>6, <1>7, <2>3, <2>4, Shapes DEF DownloadOK, RowOK
  <2>11. JobOK(j)' BY <2>7, <2>8, <2>9, <2>10 DEF JobOK, JobShape
  <2> QED BY <1>1, <1>6, <2>3, <2>6, <2>11, WritingStep
<1> QED BY <1>1, <1>8, <1>9, Shapes DEF WorkOK

\* The end of SetState: the handle is released and the history trimmed.
LEMMA SettleKeeps == ASSUME TransferIInv, NEW j \in Jobs, Settle(j) PROVE TransferIInv'
<1>0. TransferTypeOK BY DEF TransferIInv
<1>1. /\ up /\ work[j].pc = "settle" /\ files' = files /\ live' = live \ {j} /\ req' = req /\ up' = up /\ TrimHistory(j)
      /\ Goto(j, work[j].next)
      BY DEF Settle, At
<1>2. work[j].job \in Terminal /\ work[j].next \in {"unwind", "done"} BY <1>1, Shapes DEF WorkOK
<1>3. PICK pc \in {"unwind", "done"} : pc = work[j].next BY <1>2
<1>4. /\ work' \in [Jobs -> WorkRecord]
      /\ work'[j].pc = pc /\ work'[j].job = work[j].job /\ work'[j].next = work[j].next
      /\ \A k \in Jobs \ {j} : work'[k] = work[k]
      BY <1>0, <1>1, <1>3, Goes DEF Steps, Ended
<1>5. /\ row' \in [Jobs -> RowRecord] /\ marred' \subseteq Jobs /\ faults' \in 0..MaxFaults
      /\ crashes' = crashes /\ asked' = asked /\ marred \subseteq marred'
      /\ \A k \in Jobs : row'[k] = row[k] \/ row'[k] = NoRow
      /\ HistoryCapped'
      BY <1>0, <1>1, Trimmed
<1>6. TransferTypeOK'
  <2>1. /\ req \in [Callers -> ReqRecord] /\ up \in BOOLEAN /\ files \subseteq Jobs
        /\ live \subseteq Jobs /\ crashes \in 0..MaxCrashes /\ asked \subseteq Jobs
        BY <1>0, TransferTypes
  <2>2. live' \subseteq Jobs BY <1>1, <2>1
  <2> QED BY <1>1, <1>4, <1>5, <2>1, <2>2 DEF TransferTypeOK, RowRecord, WorkRecord, ReqRecord, Steps
<1>7. \A k \in Jobs \ {j} : Endures(k) BY <1>1, <1>4, <1>5 DEF Endures
<1>8. row'[j].state = "none" \/ row'[j] = row[j] BY <1>5 DEF NoRow
<1>9. WorkOK(j, work'[j]) BY <1>2, <1>4 DEF WorkOK
<1>10. RowOK(j, row'[j], work'[j], marred', up') BY <1>1, <1>4, <1>5, <1>8, Shapes DEF RowOK, Ended, ActiveStates
<1>11. HeldOK(j, work'[j], files', live') BY <1>1, <1>3, <1>4, Shapes DEF HeldOK, Ended
<1>12. DownloadOK(j, row'[j], work'[j], files', asked', marred')
       BY <1>1, <1>4, <1>5, <1>8, Shapes DEF DownloadOK
<1>13. JobOK(j)' BY <1>9, <1>10, <1>11, <1>12 DEF JobOK, JobShape
<1> QED BY <1>1, <1>5, <1>6, <1>7, <1>13, WorkerMoves

(* The DELETE requests.                                                      *)

\* A step of a request, which every job endures.
LEMMA RequestMoves ==
  ASSUME TransferIInv, up' = up, crashes' = crashes, TransferTypeOK', HistoryCapped',
         NEW c \in Callers, NEW f \in ReqRecord, req' = [req EXCEPT ![c] = f],
         f.pc # "idle" => f.job \in asked', asked \subseteq asked', \A k \in Jobs : Endures(k)
  PROVE  TransferIInv'
<1> USE DEF TransferIInv
<1>1. JobsOK' BY StillOK DEF JobsOK
<1>2. req \in [Callers -> ReqRecord] BY TransferTypes
<1>3. req'[c] = f /\ \A d \in Callers \ {c} : req'[d] = req[d] BY <1>2
<1>4. ReqsOK' BY <1>3 DEF ReqsOK
<1> QED BY <1>1, <1>4

\* The types after it.
LEMMA RequestTypes ==
  ASSUME TransferTypeOK, NEW c \in Callers, NEW f \in ReqRecord, req' = [req EXCEPT ![c] = f],
         row' \in [Jobs -> RowRecord], work' \in [Jobs -> WorkRecord], files' \subseteq Jobs, live' \subseteq Jobs,
         up' = up, faults' \in 0..MaxFaults, crashes' = crashes, marred' \subseteq Jobs, asked' \subseteq Jobs
  PROVE  TransferTypeOK' /\ req' \in [Callers -> ReqRecord] /\ req'[c] = f /\ \A d \in Callers \ {c} : req'[d] = req[d]
<1>1. req \in [Callers -> ReqRecord] /\ up \in BOOLEAN /\ crashes \in 0..MaxCrashes BY TransferTypes
<1>2. req' \in [Callers -> ReqRecord] /\ req'[c] = f /\ \A d \in Callers \ {c} : req'[d] = req[d] BY <1>1
<1> QED BY <1>1, <1>2 DEF TransferTypeOK, RowRecord, WorkRecord, ReqRecord, Steps

\* Nothing of the history changes and no trim is over.
LEMMA QuietRequest ==
  ASSUME TransferIInv, row' = row, work' = work \/ Settling \subseteq Settling', faults' = faults, crashes' = crashes,
         NEW c \in Callers, req[c].pc # "release", \A d \in Callers \ {c} : req'[d] = req[d]
  PROVE  HistoryCapped'
<1>1. EndedRows' \subseteq EndedRows /\ Settling \subseteq Settling' /\ Releasing \subseteq Releasing' BY DEF EndedRows, Settling, Releasing
<1> QED BY <1>1, HistoryStays DEF TransferIInv

\* The types, in pieces.
LEMMA TypesNow ==
  ASSUME TransferIInv
  PROVE  /\ TransferTypeOK /\ row \in [Jobs -> RowRecord] /\ files \subseteq Jobs /\ live \subseteq Jobs
         /\ work \in [Jobs -> WorkRecord] /\ req \in [Callers -> ReqRecord] /\ faults \in 0..MaxFaults
         /\ marred \subseteq Jobs /\ asked \subseteq Jobs
BY TransferTypes DEF TransferIInv

\* A request that is under way and goes to pc.
LEMMA RequestGoes ==
  ASSUME TransferIInv, NEW c \in Callers, req[c].pc # "idle",
         NEW pc \in {"mark", "release", "get", "remove"}, ReqGoto(c, pc)
  PROVE  \E f \in ReqRecord : f.pc = pc /\ f.job = req[c].job /\ f.job \in asked /\ req' = [req EXCEPT ![c] = f]
<1>1. req[c] \in ReqRecord BY TypesNow
<1>2. PICK f : f = [req[c] EXCEPT !.pc = pc] OBVIOUS
<1>3. f \in ReqRecord /\ f.pc = pc /\ f.job = req[c].job BY <1>1, <1>2 DEF ReqRecord
<1>4. req' = [req EXCEPT ![c] = f] BY <1>2 DEF ReqGoto
<1>5. req[c].job \in asked BY DEF TransferIInv, ReqsOK
<1> QED BY <1>3, <1>4, <1>5

\* Cancel reads the row.
LEMMA CancelLookupKeeps ==
  ASSUME TransferIInv, NEW c \in Callers, NEW j \in Jobs, CancelLookup(c, j) PROVE TransferIInv'
<1>1. /\ req[c].pc = "idle" /\ asked' = asked \cup {j} /\ row' = row /\ files' = files /\ live' = live /\ work' = work
      /\ up' = up /\ faults' = faults /\ crashes' = crashes /\ marred' = marred
      BY DEF CancelLookup, ReqAt, disk
<1>2. PICK pc \in {"get", "signal"} : req' = [req EXCEPT ![c] = [IdleReq EXCEPT !.pc = pc, !.job = j]]
      BY DEF CancelLookup
<1>3. PICK f : f = [IdleReq EXCEPT !.pc = pc, !.job = j] OBVIOUS
<1>4. f \in ReqRecord /\ f.job = j BY <1>3 DEF IdleReq, ReqRecord
<1>5. req' = [req EXCEPT ![c] = f] BY <1>2, <1>3
<1>6. TransferTypeOK' /\ \A d \in Callers \ {c} : req'[d] = req[d] BY <1>1, <1>4, <1>5, TypesNow, RequestTypes
<1>7. HistoryCapped' BY <1>1, <1>6, QuietRequest
<1>8. \A k \in Jobs : Endures(k) BY <1>1 DEF Endures
<1> QED BY <1>1, <1>4, <1>5, <1>6, <1>7, <1>8, RequestMoves

\* The context of a job that has a handle is cancelled.
LEMMA CancelSignalKeeps == ASSUME TransferIInv, NEW c \in Callers, CancelSignal(c) PROVE TransferIInv'
<1>1. /\ req[c].pc = "signal" /\ row' = row /\ files' = files /\ live' = live /\ ReqGoto(c, "mark")
      /\ up' = up /\ faults' = faults /\ crashes' = crashes /\ marred' = marred /\ asked' = asked
      BY DEF CancelSignal, ReqAt, disk, history
<1>2. PICK f \in ReqRecord : f.job \in asked /\ req' = [req EXCEPT ![c] = f] BY <1>1, RequestGoes
<1>3. /\ work' \in [Jobs -> WorkRecord]
      /\ \A k \in Jobs : work'[k].pc = work[k].pc /\ work'[k].job = work[k].job /\ work'[k].next = work[k].next
  <2>0. work \in [Jobs -> WorkRecord] /\ live \subseteq Jobs BY TypesNow
  <2>1. PICK j : j = req[c].job OBVIOUS
  <2>2. CASE j \in live
    <3>1. j \in Jobs /\ work[j] \in WorkRecord BY <2>0, <2>2
    <3>2. PICK w : w = [work[j] EXCEPT !.ctx = TRUE] OBVIOUS
    <3>3. w \in WorkRecord /\ w.pc = work[j].pc /\ w.job = work[j].job /\ w.next = work[j].next BY <3>1, <3>2 DEF WorkRecord
    <3>4. work' = [work EXCEPT ![j] = w] BY <2>1, <2>2, <3>2 DEF CancelSignal
    <3> QED BY <2>0, <3>1, <3>3, <3>4
  <2>3. CASE j \notin live
    <3>1. work' = work BY <2>1, <2>3 DEF CancelSignal
    <3> QED BY <2>0, <3>1
  <2> QED BY <2>2, <2>3
<1>4. TransferTypeOK' /\ \A d \in Callers \ {c} : req'[d] = req[d] BY <1>1, <1>2, <1>3, TypesNow, RequestTypes
<1>5. Settling \subseteq Settling' BY <1>3 DEF Settling
<1>6. HistoryCapped' BY <1>1, <1>4, <1>5, QuietRequest
<1>7. \A k \in Jobs : Endures(k) BY <1>1, <1>3 DEF Endures
<1> QED BY <1>1, <1>2, <1>4, <1>6, <1>7, RequestMoves

\* IdleReq is a request.
LEMMA IdleIsRequest == IdleReq \in ReqRecord /\ IdleReq.pc = "idle"
BY DEF IdleReq, ReqRecord

\* A store error that a request meets.
LEMMA RequestFails ==
  ASSUME TransferIInv, NEW j \in Jobs, StoreFails(j)
  PROVE  /\ faults' \in 0..MaxFaults /\ faults' # 0 /\ marred' \subseteq Jobs /\ marred \subseteq marred'
         /\ row' = row /\ crashes' = crashes /\ asked' = asked /\ HistoryCapped'
<1>1. faults \in 0..MaxFaults /\ faults \in Nat /\ MaxFaults \in Nat /\ marred \subseteq Jobs BY TypesNow, TransferAssumption
<1>2. faults' = faults + 1 /\ faults < MaxFaults /\ marred' = marred \cup {j} /\ row' = row /\ crashes' = crashes /\ asked' = asked
      BY DEF StoreFails
<1>3. faults' \in 0..MaxFaults /\ faults' # 0 BY <1>1, <1>2
<1> QED BY <1>1, <1>2, <1>3 DEF HistoryCapped

\* The row becomes cancelled, and its trim is to come.
LEMMA CancelMarkKeeps == ASSUME TransferIInv, NEW c \in Callers, CancelMark(c) PROVE TransferIInv'
<1>1. req[c].pc = "mark" /\ files' = files /\ live' = live /\ work' = work /\ up' = up
      BY DEF CancelMark, ReqAt
<1>2. PICK j : j = req[c].job OBVIOUS
<1>3. j \in asked /\ j \in Jobs BY <1>1, <1>2, TypesNow DEF TransferIInv, ReqsOK
<1>4. CASE Update(j, [row[j] EXCEPT !.state = "cancelled"]) /\ ReqGoto(c, "release") /\ UNCHANGED history
  <2>1. faults' = faults /\ crashes' = crashes /\ marred' = marred /\ asked' = asked BY <1>4 DEF history
  <2>2. PICK f \in ReqRecord : f.pc = "release" /\ f.job \in asked /\ req' = [req EXCEPT ![c] = f] BY <1>1, <1>4, RequestGoes
  <2>3. row \in [Jobs -> RowRecord] /\ row[j] \in RowRecord BY <1>3, TypesNow
  <2>4. PICK o : o = [row[j] EXCEPT !.state = "cancelled"] OBVIOUS
  <2>5. o \in RowRecord BY <2>3, <2>4 DEF RowRecord, Terminal
  <2>6. row' = IF row[j].state # "none" THEN [row EXCEPT ![j] = o] ELSE row BY <1>4, <2>4 DEF Update, HasRow
  <2>7. row' \in [Jobs -> RowRecord] /\ \A k \in Jobs \ {j} : row'[k] = row[k] BY <2>3, <2>5, <2>6
  <2>8. row'[j] = row[j] \/ (row[j].state # "none" /\ row'[j] = [row[j] EXCEPT !.state = "cancelled"])
        BY <1>3, <2>3, <2>4, <2>6
  <2>9. TransferTypeOK' /\ req'[c] = f /\ \A d \in Callers \ {c} : req'[d] = req[d]
        BY <1>1, <2>1, <2>2, <2>7, TypesNow, RequestTypes
  <2>10. EndedRows' \subseteq EndedRows \cup {j} BY <2>7 DEF EndedRows
  <2>11. Settling \subseteq Settling' /\ Releasing \subseteq Releasing' /\ c \in Releasing' /\ c \notin Releasing
         BY <1>1, <2>2, <2>9 DEF Settling, Releasing
  <2>12. HistoryCapped' BY <1>3, <2>1, <2>10, <2>11, HistoryGrows DEF TransferIInv
  <2>13. ASSUME NEW k \in Jobs PROVE Endures(k)
    <3>1. CASE k = j BY <1>1, <2>1, <2>8, <3>1 DEF Endures
    <3>2. CASE k # j BY <1>1, <2>1, <2>7, <3>2 DEF Endures
    <3> QED BY <3>1, <3>2
  <2> QED BY <1>1, <2>1, <2>2, <2>9, <2>12, <2>13, RequestMoves
<1>5. CASE StoreFails(j) /\ req' = [req EXCEPT ![c] = IdleReq]
  <2>1. /\ faults' \in 0..MaxFaults /\ marred' \subseteq Jobs /\ marred \subseteq marred'
        /\ row' = row /\ crashes' = crashes /\ asked' = asked /\ HistoryCapped'
        BY <1>3, <1>5, RequestFails
  <2>2. TransferTypeOK' BY <1>1, <1>5, <2>1, IdleIsRequest, TypesNow, RequestTypes
  <2>3. \A k \in Jobs : Endures(k) BY <1>1, <2>1 DEF Endures
  <2> QED BY <1>1, <1>5, <2>1, <2>2, <2>3, IdleIsRequest, RequestMoves
<1> QED BY <1>2, <1>4, <1>5 DEF CancelMark

\* The handle is released and the history trimmed.
LEMMA CancelReleaseKeeps == ASSUME TransferIInv, NEW c \in Callers, CancelRelease(c) PROVE TransferIInv'
<1>1. req[c].pc = "release" /\ files' = files /\ live' = live \ {req[c].job} /\ work' = work /\ up' = up
      /\ TrimHistory(req[c].job) /\ ReqGoto(c, "get")
      BY DEF CancelRelease, ReqAt
<1>2. req[c].job \in Jobs BY <1>1, TypesNow DEF TransferIInv, ReqsOK
<1>3. PICK f \in ReqRecord : f.job \in asked /\ req' = [req EXCEPT ![c] = f] BY <1>1, RequestGoes
<1>4. /\ row' \in [Jobs -> RowRecord] /\ marred' \subseteq Jobs /\ faults' \in 0..MaxFaults
      /\ crashes' = crashes /\ asked' = asked /\ marred \subseteq marred'
      /\ \A k \in Jobs : row'[k] = row[k] \/ row'[k] = NoRow
      /\ HistoryCapped'
      BY <1>1, <1>2, TypesNow, Trimmed
<1>5. live' \subseteq Jobs BY <1>1, TypesNow
<1>6. TransferTypeOK' BY <1>1, <1>3, <1>4, <1>5, TypesNow, RequestTypes
<1>7. \A k \in Jobs : Endures(k) BY <1>1, <1>4 DEF Endures
<1> QED BY <1>1, <1>3, <1>4, <1>6, <1>7, RequestMoves

\* Manager.Get after Cancel.
LEMMA DeleteGetKeeps == ASSUME TransferIInv, NEW c \in Callers, DeleteGet(c) PROVE TransferIInv'
<1>1. /\ req[c].pc = "get" /\ row' = row /\ files' = files /\ live' = live /\ work' = work
      /\ up' = up /\ faults' = faults /\ crashes' = crashes /\ marred' = marred /\ asked' = asked
      BY DEF DeleteGet, ReqAt, disk, history
<1>2. PICK j : j = req[c].job OBVIOUS
<1>3. j \in asked /\ j \in Jobs BY <1>1, <1>2, TypesNow DEF TransferIInv, ReqsOK
<1>4. PICK f \in ReqRecord : req' = [req EXCEPT ![c] = f] /\ (f.pc # "idle" => f.job \in asked)
  <2>1. CASE HasRow(j)
    <3>1. PICK f : f = [req[c] EXCEPT !.pc = "clean", !.temp = row[j].temp] OBVIOUS
    <3>2. row[j].temp \in BOOLEAN /\ req[c] \in ReqRecord BY <1>3, TypesNow DEF RowRecord
    <3>3. f \in ReqRecord /\ f.job = j BY <1>2, <3>1, <3>2 DEF ReqRecord
    <3>4. req' = [req EXCEPT ![c] = f] BY <1>2, <2>1, <3>1 DEF DeleteGet
    <3> QED BY <1>3, <3>3, <3>4
  <2>2. CASE ~HasRow(j)
    <3>1. req' = [req EXCEPT ![c] = IdleReq] BY <1>2, <2>2 DEF DeleteGet
    <3> QED BY <3>1, IdleIsRequest
  <2> QED BY <2>1, <2>2
<1>5. TransferTypeOK' /\ \A d \in Callers \ {c} : req'[d] = req[d] BY <1>1, <1>4, TypesNow, RequestTypes
<1>6. HistoryCapped' BY <1>1, <1>5, QuietRequest
<1>7. \A k \in Jobs : Endures(k) BY <1>1 DEF Endures
<1> QED BY <1>1, <1>4, <1>5, <1>6, <1>7, RequestMoves

\* The file goes, if the row named it.
LEMMA DeleteCleanKeeps == ASSUME TransferIInv, NEW c \in Callers, DeleteClean(c) PROVE TransferIInv'
<1>1. /\ req[c].pc = "clean" /\ row' = row /\ live' = live /\ work' = work /\ ReqGoto(c, "remove")
      /\ files' = files \/ files' = files \ {req[c].job}
      /\ up' = up /\ faults' = faults /\ crashes' = crashes /\ marred' = marred /\ asked' = asked
      BY DEF DeleteClean, ReqAt, history
<1>2. req[c].job \in asked BY <1>1 DEF TransferIInv, ReqsOK
<1>3. PICK f \in ReqRecord : f.job \in asked /\ req' = [req EXCEPT ![c] = f] BY <1>1, RequestGoes
<1>4. files' \subseteq Jobs BY <1>1, TypesNow
<1>5. TransferTypeOK' /\ \A d \in Callers \ {c} : req'[d] = req[d] BY <1>1, <1>3, <1>4, TypesNow, RequestTypes
<1>6. HistoryCapped' BY <1>1, <1>5, QuietRequest
<1>7. \A k \in Jobs : Endures(k) BY <1>1, <1>2 DEF Endures
<1> QED BY <1>1, <1>3, <1>5, <1>6, <1>7, RequestMoves

\* Manager.Remove.
LEMMA DeleteRemoveKeeps == ASSUME TransferIInv, NEW c \in Callers, DeleteRemove(c) PROVE TransferIInv'
<1>1. /\ req[c].pc = "remove" /\ files' = files /\ work' = work /\ live' = live \ {req[c].job} /\ up' = up
      /\ req' = [req EXCEPT ![c] = IdleReq]
      BY DEF DeleteRemove, ReqAt
<1>2. PICK j : j = req[c].job OBVIOUS
<1>3. j \in Jobs BY <1>1, <1>2, TypesNow DEF TransferIInv, ReqsOK
<1>4. live' \subseteq Jobs BY <1>1, TypesNow
<1>5. CASE row' = [row EXCEPT ![j] = NoRow] /\ UNCHANGED history
  <2>1. faults' = faults /\ crashes' = crashes /\ marred' = marred /\ asked' = asked BY <1>5 DEF history
  <2>2. NoRow \in RowRecord /\ NoRow.state = "none" BY DEF NoRow, RowRecord
  <2>3. row' \in [Jobs -> RowRecord] /\ \A k \in Jobs : row'[k] = row[k] \/ row'[k] = NoRow BY <1>5, <2>2, TypesNow
  <2>4. TransferTypeOK' /\ \A d \in Callers \ {c} : req'[d] = req[d]
        BY <1>1, <1>4, <2>1, <2>3, IdleIsRequest, TypesNow, RequestTypes
  <2>5. EndedRows' \subseteq EndedRows
    <3> SUFFICES ASSUME NEW k \in Jobs, row'[k].state \in Terminal PROVE row[k].state \in Terminal BY DEF EndedRows
    <3> QED BY <2>2, <2>3 DEF Terminal
  <2>6. Settling \subseteq Settling' /\ Releasing \subseteq Releasing' BY <1>1, <2>4 DEF Settling, Releasing
  <2>7. HistoryCapped' BY <2>1, <2>5, <2>6, HistoryStays DEF TransferIInv
  <2>8. \A k \in Jobs : Endures(k) BY <1>1, <2>1, <2>3 DEF Endures
  <2> QED BY <1>1, <2>1, <2>4, <2>7, <2>8, IdleIsRequest, RequestMoves
<1>6. CASE StoreFails(j)
  <2>1. /\ faults' \in 0..MaxFaults /\ marred' \subseteq Jobs /\ marred \subseteq marred'
        /\ row' = row /\ crashes' = crashes /\ asked' = asked /\ HistoryCapped'
        BY <1>3, <1>6, RequestFails
  <2>2. TransferTypeOK' BY <1>1, <1>4, <2>1, IdleIsRequest, TypesNow, RequestTypes
  <2>3. \A k \in Jobs : Endures(k) BY <1>1, <2>1 DEF Endures
  <2> QED BY <1>1, <2>1, <2>2, <2>3, IdleIsRequest, RequestMoves
<1> QED BY <1>2, <1>5, <1>6 DEF DeleteRemove

(* The server.                                                               *)

\* A crash ends what was running; a row that was completed has its file still.
LEMMA CrashKeeps == ASSUME TransferIInv, Crash PROVE TransferIInv'
<1>1. /\ up /\ crashes < MaxCrashes /\ up' = FALSE /\ crashes' = crashes + 1 /\ live' = {}
      /\ row' = row /\ files' = files /\ faults' = faults /\ marred' = marred /\ asked' = asked
      BY DEF Crash, disk
<1>2. crashes \in Nat /\ MaxCrashes \in Nat /\ crashes \in 0..MaxCrashes BY TransferAssumption, TransferTypes DEF TransferIInv
<1>3. crashes' \in 0..MaxCrashes /\ crashes' > 0 /\ crashes' # 0 BY <1>1, <1>2
<1>4. PICK w : w = [NoWork EXCEPT !.pc = "dead"] OBVIOUS
<1>5. w \in WorkRecord /\ w.pc = "dead" BY <1>4 DEF NoWork, WorkRecord, Steps, Ended
<1>6. work' = [j \in Jobs |-> IF work[j].pc \in {"none", "done"} THEN work[j] ELSE w] BY <1>4 DEF Crash
<1>7. /\ work' \in [Jobs -> WorkRecord]
      /\ \A j \in Jobs : work'[j] = w \/ (work[j].pc \in {"none", "done"} /\ work'[j] = work[j])
      BY <1>5, <1>6, TypesNow
<1>8. req' \in [Callers -> ReqRecord] /\ \A c \in Callers : req'[c] = IdleReq BY IdleIsRequest DEF Crash
<1>9. TransferTypeOK' BY <1>1, <1>3, <1>7, <1>8, TypesNow DEF TransferTypeOK, RowRecord, WorkRecord, ReqRecord, Steps
<1>10. ReqsOK' BY <1>8, IdleIsRequest DEF ReqsOK
<1>11. HistoryCapped' BY <1>3 DEF HistoryCapped
<1>12. ASSUME NEW j \in Jobs PROVE JobOK(j)'
  <2>1. CASE work'[j] = w
    <3>1. WorkOK(j, work'[j]) BY <1>5, <2>1 DEF WorkOK
    <3>2. RowOK(j, row'[j], work'[j], marred', up') BY <1>1, <1>5, <2>1 DEF RowOK, Ended
    <3>3. HeldOK(j, work'[j], files', live') BY <1>1, <1>5, <2>1 DEF HeldOK
    <3>4. DownloadOK(j, row'[j], work'[j], files', asked', marred') BY <1>1, <1>5, <2>1, Shapes DEF DownloadOK
    <3> QED BY <3>1, <3>2, <3>3, <3>4 DEF JobOK, JobShape
  <2>2. CASE work[j].pc \in {"none", "done"} /\ work'[j] = work[j]
    <3>1. WorkOK(j, work'[j]) BY <2>2, Shapes
    <3>2. RowOK(j, row'[j], work'[j], marred', up') BY <1>1, <2>2, Shapes DEF RowOK, Ended
    <3>3. HeldOK(j, work'[j], files', live') BY <1>1, <2>2, Shapes DEF HeldOK
    <3>4. DownloadOK(j, row'[j], work'[j], files', asked', marred') BY <1>1, <2>2, Shapes
    <3> QED BY <3>1, <3>2, <3>3, <3>4 DEF JobOK, JobShape
  <2> QED BY <1>7, <2>1, <2>2
<1>13. JobsOK' BY <1>12 DEF JobsOK
<1> QED BY <1>3, <1>9, <1>10, <1>11, <1>13 DEF TransferIInv

\* ReapOrphans: no row is active any more, or the ones that are were missed.
LEMMA RestartKeeps == ASSUME TransferIInv, Restart PROVE TransferIInv'
<1>1. /\ ~up /\ up' = TRUE /\ files' = files /\ live' = live /\ work' = work /\ req' = req /\ crashes' = crashes /\ asked' = asked
      BY DEF Restart
<1>2. up = FALSE /\ crashes > 0 /\ crashes # 0 /\ crashes \in 0..MaxCrashes BY <1>1, TransferTypes DEF TransferIInv
<1>3. PICK orphans : orphans = {j \in Jobs : row[j].state \in ActiveStates} OBVIOUS
<1>4. /\ row' \in [Jobs -> RowRecord] /\ marred' \subseteq Jobs /\ marred \subseteq marred' /\ faults' \in 0..MaxFaults
      /\ \A j \in Jobs : row'[j] = row[j] \/ (row[j].state \in ActiveStates /\ row'[j].state = "failed")
      /\ \A j \in Jobs : row'[j].state \in ActiveStates => j \in marred'
  <2>1. CASE /\ row' = [j \in Jobs |-> IF j \in orphans THEN [row[j] EXCEPT !.state = "failed"] ELSE row[j]]
             /\ UNCHANGED <<faults, marred>>
    <3>1. ASSUME NEW j \in Jobs
          PROVE  /\ [row[j] EXCEPT !.state = "failed"] \in RowRecord
                 /\ [row[j] EXCEPT !.state = "failed"].state = "failed"
      <4>1. row[j] \in RowRecord BY TypesNow
      <4> QED BY <4>1 DEF RowRecord, Terminal
    <3>2. row' \in [Jobs -> RowRecord] BY <2>1, <3>1, TypesNow
    <3>3. ASSUME NEW j \in Jobs
          PROVE  /\ row'[j] = row[j] \/ (row[j].state \in ActiveStates /\ row'[j].state = "failed")
                 /\ row'[j].state \notin ActiveStates
      <4>1. CASE j \in orphans
        <5>1. row'[j].state = "failed" BY <2>1, <3>1, <4>1
        <5> QED BY <1>3, <4>1, <5>1 DEF ActiveStates
      <4>2. CASE j \notin orphans BY <1>3, <2>1, <4>2
      <4> QED BY <4>1, <4>2
    <3> QED BY <2>1, <3>2, <3>3, TypesNow
  <2>2. CASE faults < MaxFaults /\ faults' = faults + 1 /\ marred' = marred \cup orphans /\ row' = row
    <3>1. faults \in 0..MaxFaults /\ MaxFaults \in Nat /\ marred \subseteq Jobs BY TypesNow, TransferAssumption
    <3>2. faults' \in 0..MaxFaults BY <2>2, <3>1
    <3> QED BY <1>3, <2>2, <3>1, <3>2, TypesNow
  <2> QED BY <1>3, <2>1, <2>2 DEF Restart
<1>5. TransferTypeOK' BY <1>1, <1>2, <1>4, TypesNow DEF TransferTypeOK, RowRecord, WorkRecord, ReqRecord, Steps
<1>6. ReqsOK' BY <1>1 DEF TransferIInv, ReqsOK
<1>7. HistoryCapped' BY <1>1, <1>2 DEF HistoryCapped
<1>8. ASSUME NEW j \in Jobs PROVE JobOK(j)'
  <2>1. /\ row'[j] = row[j] \/ (row[j].state \in ActiveStates /\ row'[j].state = "failed")
        /\ row'[j].state \in ActiveStates => j \in marred'
        BY <1>4
  <2>2. work[j].pc \in Ended BY <1>2, Shapes DEF RowOK
  <2>3. WorkOK(j, work'[j]) BY <1>1, Shapes
  <2>4. RowOK(j, row'[j], work'[j], marred', up') BY <1>1, <1>4, <2>1, <2>2, Shapes DEF RowOK, Ended, ActiveStates
  <2>5. HeldOK(j, work'[j], files', live') BY <1>1, Shapes
  <2>6. DownloadOK(j, row'[j], work'[j], files', asked', marred')
        BY <1>1, <1>4, <2>1, <2>2, Shapes DEF DownloadOK, RowOK, Ended, ActiveStates
  <2> QED BY <2>3, <2>4, <2>5, <2>6 DEF JobOK, JobShape
<1>9. JobsOK' BY <1>8 DEF JobsOK
<1> QED BY <1>1, <1>5, <1>6, <1>7, <1>9 DEF TransferIInv

\* No job yet.
LEMMA TransfersInitially == TransferInit => TransferIInv
<1> SUFFICES ASSUME TransferInit PROVE TransferIInv OBVIOUS
<1>1. /\ NoRow \in RowRecord /\ NoRow.state = "none" /\ NoWork \in WorkRecord /\ NoWork.pc = "none"
      BY DEF NoRow, RowRecord, NoWork, WorkRecord, Steps, Ended
<1>2. row \in [Jobs -> RowRecord] /\ \A j \in Jobs : row[j] = NoRow BY <1>1 DEF TransferInit
<1>3. work \in [Jobs -> WorkRecord] /\ \A j \in Jobs : work[j] = NoWork BY <1>1 DEF TransferInit
<1>4. req \in [Callers -> ReqRecord] /\ \A c \in Callers : req[c] = IdleReq BY IdleIsRequest DEF TransferInit
<1>5. files = {} /\ live = {} /\ up = TRUE /\ faults = 0 /\ crashes = 0 /\ marred = {} /\ asked = {} BY DEF TransferInit
<1>6. TransferTypeOK
      BY <1>2, <1>3, <1>4, <1>5, TransferAssumption DEF TransferTypeOK, RowRecord, WorkRecord, ReqRecord, Steps
<1>7. ReqsOK BY <1>4, IdleIsRequest DEF ReqsOK
<1>8. ASSUME NEW j \in Jobs PROVE JobOK(j)
      BY <1>1, <1>2, <1>3, <1>5 DEF JobOK, JobShape, WorkOK, RowOK, HeldOK, DownloadOK
<1>9. HistoryCapped
  <2>1. EndedRows = {} BY <1>1, <1>2 DEF EndedRows, Terminal
  <2>2. Cardinality(EndedRows) = 0 BY <2>1, FS_EmptySet
  <2>3. Cardinality(EndedRows) =< MaxHistory + Cardinality(Settling) + Cardinality(Releasing)
        BY <2>2, HistoryFinite, TransferAssumption
  <2> QED BY <2>3 DEF HistoryCapped, EndedRows, Settling, Releasing
<1> QED BY <1>5, <1>6, <1>7, <1>8, <1>9 DEF TransferIInv, JobsOK

\* One step.
LEMMA TransferStep == TransferIInv /\ [TransferNext]_transferVars => TransferIInv'
<1> SUFFICES ASSUME TransferIInv, [TransferNext]_transferVars PROVE TransferIInv' OBVIOUS
<1>1. CASE UNCHANGED transferVars
  <2>1. /\ row' = row /\ files' = files /\ live' = live /\ work' = work /\ req' = req /\ up' = up /\ faults' = faults
        /\ crashes' = crashes /\ marred' = marred /\ asked' = asked
        BY <1>1 DEF transferVars, disk, history
  <2>2. TransferTypeOK' /\ ReqsOK' /\ HistoryCapped' BY <2>1 DEF TransferIInv, TransferTypeOK, ReqsOK, HistoryCapped
  <2>3. JobsOK' BY <2>1 DEF TransferIInv, JobsOK, JobOK
  <2> QED BY <2>1, <2>2, <2>3 DEF TransferIInv
<1>2. ASSUME NEW j \in Jobs, Create(j) \/ Goroutine(j) \/ Hangs(j) PROVE TransferIInv'
      BY <1>2, CreateKeeps, RegisterKeeps, CreateTempKeeps, ReceiveKeeps, SetTempPathKeeps, BeginKeeps, OpenKeeps,
         CopyKeeps, HangsKeeps, CheckKeeps, PersistStateKeeps, SettleKeeps, UnwindKeeps
      DEF Goroutine
<1>3. ASSUME NEW c \in Callers, Request(c) PROVE TransferIInv'
      BY <1>3, CancelLookupKeeps, CancelSignalKeeps, CancelMarkKeeps, CancelReleaseKeeps, DeleteGetKeeps,
         DeleteCleanKeeps, DeleteRemoveKeeps
      DEF Request
<1>4. CASE Crash BY <1>4, CrashKeeps
<1>5. CASE Restart BY <1>5, RestartKeeps
<1> QED BY <1>1, <1>2, <1>3, <1>4, <1>5 DEF TransferNext

\* What the invariant says of goroutines and handles.
LEMMA WorkersImplied == TransferIInv => WorkersOwnJobs
<1> SUFFICES ASSUME TransferIInv PROVE WorkersOwnJobs OBVIOUS
<1>1. ActiveHasWorker
  <2> SUFFICES ASSUME NEW j \in Jobs, up, row[j].state \in ActiveStates, work[j].pc \in Ended PROVE j \in marred
      BY DEF ActiveHasWorker
  <2>1. up = TRUE BY TransferTypes DEF TransferIInv
  <2>2. row[j].state # "none" BY DEF ActiveStates
  <2> QED BY <2>1, <2>2, Shapes DEF RowOK, Ended
<1>2. HandlesReleased
  <2> SUFFICES ASSUME NEW j \in live PROVE work[j].pc \notin Ended BY DEF HandlesReleased
  <2>1. j \in Jobs BY TypesNow
  <2> QED BY <2>1, Shapes DEF HeldOK
<1> QED BY <1>1, <1>2 DEF WorkersOwnJobs, TransferIInv

\* What it says of files and the history.
LEMMA FilesImpliedByJobs == TransferIInv => FilesAccounted
<1> SUFFICES ASSUME TransferIInv PROVE FilesAccounted OBVIOUS
<1>1. CompletedServable
  <2> SUFFICES ASSUME NEW j \in Downloads, j \notin asked, j \notin marred, row[j].state = "completed"
               PROVE  row[j].temp /\ j \in files
      BY DEF CompletedServable
  <2>1. j \in Jobs BY DEF Jobs
  <2>2. row[j].temp = TRUE /\ j \in files BY <2>1, Shapes DEF DownloadOK
  <2> QED BY <2>2
<1>2. StagingReclaimed
  <2> SUFFICES ASSUME NEW j \in files, work[j].pc = "done" PROVE j \in Downloads /\ work[j].job = "completed"
      BY DEF StagingReclaimed
  <2>1. j \in Jobs BY TypesNow
  <2> QED BY <2>1, Shapes DEF HeldOK
<1> QED BY <1>1, <1>2 DEF FilesAccounted, TransferIInv

\* Every job in progress has the goroutine that will settle it, and no handle outlives its
\* goroutine, for any number of jobs, requests, lost writes and crashes.
THEOREM WorkersAlwaysOwnJobs == TransferSpec => []WorkersOwnJobs
<1>1. TransferInit => TransferIInv BY TransfersInitially
<1>2. TransferIInv /\ [TransferNext]_transferVars => TransferIInv' BY TransferStep
<1>3. TransferIInv => WorkersOwnJobs BY WorkersImplied
<1> QED BY <1>1, <1>2, <1>3, PTL DEF TransferSpec

\* A completed download can be served, staged files are reclaimed and the history is capped.
THEOREM FilesAreAccounted == TransferSpec => []FilesAccounted
<1>1. TransferInit => TransferIInv BY TransfersInitially
<1>2. TransferIInv /\ [TransferNext]_transferVars => TransferIInv' BY TransferStep
<1>3. TransferIInv => FilesAccounted BY FilesImpliedByJobs
<1> QED BY <1>1, <1>2, <1>3, PTL DEF TransferSpec

--------------------------------------------------------------------------------
(* The Telnet filter (TelnetIac).                                           *)

\* Induction over the naturals, for a set.
LEMMA CountUp ==
  ASSUME NEW T, 0 \in T, \A n \in Nat : n \in T => n + 1 \in T
  PROVE  Nat \subseteq T
<1> SUFFICES ASSUME Nat \ T # {} PROVE FALSE
    OBVIOUS
<1>1. PICK n \in Nat \ T : \A m \in Nat \ T : ~(<<m, n>> \in OpToRel(<, Nat))
      BY NatLessThanWellFounded, WFMin
<1>2. n # 0 /\ n - 1 \in Nat /\ (n - 1) + 1 = n
      OBVIOUS
<1>3. <<n - 1, n>> \in OpToRel(<, Nat)
      BY <1>2 DEF OpToRel
<1> QED BY <1>1, <1>2, <1>3

Undecoded == [mode |-> "text", out |-> << >>, replies |-> << >>]
DecoderBody(s, f, n) == IF n = 0 THEN Undecoded ELSE DecodeStep(f[n - 1], s[n])

\* The decoder is well defined on any stream.
LEMMA DecoderRuns ==
  ASSUME NEW s, Len(s) \in Nat
  PROVE  /\ DecodedUpTo(s)[0] = Undecoded
         /\ \A n \in 1 .. Len(s) : DecodedUpTo(s)[n] = DecodeStep(DecodedUpTo(s)[n - 1], s[n])
<1> DEFINE T == {m \in Nat : \E f : f = [n \in 0..m |-> DecoderBody(s, f, n)]}
<1>1. 0 \in T
  <2>1. [n \in 0..0 |-> Undecoded] = [n \in 0..0 |-> DecoderBody(s, [k \in 0..0 |-> Undecoded], n)]
        BY DEF DecoderBody
  <2> QED BY <2>1
<1>2. ASSUME NEW m \in Nat, m \in T PROVE m + 1 \in T
  <2>1. PICK f : f = [n \in 0..m |-> DecoderBody(s, f, n)] BY <1>2
  <2> DEFINE g == [n \in 0..(m + 1) |-> IF n = m + 1 THEN DecoderBody(s, f, n) ELSE f[n]]
  <2>2. \A n \in 0..m : g[n] = f[n] OBVIOUS
  <2>3. ASSUME NEW n \in 0..(m + 1) PROVE g[n] = DecoderBody(s, g, n)
    <3>1. DecoderBody(s, g, n) = DecoderBody(s, f, n)
      <4>1. CASE n = 0 BY <4>1 DEF DecoderBody
      <4>2. CASE n # 0
        <5>1. n - 1 \in 0..m BY <4>2
        <5>2. g[n - 1] = f[n - 1] BY <5>1, <2>2
        <5> HIDE DEF g
        <5> QED BY <5>2 DEF DecoderBody
      <4> QED BY <4>1, <4>2
    <3>2. n # m + 1 => f[n] = DecoderBody(s, f, n)
      <4> SUFFICES ASSUME n # m + 1 PROVE f[n] = DecoderBody(s, f, n)
          OBVIOUS
      <4>1. n \in 0..m OBVIOUS
      <4> QED BY <4>1, <2>1
    <3> QED BY <3>1, <3>2
  <2>4. g = [n \in 0..(m + 1) |-> DecoderBody(s, g, n)]
    <3>1. g = [n \in 0..(m + 1) |-> g[n]] OBVIOUS
    <3> HIDE DEF g
    <3> QED BY <3>1, <2>3
  <2> HIDE DEF g
  <2> QED BY <2>4
<1>3. Len(s) \in T
  <2> HIDE DEF T
  <2> QED BY <1>1, <1>2, CountUp
<1>4. \E f : f = [n \in 0..Len(s) |-> DecoderBody(s, f, n)] BY <1>3
<1> DEFINE d == DecodedUpTo(s)
<1>5. d = [n \in 0..Len(s) |-> DecoderBody(s, d, n)] BY <1>4, Zenon DEF DecodedUpTo, DecoderBody, Undecoded
<1> HIDE DEF d
<1>6. d[0] = Undecoded BY <1>5 DEF DecoderBody
<1>7. ASSUME NEW n \in 1 .. Len(s) PROVE d[n] = DecodeStep(d[n - 1], s[n])
  <2>1. n \in 0..Len(s) /\ n # 0 OBVIOUS
  <2>2. d[n] = DecoderBody(s, d, n) BY <1>5, <2>1
  <2> QED BY <2>1, <2>2 DEF DecoderBody
<1> QED BY <1>6, <1>7 DEF d

\* What the loop does at i, with f the result from each later place on.
FilterBody(b, f, i) ==
  CASE i > Len(b)       -> Nothing(b, i)
    [] i <= Len(b) /\ b[i] # "IAC" -> [f[i + 1] EXCEPT !.out = <<b[i]>> \o @]
    [] i = Len(b) /\ b[i] = "IAC"  -> Cut(b, i)
    [] i < Len(b) /\ b[i] = "IAC"  ->
         CASE b[i + 1] = "IAC" -> [f[i + 2] EXCEPT !.out = <<"IAC">> \o @]
           [] b[i + 1] \in Negotiations ->
                IF i + 2 > Len(b) THEN Cut(b, i)
                ELSE [f[i + 3] EXCEPT !.replies = negotiateReply(b[i + 1], b[i + 2]) \o @]
           [] b[i + 1] = "SB" ->
                IF AfterSE(b, i + 2) > Len(b) THEN Cut(b, i) ELSE f[AfterSE(b, i + 2)]
           [] OTHER -> f[i + 2]

\* The ends of the subnegotiation whose payload starts at i.
SubnegEnds(b, i) == {k \in i .. Len(b) - 1 : b[k] = "IAC" /\ b[k + 1] = "SE"}

\* AfterSE is the place after the first of them.
LEMMA FirstEnd ==
  ASSUME NEW b, Len(b) \in Nat, NEW i \in Nat
  PROVE  /\ SubnegEnds(b, i) = {} => AfterSE(b, i) = Len(b) + 1
         /\ SubnegEnds(b, i) # {} => \E e \in SubnegEnds(b, i) : AfterSE(b, i) = e + 2 /\ \A k \in SubnegEnds(b, i) : e <= k
<1> DEFINE E == SubnegEnds(b, i)
           X == {e + 2 : e \in E}
<1>1. E \subseteq Nat BY DEF SubnegEnds
<1>2. AfterSE(b, i) = IF E = {} THEN Len(b) + 1 ELSE CHOOSE k \in X : \A e \in E : k <= e + 2
      BY DEF AfterSE, SubnegEnds
<1> HIDE DEF E
<1>3. ASSUME E # {} PROVE \E e \in E : AfterSE(b, i) = e + 2 /\ \A k \in E : e <= k
  <2>1. PICK e \in E : \A k \in E : ~(<<k, e>> \in OpToRel(<, Nat))
        BY <1>1, <1>3, NatLessThanWellFounded, WFMin
  <2>2. \A k \in E : e <= k
    <3> SUFFICES ASSUME NEW k \in E, k < e PROVE FALSE
        BY <1>1
    <3>1. <<k, e>> \in OpToRel(<, Nat) BY <1>1 DEF OpToRel
    <3> QED BY <2>1, <3>1
  <2>3. e + 2 \in X /\ \A k \in E : e + 2 <= k + 2 BY <1>1, <2>2
  <2>4. AfterSE(b, i) \in X /\ \A k \in E : AfterSE(b, i) <= k + 2
    <3> DEFINE Q(k) == k \in X /\ \A x \in E : k <= x + 2
    <3>1. \E k : Q(k) BY <2>3
    <3>2. AfterSE(b, i) = CHOOSE k : Q(k) BY <1>2, <1>3
    <3> HIDE DEF Q
    <3>3. Q(AfterSE(b, i)) BY <3>1, <3>2
    <3> QED BY <3>3 DEF Q
  <2>5. PICK h \in E : AfterSE(b, i) = h + 2 BY <2>4
  <2>6. \A k \in E : h <= k BY <1>1, <2>4, <2>5
  <2> QED BY <2>5, <2>6
<1> QED BY <1>2, <1>3 DEF E

\* The loop looks ahead only.
LEMMA FilterLooksAhead ==
  ASSUME NEW b, Len(b) \in Nat, NEW i \in 1 .. Len(b) + 1, NEW f, NEW g,
         \A j \in (i + 1) .. (Len(b) + 1) : f[j] = g[j]
  PROVE  FilterBody(b, f, i) = FilterBody(b, g, i)
<1>1. CASE i > Len(b) BY <1>1 DEF FilterBody
<1>2. CASE i <= Len(b) /\ b[i] # "IAC"
  <2>1. f[i + 1] = g[i + 1] BY <1>2
  <2> QED BY <1>2, <2>1 DEF FilterBody
<1>3. CASE i = Len(b) /\ b[i] = "IAC" BY <1>3 DEF FilterBody
<1>4. CASE i < Len(b) /\ b[i] = "IAC"
  <2>1. f[i + 2] = g[i + 2] /\ (i + 2 <= Len(b) => f[i + 3] = g[i + 3]) BY <1>4
  <2>2. AfterSE(b, i + 2) <= Len(b) => f[AfterSE(b, i + 2)] = g[AfterSE(b, i + 2)]
    <3>1. CASE SubnegEnds(b, i + 2) = {} BY <3>1, FirstEnd
    <3>2. CASE SubnegEnds(b, i + 2) # {}
      <4>1. PICK e \in SubnegEnds(b, i + 2) : AfterSE(b, i + 2) = e + 2 BY <3>2, FirstEnd
      <4> QED BY <4>1 DEF SubnegEnds
    <3> QED BY <3>1, <3>2
  <2>3. AfterSE(b, i + 2) \in Int
    <3>1. CASE SubnegEnds(b, i + 2) = {} BY <3>1, FirstEnd
    <3>2. CASE SubnegEnds(b, i + 2) # {}
      <4>1. PICK e \in SubnegEnds(b, i + 2) : AfterSE(b, i + 2) = e + 2 BY <3>2, FirstEnd
      <4> QED BY <4>1 DEF SubnegEnds
    <3> QED BY <3>1, <3>2
  <2>4. ~(AfterSE(b, i + 2) > Len(b)) => AfterSE(b, i + 2) <= Len(b) BY <2>3
  <2>5. ~(i + 2 > Len(b)) => i + 2 <= Len(b) OBVIOUS
  <2>6. CASE b[i + 1] = "IAC" BY <1>4, <2>1, <2>6 DEF FilterBody
  <2>7. CASE b[i + 1] \in Negotiations BY <1>4, <2>1, <2>5, <2>7 DEF FilterBody, Negotiations
  <2>8. CASE b[i + 1] = "SB" BY <1>4, <2>2, <2>4, <2>8 DEF FilterBody, Negotiations
  <2>9. CASE b[i + 1] \notin Negotiations \cup {"IAC", "SB"} BY <1>4, <2>1, <2>9 DEF FilterBody
  <2> QED BY <2>6, <2>7, <2>8, <2>9
<1> QED BY <1>1, <1>2, <1>3, <1>4

\* Past the end there is nothing.
LEMMA PastTheEnd ==
  ASSUME NEW b, Len(b) \in Nat, NEW i \in Int, i > Len(b), NEW f
  PROVE  FilterBody(b, f, i) = Nothing(b, i)
<1>1. ~(i <= Len(b)) /\ i # Len(b) /\ ~(i < Len(b)) OBVIOUS
<1> QED BY <1>1 DEF FilterBody

\* The loop is well defined on any buffer.
LEMMA FilterRuns ==
  ASSUME NEW b, Len(b) \in Nat
  PROVE  \A i \in 1 .. Len(b) + 1 : FilteredFrom(b)[i] = FilterBody(b, FilteredFrom(b), i)
<1> DEFINE N == Len(b) + 1
           T == {m \in Nat : m <= Len(b) => \E f : f = [i \in (N - m) .. N |-> FilterBody(b, f, i)]}
<1>1. 0 \in T
  <2> DEFINE g == [i \in (N - 0) .. N |-> Nothing(b, i)]
  <2>1. \A i \in (N - 0) .. N : i > Len(b) OBVIOUS
  <2>2. ASSUME NEW i \in (N - 0) .. N PROVE g[i] = FilterBody(b, g, i)
    <3>1. i > Len(b) /\ i \in Int BY <2>1
    <3>2. FilterBody(b, g, i) = Nothing(b, i) BY <3>1, PastTheEnd
    <3> QED BY <3>2
  <2>3. g = [i \in (N - 0) .. N |-> g[i]] OBVIOUS
  <2> HIDE DEF g, N
  <2>4. g = [i \in (N - 0) .. N |-> FilterBody(b, g, i)] BY <2>2, <2>3
  <2> QED BY <2>4
<1>2. ASSUME NEW m \in Nat, m \in T PROVE m + 1 \in T
  <2> SUFFICES ASSUME m + 1 <= Len(b) PROVE \E f : f = [i \in (N - (m + 1)) .. N |-> FilterBody(b, f, i)]
      OBVIOUS
  <2> DEFINE z == N - (m + 1)
  <2>0. z \in 1 .. Len(b) /\ z + 1 = N - m /\ N \in Nat /\ N = Len(b) + 1 OBVIOUS
  <2>1. PICK f : f = [i \in (N - m) .. N |-> FilterBody(b, f, i)] BY <1>2
  <2> HIDE DEF z, N, T
  <2> DEFINE g == [i \in z .. N |-> IF i = z THEN FilterBody(b, f, i) ELSE f[i]]
  <2>2. \A i \in (z + 1) .. N : g[i] = f[i] BY <2>0
  <2>3. ASSUME NEW i \in z .. N PROVE g[i] = FilterBody(b, g, i)
    <3>1. i \in 1 .. Len(b) + 1 /\ \A j \in (i + 1) .. (Len(b) + 1) : j \in (z + 1) .. N BY <2>0
    <3>2. \A j \in (i + 1) .. (Len(b) + 1) : f[j] = g[j] BY <2>2, <3>1
    <3> HIDE DEF g
    <3>3. FilterBody(b, g, i) = FilterBody(b, f, i) BY <3>1, <3>2, FilterLooksAhead
    <3>4. i # z => f[i] = FilterBody(b, f, i)
      <4> SUFFICES ASSUME i # z PROVE f[i] = FilterBody(b, f, i)
          OBVIOUS
      <4>1. i \in (N - m) .. N BY <2>0
      <4> QED BY <4>1, <2>1
    <3> QED BY <3>3, <3>4 DEF g
  <2>4. g = [i \in z .. N |-> g[i]] OBVIOUS
  <2> HIDE DEF g
  <2>5. g = [i \in z .. N |-> FilterBody(b, g, i)] BY <2>3, <2>4
  <2> QED BY <2>5 DEF z
<1>3. Len(b) \in T
  <2> HIDE DEF T
  <2> QED BY <1>1, <1>2, CountUp
<1>4. \E f : f = [i \in 1 .. Len(b) + 1 |-> FilterBody(b, f, i)]
  <2>1. N - Len(b) = 1 OBVIOUS
  <2> QED BY <1>3, <2>1
<1> DEFINE h == FilteredFrom(b)
<1>5. h = [i \in 1 .. Len(b) + 1 |-> FilterBody(b, h, i)] BY <1>4 DEF FilteredFrom, FilterBody
<1> HIDE DEF h
<1>6. \A i \in 1 .. Len(b) + 1 : h[i] = FilterBody(b, h, i) BY <1>5
<1> QED BY <1>6 DEF h

Text == Seq(Octets \cup {"IAC"})
Answer == ({"WILL", "WONT", "DO", "DONT"} \X Octets) \cup {<<"SIZE">>}
Modes == {"text", "IAC", "SB", "SB IAC"} \cup Negotiations
DecoderRecord == [mode : Modes, out : Text, replies : Seq(Answer)]

\* An answer is well formed.
LEMMA ReplyTyped ==
  ASSUME NEW c \in Negotiations, NEW x \in Octets
  PROVE  negotiateReply(c, x) \in Seq(Answer)
<1> DEFINE verb == CASE c = "DO"   -> IF x \in Supported THEN "WILL" ELSE "WONT"
                     [] c = "DONT" -> "WONT"
                     [] c = "WILL" -> IF x \in {"ECHO", "SGA"} THEN "DO" ELSE "DONT"
                     [] c = "WONT" -> "DONT"
<1>1. verb \in {"WILL", "WONT", "DO", "DONT"} BY DEF Negotiations
<1>2. negotiateReply(c, x) = IF verb = "WILL" /\ x = "NAWS" THEN <<<<verb, x>>, <<"SIZE">>>> ELSE <<<<verb, x>>>>
      BY DEF negotiateReply
<1> HIDE DEF verb
<1>3. <<verb, x>> \in Answer /\ <<"SIZE">> \in Answer BY <1>1 DEF Answer
<1> HIDE DEF Answer
<1>4. <<<<verb, x>>, <<"SIZE">>>> \in Seq(Answer) /\ <<<<verb, x>>>> \in Seq(Answer) BY <1>3
<1> QED BY <1>2, <1>4

Same(d, e) == e.out = d.out /\ e.replies = d.replies

\* The decoder, mode by mode.
LEMMA StepFacts ==
  ASSUME NEW d \in DecoderRecord, NEW x \in Octets
  PROVE  /\ d.mode = "text" /\ x = "IAC" => DecodeStep(d, x).mode = "IAC" /\ Same(d, DecodeStep(d, x))
         /\ d.mode = "text" /\ x # "IAC" => /\ DecodeStep(d, x).mode = "text"
                                            /\ DecodeStep(d, x).out = Append(d.out, x)
                                            /\ DecodeStep(d, x).replies = d.replies
         /\ d.mode = "IAC" /\ x = "IAC" => /\ DecodeStep(d, x).mode = "text"
                                           /\ DecodeStep(d, x).out = Append(d.out, "IAC")
                                           /\ DecodeStep(d, x).replies = d.replies
         /\ d.mode = "IAC" /\ x \in Negotiations \cup {"SB"} => DecodeStep(d, x).mode = x /\ Same(d, DecodeStep(d, x))
         /\ d.mode = "IAC" /\ x \notin Negotiations \cup {"SB", "IAC"} =>
              DecodeStep(d, x).mode = "text" /\ Same(d, DecodeStep(d, x))
         /\ d.mode \in Negotiations => /\ DecodeStep(d, x).mode = "text" /\ DecodeStep(d, x).out = d.out
                                       /\ DecodeStep(d, x).replies = d.replies \o negotiateReply(d.mode, x)
         /\ d.mode = "SB" => /\ DecodeStep(d, x).mode = IF x = "IAC" THEN "SB IAC" ELSE "SB"
                             /\ Same(d, DecodeStep(d, x))
         /\ d.mode = "SB IAC" =>
              /\ DecodeStep(d, x).mode = IF x = "SE" THEN "text" ELSE IF x = "IAC" THEN "SB IAC" ELSE "SB"
              /\ Same(d, DecodeStep(d, x))
         /\ DecodeStep(d, x) \in DecoderRecord
<1> DEFINE e == DecodeStep(d, x)
<1>0. d.out \in Text /\ d.replies \in Seq(Answer) BY DEF DecoderRecord
<1>1. CASE d.mode = "text"
  <2>1. e = IF x = "IAC" THEN [d EXCEPT !.mode = "IAC"] ELSE [d EXCEPT !.out = Append(d.out, x)] BY <1>1 DEF DecodeStep, Negotiations
  <2>2. Append(d.out, x) \in Text BY <1>0 DEF Text
  <2> QED BY <1>0, <1>1, <2>1, <2>2 DEF DecoderRecord, Modes, Negotiations, Same
<1>2. CASE d.mode = "IAC"
  <2>1. Append(d.out, "IAC") \in Text BY <1>0 DEF Text
  <2>2. CASE x = "IAC"
    <3>1. e = [d EXCEPT !.mode = "text", !.out = Append(d.out, "IAC")] BY <1>2, <2>2 DEF DecodeStep, Negotiations
    <3> QED BY <1>0, <1>2, <2>1, <2>2, <3>1 DEF DecoderRecord, Modes, Negotiations, Same
  <2>3. CASE x \in Negotiations \cup {"SB"}
    <3>1. e = [d EXCEPT !.mode = x] BY <1>2, <2>3 DEF DecodeStep, Negotiations
    <3> QED BY <1>0, <1>2, <2>3, <3>1 DEF DecoderRecord, Modes, Negotiations, Same
  <2>4. CASE x \notin Negotiations \cup {"SB", "IAC"}
    <3>1. e = [d EXCEPT !.mode = "text"] BY <1>2, <2>4 DEF DecodeStep, Negotiations
    <3> QED BY <1>0, <1>2, <2>4, <3>1 DEF DecoderRecord, Modes, Negotiations, Same
  <2> QED BY <2>2, <2>3, <2>4
<1>3. CASE d.mode \in Negotiations
  <2>1. e = [d EXCEPT !.mode = "text", !.replies = d.replies \o negotiateReply(d.mode, x)]
        BY <1>3 DEF DecodeStep, Negotiations
  <2>2. negotiateReply(d.mode, x) \in Seq(Answer) BY <1>3, ReplyTyped
  <2> DEFINE n == negotiateReply(d.mode, x)
  <2>3. d.replies \o n \in Seq(Answer) BY <1>0, <2>2
  <2> HIDE DEF n
  <2>4. e = [d EXCEPT !.mode = "text", !.replies = d.replies \o n] BY <2>1 DEF n
  <2>5. e \in DecoderRecord /\ e.mode = "text" /\ e.out = d.out /\ e.replies = d.replies \o n
        BY <1>0, <2>3, <2>4 DEF DecoderRecord, Modes
  <2> QED BY <1>3, <2>5 DEF Negotiations, n
<1>4. CASE d.mode = "SB"
  <2>1. e = IF x = "IAC" THEN [d EXCEPT !.mode = "SB IAC"] ELSE d BY <1>4 DEF DecodeStep, Negotiations
  <2> QED BY <1>0, <1>4, <2>1 DEF DecoderRecord, Modes, Negotiations, Same
<1>5. CASE d.mode = "SB IAC"
  <2>1. e = [d EXCEPT !.mode = IF x = "SE" THEN "text" ELSE IF x = "IAC" THEN "SB IAC" ELSE "SB"]
        BY <1>5 DEF DecodeStep, Negotiations
  <2> QED BY <1>0, <1>5, <2>1 DEF DecoderRecord, Modes, Negotiations, Same
<1>6. d.mode \in {"text", "IAC", "SB", "SB IAC"} \cup Negotiations BY DEF DecoderRecord, Modes
<1> QED BY <1>1, <1>2, <1>3, <1>4, <1>5, <1>6

\* The decoder keeps its types, and has seen of a longer stream what it had seen of its beginning.
LEMMA DecoderFacts ==
  ASSUME NEW s \in Seq(Octets)
  PROVE  /\ \A n \in 0 .. Len(s) : DecodedUpTo(s)[n] \in DecoderRecord
         /\ \A t \in Seq(Octets) : Len(s) <= Len(t) /\ (\A k \in 1 .. Len(s) : t[k] = s[k]) =>
              \A n \in 0 .. Len(s) : DecodedUpTo(t)[n] = DecodedUpTo(s)[n]
<1>1. DecodedUpTo(s)[0] = Undecoded /\ \A n \in 1 .. Len(s) : DecodedUpTo(s)[n] = DecodeStep(DecodedUpTo(s)[n - 1], s[n])
      BY DecoderRuns
<1>2. \A n \in 0 .. Len(s) : DecodedUpTo(s)[n] \in DecoderRecord
  <2> DEFINE D == DecodedUpTo(s)
             T == {n \in Nat : n <= Len(s) => D[n] \in DecoderRecord}
  <2>1. Undecoded \in DecoderRecord BY DEF Undecoded, DecoderRecord, Modes, Text
  <2>2. 0 \in T BY <1>1, <2>1
  <2>3. ASSUME NEW n \in Nat, n \in T PROVE n + 1 \in T
    <3> SUFFICES ASSUME n + 1 <= Len(s) PROVE D[n + 1] \in DecoderRecord
        OBVIOUS
    <3>1. D[n] \in DecoderRecord /\ s[n + 1] \in Octets BY <2>3
    <3>2. D[n + 1] = DecodeStep(D[n], s[n + 1]) BY <1>1
    <3> HIDE DEF D
    <3>3. DecodeStep(D[n], s[n + 1]) \in DecoderRecord BY <3>1, StepFacts
    <3> QED BY <3>2, <3>3
  <2>4. Nat \subseteq T
    <3> HIDE DEF T
    <3> QED BY <2>2, <2>3, CountUp
  <2> QED BY <2>4
<1>3. ASSUME NEW t \in Seq(Octets), Len(s) <= Len(t), \A k \in 1 .. Len(s) : t[k] = s[k]
      PROVE  \A n \in 0 .. Len(s) : DecodedUpTo(t)[n] = DecodedUpTo(s)[n]
  <2> DEFINE D == DecodedUpTo(s)
             C == DecodedUpTo(t)
             T == {n \in Nat : n <= Len(s) => C[n] = D[n]}
  <2>1. C[0] = Undecoded /\ \A n \in 1 .. Len(t) : C[n] = DecodeStep(C[n - 1], t[n]) BY DecoderRuns
  <2>2. 0 \in T BY <1>1, <2>1
  <2>3. ASSUME NEW n \in Nat, n \in T PROVE n + 1 \in T
    <3> SUFFICES ASSUME n + 1 <= Len(s) PROVE C[n + 1] = D[n + 1]
        OBVIOUS
    <3>1. C[n] = D[n] /\ s[n + 1] = t[n + 1] BY <1>3, <2>3
    <3>2. D[n + 1] = DecodeStep(D[n], s[n + 1]) BY <1>1
    <3>3. C[n + 1] = DecodeStep(C[n], t[n + 1]) BY <1>3, <2>1
    <3> HIDE DEF C, D
    <3> QED BY <3>1, <3>2, <3>3
  <2>4. Nat \subseteq T
    <3> HIDE DEF T
    <3> QED BY <2>2, <2>3, CountUp
  <2> QED BY <2>4
<1> QED BY <1>2, <1>3

\* Inside a subnegotiation the decoder waits for IAC SE and changes nothing else.
LEMMA SubnegotiationRuns ==
  ASSUME NEW s \in Seq(Octets), NEW p \in 1 .. Len(s), DecodedUpTo(s)[p].mode = "SB",
         NEW q \in p .. Len(s),
         \A e \in (p + 1) .. (q - 1) : ~(s[e] = "IAC" /\ s[e + 1] = "SE")
  PROVE  /\ DecodedUpTo(s)[q].mode = IF q > p /\ s[q] = "IAC" THEN "SB IAC" ELSE "SB"
         /\ Same(DecodedUpTo(s)[p], DecodedUpTo(s)[q])
<1> DEFINE D == DecodedUpTo(s)
           Inside(k) == /\ D[k].mode = IF k > p /\ s[k] = "IAC" THEN "SB IAC" ELSE "SB"
                        /\ Same(D[p], D[k])
           T == {n \in Nat : p + n <= q => Inside(p + n)}
<1>1. \A n \in 0 .. Len(s) : D[n] \in DecoderRecord BY DecoderFacts
<1>2. \A n \in 1 .. Len(s) : D[n] = DecodeStep(D[n - 1], s[n]) BY DecoderRuns
<1> HIDE DEF D
<1>3. 0 \in T
  <2>1. p + 0 = p OBVIOUS
  <2>2. Inside(p) BY DEF D, Same
  <2> HIDE DEF Inside
  <2> QED BY <2>1, <2>2
<1>4. ASSUME NEW n \in Nat, n \in T PROVE n + 1 \in T
  <2> HIDE DEF Inside
  <2> SUFFICES ASSUME p + (n + 1) <= q PROVE Inside(p + (n + 1))
      OBVIOUS
  <2> DEFINE k == p + n
  <2>1. k \in p .. (q - 1) /\ k \in 0 .. Len(s) /\ k + 1 \in 1 .. Len(s) /\ p + (n + 1) = k + 1 /\ (k + 1) - 1 = k
        OBVIOUS
  <2>2. Inside(k) BY <1>4, <2>1
  <2> HIDE DEF k
  <2>3. D[k] \in DecoderRecord /\ s[k + 1] \in Octets /\ D[k + 1] = DecodeStep(D[k], s[k + 1])
        BY <1>1, <1>2, <2>1
  <2>4. k > p /\ s[k] = "IAC" => s[k + 1] # "SE" BY <2>1
  <2>5. Same(D[k], D[k + 1]) /\ D[k + 1].mode = IF s[k + 1] = "IAC" THEN "SB IAC" ELSE "SB"
    <3>1. CASE k > p /\ s[k] = "IAC"
      <4>1. D[k].mode = "SB IAC" BY <2>2, <3>1 DEF Inside
      <4>2. /\ DecodeStep(D[k], s[k + 1]).mode =
                 IF s[k + 1] = "SE" THEN "text" ELSE IF s[k + 1] = "IAC" THEN "SB IAC" ELSE "SB"
            /\ Same(D[k], DecodeStep(D[k], s[k + 1]))
            BY <2>3, <4>1, StepFacts
      <4> QED BY <2>3, <2>4, <3>1, <4>2
    <3>2. CASE ~(k > p /\ s[k] = "IAC")
      <4>1. D[k].mode = "SB" BY <2>2, <3>2 DEF Inside
      <4>2. /\ DecodeStep(D[k], s[k + 1]).mode = IF s[k + 1] = "IAC" THEN "SB IAC" ELSE "SB"
            /\ Same(D[k], DecodeStep(D[k], s[k + 1]))
            BY <2>3, <4>1, StepFacts
      <4> QED BY <2>3, <4>2
    <3> QED BY <3>1, <3>2
  <2>6. k + 1 > p BY <2>1
  <2> QED BY <2>1, <2>2, <2>5, <2>6 DEF Same, Inside
<1>5. Nat \subseteq T
  <2> HIDE DEF T
  <2> QED BY <1>3, <1>4, CountUp
<1>6. q - p \in Nat /\ p + (q - p) = q OBVIOUS
<1>7. Inside(q)
  <2>1. q - p \in T
    <3> HIDE DEF T
    <3> QED BY <1>5, <1>6
  <2> HIDE DEF Inside
  <2>2. p + (q - p) <= q BY <1>6
  <2>3. Inside(p + (q - p)) BY <2>1, <2>2
  <2> QED BY <1>6, <2>3
<1> QED BY <1>7 DEF D

\* Of a buffer b that is the end of the stream s: the decoder before b[i].

Before(b, s, i) == DecodedUpTo(s)[(Len(s) - Len(b)) + (i - 1)]
IsEndOf(b, s) == Len(b) <= Len(s) /\ \A k \in 1 .. Len(b) : b[k] = s[(Len(s) - Len(b)) + k]

\* From i on the loop puts out and answers what the decoder does, and what it keeps is the
\* end of the stream from a place m where the decoder was in the text and since which it has
\* put out and answered nothing.
Caught(b, s, i) ==
  Before(b, s, i).mode = "text" =>
    \E m \in i .. Len(b) + 1, o \in Text, a \in Seq(Answer) :
      /\ FilteredFrom(b)[i] = [out |-> o, replies |-> a, rest |-> SubSeq(b, m, Len(b))]
      /\ Before(b, s, m).mode = "text"
      /\ Before(b, s, m).out = Before(b, s, i).out \o o
      /\ Before(b, s, m).replies = Before(b, s, i).replies \o a
      /\ Same(Before(b, s, m), Before(b, s, Len(b) + 1))

\* Joining with nothing.
LEMMA ConcatFacts ==
  ASSUME NEW S, NEW x \in Seq(S)
  PROVE  x \o << >> = x /\ << >> \o x = x
OBVIOUS

\* Joining texts is associative.
LEMMA TextJoins ==
  ASSUME NEW x \in Text, NEW y \in Text, NEW z \in Text
  PROVE  x \o y \in Text /\ (x \o y) \o z = x \o (y \o z)
<1> DEFINE S == Octets \cup {"IAC"}
<1>1. x \in Seq(S) /\ y \in Seq(S) /\ z \in Seq(S) BY DEF Text
<1> HIDE DEF S
<1>2. x \o y \in Seq(S) BY <1>1
<1>3. (x \o y) \o z = x \o (y \o z) BY <1>1, ConcatAssociative
<1> QED BY <1>2, <1>3 DEF S, Text

\* The same of answers.
LEMMA AnswersJoin ==
  ASSUME NEW x \in Seq(Answer), NEW y \in Seq(Answer), NEW z \in Seq(Answer)
  PROVE  x \o y \in Seq(Answer) /\ (x \o y) \o z = x \o (y \o z)
<1>1. x \o y \in Seq(Answer) OBVIOUS
<1>2. (x \o y) \o z = x \o (y \o z) BY ConcatAssociative
<1> QED BY <1>1, <1>2

\* A step of the loop from i to j that puts out o and answers a.
LoopSteps(b, i, j, o, a) ==
  \A p \in Text, c \in Seq(Answer) : \A r :
    FilteredFrom(b)[j] = [out |-> p, replies |-> c, rest |-> r] =>
    FilteredFrom(b)[i] = [out |-> o \o p, replies |-> a \o c, rest |-> r]

\* A field of a result replaced.
LEMMA WithField ==
  ASSUME NEW p, NEW c, NEW r, NEW v, NEW t, t = [out |-> p, replies |-> c, rest |-> r]
  PROVE  /\ [t EXCEPT !.out = v] = [out |-> v, replies |-> c, rest |-> r]
         /\ [t EXCEPT !.replies = v] = [out |-> p, replies |-> v, rest |-> r]
<1>1. [t EXCEPT !.out = v] = [out |-> v, replies |-> c, rest |-> r] OBVIOUS
<1>2. [t EXCEPT !.replies = v] = [out |-> p, replies |-> v, rest |-> r] OBVIOUS
<1> QED BY <1>1, <1>2

\* What the loop does with each command.
LEMMA LoopCases ==
  ASSUME NEW b, Len(b) \in Nat, NEW i \in 1 .. Len(b)
  PROVE  /\ b[i] # "IAC" => LoopSteps(b, i, i + 1, <<b[i]>>, << >>)
         /\ i = Len(b) /\ b[i] = "IAC" => FilteredFrom(b)[i] = Nothing(b, i)
         /\ i < Len(b) /\ b[i] = "IAC" =>
            /\ b[i + 1] = "IAC" => LoopSteps(b, i, i + 2, <<"IAC">>, << >>)
            /\ b[i + 1] \in Negotiations /\ i + 2 > Len(b) => FilteredFrom(b)[i] = Nothing(b, i)
            /\ b[i + 1] \in Negotiations /\ i + 2 <= Len(b) =>
                 LoopSteps(b, i, i + 3, << >>, negotiateReply(b[i + 1], b[i + 2]))
            /\ b[i + 1] = "SB" /\ AfterSE(b, i + 2) > Len(b) => FilteredFrom(b)[i] = Nothing(b, i)
            /\ b[i + 1] = "SB" /\ ~(AfterSE(b, i + 2) > Len(b)) =>
                 LoopSteps(b, i, AfterSE(b, i + 2), << >>, << >>)
            /\ b[i + 1] \notin Negotiations \cup {"IAC", "SB"} => LoopSteps(b, i, i + 2, << >>, << >>)
<1> DEFINE N == Len(b)
           f == FilteredFrom(b)
           G == f[i]
<1>0. i \in 1 .. Len(b) + 1 OBVIOUS
<1>1. ~(i > N) /\ i <= N /\ G = FilterBody(b, f, i) BY <1>0, FilterRuns
<1>T. \A y \in Text : << >> \o y = y BY ConcatFacts, Zenon DEF Text
<1>A. \A y \in Seq(Answer) : << >> \o y = y BY ConcatFacts, Zenon
<1> HIDE DEF f
<1>O. ASSUME NEW j, NEW q, G = [f[j] EXCEPT !.out = q \o @] PROVE LoopSteps(b, i, j, q, << >>)
  <2> SUFFICES ASSUME NEW p \in Text, NEW c \in Seq(Answer), NEW r, f[j] = [out |-> p, replies |-> c, rest |-> r]
               PROVE  G = [out |-> q \o p, replies |-> << >> \o c, rest |-> r]
      BY DEF LoopSteps, f
  <2> DEFINE t == f[j]
  <2>1. G = [t EXCEPT !.out = q \o @] /\ t = [out |-> p, replies |-> c, rest |-> r] BY <1>O
  <2> HIDE DEF t, G
  <2>2. [t EXCEPT !.out = q \o @] = [out |-> q \o p, replies |-> c, rest |-> r]
    <3>1. t.out = p BY <2>1
    <3> DEFINE v == q \o p
    <3> HIDE DEF v
    <3>2. [t EXCEPT !.out = v] = [out |-> v, replies |-> c, rest |-> r] BY <2>1, WithField
    <3> QED BY <3>1, <3>2 DEF v
  <2>3. << >> \o c = c BY <1>A
  <2> QED BY <2>1, <2>2, <2>3
<1>R. ASSUME NEW j, NEW q, G = [f[j] EXCEPT !.replies = q \o @] PROVE LoopSteps(b, i, j, << >>, q)
  <2> SUFFICES ASSUME NEW p \in Text, NEW c \in Seq(Answer), NEW r, f[j] = [out |-> p, replies |-> c, rest |-> r]
               PROVE  G = [out |-> << >> \o p, replies |-> q \o c, rest |-> r]
      BY DEF LoopSteps, f
  <2> DEFINE t == f[j]
  <2>1. G = [t EXCEPT !.replies = q \o @] /\ t = [out |-> p, replies |-> c, rest |-> r] BY <1>R
  <2> HIDE DEF t, G
  <2>2. [t EXCEPT !.replies = q \o @] = [out |-> p, replies |-> q \o c, rest |-> r]
    <3>1. t.replies = c BY <2>1
    <3> DEFINE v == q \o c
    <3> HIDE DEF v
    <3>2. [t EXCEPT !.replies = v] = [out |-> p, replies |-> v, rest |-> r] BY <2>1, WithField
    <3> QED BY <3>1, <3>2 DEF v
  <2>3. << >> \o p = p BY <1>T
  <2> QED BY <2>1, <2>2, <2>3
<1>S. ASSUME NEW j, G = f[j] PROVE LoopSteps(b, i, j, << >>, << >>)
      BY <1>T, <1>A, <1>S DEF LoopSteps, f
<1>2. ASSUME b[i] # "IAC" PROVE G = [f[i + 1] EXCEPT !.out = <<b[i]>> \o @]
      BY <1>1, <1>2 DEF FilterBody
<1>3. ASSUME i = N, b[i] = "IAC" PROVE G = Nothing(b, i)
  <2>1. ~(i < N) BY <1>3
  <2> QED BY <1>1, <1>3, <2>1, Zenon DEF FilterBody, Cut
<1>4. ASSUME i < N, b[i] = "IAC"
      PROVE  G = CASE b[i + 1] = "IAC" -> [f[i + 2] EXCEPT !.out = <<"IAC">> \o @]
                   [] b[i + 1] \in Negotiations ->
                        IF i + 2 > Len(b) THEN Nothing(b, i)
                        ELSE [f[i + 3] EXCEPT !.replies = negotiateReply(b[i + 1], b[i + 2]) \o @]
                   [] b[i + 1] = "SB" ->
                        IF AfterSE(b, i + 2) > Len(b) THEN Nothing(b, i) ELSE f[AfterSE(b, i + 2)]
                   [] OTHER -> f[i + 2]
  <2>1. i # N BY <1>4
  <2> QED BY <1>1, <1>4, <2>1 DEF FilterBody, Cut
<1> HIDE DEF G
<1>5. ASSUME i < N, b[i] = "IAC", b[i + 1] = "IAC" PROVE G = [f[i + 2] EXCEPT !.out = <<"IAC">> \o @]
      BY <1>4, <1>5 DEF Negotiations
<1>6. ASSUME i < N, b[i] = "IAC", b[i + 1] \in Negotiations
      PROVE  G = IF i + 2 > Len(b) THEN Nothing(b, i)
                ELSE [f[i + 3] EXCEPT !.replies = negotiateReply(b[i + 1], b[i + 2]) \o @]
      BY <1>4, <1>6 DEF Negotiations
<1>7. ASSUME i < N, b[i] = "IAC", b[i + 1] = "SB"
      PROVE  G = IF AfterSE(b, i + 2) > Len(b) THEN Nothing(b, i) ELSE f[AfterSE(b, i + 2)]
      BY <1>4, <1>7 DEF Negotiations
<1>8. ASSUME i < N, b[i] = "IAC", b[i + 1] \notin Negotiations \cup {"IAC", "SB"} PROVE G = f[i + 2]
      BY <1>4, <1>8 DEF Negotiations
<1>9. i + 2 <= N => ~(i + 2 > N) OBVIOUS
<1>10. b[i] # "IAC" => LoopSteps(b, i, i + 1, <<b[i]>>, << >>) BY <1>2, <1>O
<1>11. i = Len(b) /\ b[i] = "IAC" => FilteredFrom(b)[i] = Nothing(b, i) BY <1>3 DEF G, f
<1>12. ASSUME i < N, b[i] = "IAC"
       PROVE  /\ b[i + 1] = "IAC" => LoopSteps(b, i, i + 2, <<"IAC">>, << >>)
              /\ b[i + 1] \in Negotiations /\ i + 2 > Len(b) => FilteredFrom(b)[i] = Nothing(b, i)
              /\ b[i + 1] \in Negotiations /\ i + 2 <= Len(b) =>
                   LoopSteps(b, i, i + 3, << >>, negotiateReply(b[i + 1], b[i + 2]))
              /\ b[i + 1] = "SB" /\ AfterSE(b, i + 2) > Len(b) => FilteredFrom(b)[i] = Nothing(b, i)
              /\ b[i + 1] = "SB" /\ ~(AfterSE(b, i + 2) > Len(b)) =>
                   LoopSteps(b, i, AfterSE(b, i + 2), << >>, << >>)
              /\ b[i + 1] \notin Negotiations \cup {"IAC", "SB"} => LoopSteps(b, i, i + 2, << >>, << >>)
  <2>1. b[i + 1] = "IAC" => LoopSteps(b, i, i + 2, <<"IAC">>, << >>) BY <1>5, <1>12, <1>O
  <2>2. b[i + 1] \in Negotiations /\ i + 2 > Len(b) => FilteredFrom(b)[i] = Nothing(b, i)
        BY <1>6, <1>12 DEF G, f
  <2>3. b[i + 1] \in Negotiations /\ i + 2 <= Len(b) =>
          LoopSteps(b, i, i + 3, << >>, negotiateReply(b[i + 1], b[i + 2]))
        BY <1>6, <1>9, <1>12, <1>R
  <2>4. b[i + 1] = "SB" /\ AfterSE(b, i + 2) > Len(b) => FilteredFrom(b)[i] = Nothing(b, i)
        BY <1>7, <1>12 DEF G, f
  <2>5. b[i + 1] = "SB" /\ ~(AfterSE(b, i + 2) > Len(b)) => LoopSteps(b, i, AfterSE(b, i + 2), << >>, << >>)
        BY <1>7, <1>12, <1>S
  <2>6. b[i + 1] \notin Negotiations \cup {"IAC", "SB"} => LoopSteps(b, i, i + 2, << >>, << >>)
        BY <1>8, <1>12, <1>S
  <2> QED BY <2>1, <2>2, <2>3, <2>4, <2>5, <2>6
<1> QED BY <1>10, <1>11, <1>12

\* A command kept whole.
LEMMA CaughtCut ==
  ASSUME NEW b, Len(b) \in Nat, NEW s \in Seq(Octets), Len(b) <= Len(s), NEW i \in 1 .. Len(b) + 1,
         FilteredFrom(b)[i] = Nothing(b, i), Same(Before(b, s, i), Before(b, s, Len(b) + 1))
  PROVE  Caught(b, s, i)
<1> DEFINE D == Before(b, s, i)
<1>1. (Len(s) - Len(b)) + (i - 1) \in 0 .. Len(s) OBVIOUS
<1>2. D \in DecoderRecord BY <1>1, DecoderFacts DEF Before
<1>3. D.out \in Text /\ D.replies \in Seq(Answer) BY <1>2 DEF DecoderRecord
<1>4. D.out \o << >> = D.out /\ D.replies \o << >> = D.replies BY <1>3, ConcatFacts DEF Text
<1>5. << >> \in Text /\ << >> \in Seq(Answer) BY DEF Text
<1>6. i \in i .. Len(b) + 1 OBVIOUS
<1> HIDE DEF D
<1> QED BY <1>4, <1>5, <1>6 DEF Caught, Nothing, D

\* The loop and the decoder agree before such a step if they agree after it.
LEMMA CaughtStep ==
  ASSUME NEW b, Len(b) \in Nat, NEW s \in Seq(Octets), Len(b) <= Len(s),
         NEW i \in 1 .. Len(b) + 1, NEW j \in i .. Len(b) + 1,
         NEW o \in Text, NEW a \in Seq(Answer),
         LoopSteps(b, i, j, o, a),
         Before(b, s, j).mode = "text",
         Before(b, s, j).out = Before(b, s, i).out \o o,
         Before(b, s, j).replies = Before(b, s, i).replies \o a,
         Caught(b, s, j)
  PROVE  Caught(b, s, i)
<1> DEFINE D == Before(b, s, i)
           E == Before(b, s, j)
<1>1. (Len(s) - Len(b)) + (i - 1) \in 0 .. Len(s) OBVIOUS
<1>2. D \in DecoderRecord BY <1>1, DecoderFacts DEF Before
<1>3. D.out \in Text /\ D.replies \in Seq(Answer) BY <1>2 DEF DecoderRecord
<1>4. PICK m \in j .. Len(b) + 1, p \in Text, c \in Seq(Answer) :
         /\ FilteredFrom(b)[j] = [out |-> p, replies |-> c, rest |-> SubSeq(b, m, Len(b))]
         /\ Before(b, s, m).mode = "text"
         /\ Before(b, s, m).out = E.out \o p
         /\ Before(b, s, m).replies = E.replies \o c
         /\ Same(Before(b, s, m), Before(b, s, Len(b) + 1))
      BY DEF Caught
<1>5. FilteredFrom(b)[i] = [out |-> o \o p, replies |-> a \o c, rest |-> SubSeq(b, m, Len(b))] BY <1>4 DEF LoopSteps
<1>6. E.out = D.out \o o /\ E.replies = D.replies \o a OBVIOUS
<1> DEFINE x == D.out
           y == D.replies
<1> HIDE DEF D, E, x, y
<1>7. (x \o o) \o p = x \o (o \o p) /\ o \o p \in Text
  <2>1. x \in Text BY <1>3 DEF x
  <2> QED BY <2>1, TextJoins
<1>8. (y \o a) \o c = y \o (a \o c) /\ a \o c \in Seq(Answer)
  <2>1. y \in Seq(Answer) BY <1>3 DEF y
  <2> QED BY <2>1, AnswersJoin
<1>9. m \in i .. Len(b) + 1 OBVIOUS
<1>10. /\ Before(b, s, m).mode = "text"
       /\ Before(b, s, m).out = D.out \o (o \o p)
       /\ Before(b, s, m).replies = D.replies \o (a \o c)
       /\ Same(Before(b, s, m), Before(b, s, Len(b) + 1))
       BY <1>4, <1>6, <1>7, <1>8 DEF x, y
<1> QED BY <1>5, <1>7, <1>8, <1>9, <1>10 DEF Caught, D

\* The loop and the decoder agree from every place of the buffer on.
LEMMA LoopCaught ==
  ASSUME NEW b \in Seq(Octets), NEW s \in Seq(Octets), IsEndOf(b, s), NEW i \in 1 .. Len(b) + 1,
         \A j \in (i + 1) .. (Len(b) + 1) : Caught(b, s, j)
  PROVE  Caught(b, s, i)
<1> DEFINE N == Len(b)
           f == Len(s) - N
           D == DecodedUpTo(s)
           F == FilteredFrom(b)
<1> SUFFICES ASSUME Before(b, s, i).mode = "text" PROVE Caught(b, s, i)
    BY DEF Caught
<1>1. N \in Nat /\ f \in Nat /\ N <= Len(s) /\ f + N = Len(s) /\ Len(b) = N BY DEF IsEndOf
<1>2. \A k \in 1 .. N : b[k] \in Octets /\ s[f + k] = b[k] BY DEF IsEndOf
<1>3. \A k \in 0 .. N : D[f + k] \in DecoderRecord
  <2>1. \A k \in 0 .. N : f + k \in 0 .. Len(s) BY <1>1
  <2> QED BY <2>1, DecoderFacts
<1>4. \A k \in 1 .. N : D[f + k] = DecodeStep(D[f + (k - 1)], b[k])
  <2>1. ASSUME NEW k \in 1 .. N PROVE D[f + k] = DecodeStep(D[f + (k - 1)], b[k])
    <3>1. f + k \in 1 .. Len(s) /\ (f + k) - 1 = f + (k - 1) BY <1>1
    <3>2. D[f + k] = DecodeStep(D[(f + k) - 1], s[f + k]) BY <3>1, DecoderRuns
    <3> QED BY <1>2, <3>1, <3>2
  <2> QED BY <2>1
<1>6. \A k : Before(b, s, k) = D[f + (k - 1)] BY DEF Before
<1>7. Len(b) \in Nat /\ Len(b) <= Len(s) BY <1>1
<1> DEFINE d == D[f + (i - 1)]
<1> HIDE DEF N, f, D, F
<1>8. d.mode = "text" BY <1>6
<1>9. d \in DecoderRecord
  <2>1. i - 1 \in 0 .. N BY <1>1
  <2> QED BY <1>3, <2>1
<1>10. d.out \in Text /\ d.replies \in Seq(Answer) BY <1>9 DEF DecoderRecord
<1>11. << >> \in Text /\ << >> \in Seq(Answer) BY DEF Text
<1>12. \A y \in Text : y \o << >> = y /\ << >> \o y = y BY ConcatFacts, Zenon DEF Text
<1>13. \A y \in Seq(Answer) : y \o << >> = y /\ << >> \o y = y BY ConcatFacts, Zenon
<1>14. CASE i > N
  <2>1. F[i] = Nothing(b, i) BY <1>1, <1>14, FilterRuns, PastTheEnd DEF F
  <2>2. i = Len(b) + 1 BY <1>1, <1>14
  <2> QED BY <1>7, <2>1, <2>2, CaughtCut DEF F, Same
<1>15. CASE i <= N /\ b[i] # "IAC"
  <2>2. i \in 1 .. N /\ i + 1 \in (i + 1) .. (Len(b) + 1) /\ (i + 1) - 1 = i BY <1>1, <1>15
  <2>3. D[f + i] = DecodeStep(d, b[i]) /\ b[i] \in Octets BY <1>2, <1>4, <2>2
  <2>4. D[f + i].mode = "text" /\ D[f + i].out = Append(d.out, b[i]) /\ D[f + i].replies = d.replies
    <3> HIDE DEF d
    <3>1. /\ DecodeStep(d, b[i]).mode = "text" /\ DecodeStep(d, b[i]).out = Append(d.out, b[i])
          /\ DecodeStep(d, b[i]).replies = d.replies
          BY <1>8, <1>9, <1>15, <2>3, StepFacts
    <3> QED BY <2>3, <3>1
  <2>5. <<b[i]>> \in Text /\ Append(d.out, b[i]) = d.out \o <<b[i]>>
    <3> DEFINE x == b[i]
               y == d.out
    <3>1. x \in Octets /\ y \in Text BY <1>10, <2>3
    <3> HIDE DEF x, y
    <3>2. <<x>> \in Text /\ Append(y, x) = y \o <<x>> BY <3>1 DEF Text
    <3> QED BY <3>2 DEF x, y
  <2>6. d.replies = d.replies \o << >> BY <1>10, <1>13
  <2>7. LoopSteps(b, i, i + 1, <<b[i]>>, << >>) BY <1>1, <1>15, <2>2, LoopCases
  <2>8. Before(b, s, i + 1) = D[f + i] /\ Before(b, s, i) = d BY <1>6, <2>2
  <2> HIDE DEF d
  <2>9. i + 1 \in i .. Len(b) + 1 /\ Caught(b, s, i + 1) BY <2>2
  <2>10. /\ Before(b, s, i + 1).mode = "text"
       /\ Before(b, s, i + 1).out = Before(b, s, i).out \o <<b[i]>>
       /\ Before(b, s, i + 1).replies = Before(b, s, i).replies \o << >>
       BY <2>4, <2>5, <2>6, <2>8
  <2> QED BY <1>7, <1>11, <2>5, <2>7, <2>9, <2>10, CaughtStep
<1>16. CASE i = N /\ b[i] = "IAC"
  <2>2. i \in 1 .. N BY <1>1, <1>16
  <2>1. F[i] = Nothing(b, i) BY <1>1, <1>16, <2>2, LoopCases DEF F
  <2>3. D[f + i] = DecodeStep(d, b[i]) /\ b[i] \in Octets BY <1>2, <1>4, <2>2
  <2>4. Same(d, D[f + i])
    <3> HIDE DEF d
    <3>1. Same(d, DecodeStep(d, b[i])) BY <1>8, <1>9, <1>16, <2>3, StepFacts
    <3> QED BY <2>3, <3>1
  <2>5. Before(b, s, i) = d /\ Before(b, s, Len(b) + 1) = D[f + i]
    <3>1. (Len(b) + 1) - 1 = i BY <1>1, <1>16
    <3> QED BY <1>6, <3>1
  <2> HIDE DEF d
  <2> QED BY <1>7, <2>1, <2>4, <2>5, CaughtCut DEF F
<1>17. CASE i < N /\ b[i] = "IAC"
  <2> DEFINE e == D[f + i]
             g == D[f + (i + 1)]
             x == b[i + 1]
  <2>1. i \in 1 .. N /\ i + 1 \in 1 .. N /\ (i + 1) - 1 = i /\ (i + 2) - 1 = i + 1 /\ i + 2 \in (i + 1) .. (Len(b) + 1)
        BY <1>1, <1>17
  <2>2. e = DecodeStep(d, b[i]) /\ b[i] \in Octets /\ e \in DecoderRecord BY <1>2, <1>3, <1>4, <2>1
  <2>3. e.mode = "IAC" /\ Same(d, e)
    <3> HIDE DEF d, e
    <3> QED BY <1>8, <1>9, <1>17, <2>2, StepFacts
  <2>4. g = DecodeStep(e, x) /\ x \in Octets /\ g \in DecoderRecord BY <1>2, <1>3, <1>4, <2>1
  <2>5. Before(b, s, i) = d /\ Before(b, s, i + 2) = g BY <1>6, <2>1
  <2>6. Caught(b, s, i + 2) BY <2>1
  <2>7. d.out = d.out \o << >> /\ d.replies = d.replies \o << >> BY <1>10, <1>12, <1>13
  <2> HIDE DEF d, e, g
  <2>8. CASE x = "IAC"
    <3>2. g.mode = "text" /\ g.out = Append(d.out, "IAC") /\ g.replies = d.replies
      <4>1. /\ DecodeStep(e, x).mode = "text" /\ DecodeStep(e, x).out = Append(e.out, "IAC")
            /\ DecodeStep(e, x).replies = e.replies
            BY <2>2, <2>3, <2>4, <2>8, StepFacts
      <4> QED BY <2>3, <2>4, <4>1 DEF Same
    <3>3. <<"IAC">> \in Text /\ Append(d.out, "IAC") = d.out \o <<"IAC">>
      <4> DEFINE y == d.out
      <4>1. y \in Text BY <1>10
      <4> HIDE DEF y
      <4>2. <<"IAC">> \in Text /\ Append(y, "IAC") = y \o <<"IAC">> BY <4>1 DEF Text
      <4> QED BY <4>2 DEF y
    <3>4. LoopSteps(b, i, i + 2, <<"IAC">>, << >>) BY <1>1, <1>17, <2>1, <2>8, LoopCases
    <3>5. i + 2 \in i .. Len(b) + 1 BY <2>1
    <3>6. /\ Before(b, s, i + 2).mode = "text"
         /\ Before(b, s, i + 2).out = Before(b, s, i).out \o <<"IAC">>
         /\ Before(b, s, i + 2).replies = Before(b, s, i).replies \o << >>
         BY <2>5, <2>7, <3>2, <3>3
    <3> QED BY <1>7, <1>11, <2>6, <3>3, <3>4, <3>5, <3>6, CaughtStep
  <2>9. CASE x \in Negotiations /\ i + 2 > N
    <3>1. F[i] = Nothing(b, i) BY <1>1, <1>17, <2>1, <2>9, LoopCases DEF F
    <3>2. Same(e, g) BY <2>2, <2>3, <2>4, <2>9, StepFacts
    <3>3. Len(b) + 1 = i + 2 BY <1>1, <2>1, <2>9
    <3>4. Same(d, Before(b, s, Len(b) + 1)) BY <2>3, <2>5, <3>2, <3>3 DEF Same
    <3> QED BY <1>7, <2>5, <3>1, <3>4, CaughtCut DEF F
  <2>10. CASE x \in Negotiations /\ i + 2 <= N
    <3> DEFINE h == D[f + (i + 2)]
               y == b[i + 2]
               w == negotiateReply(x, y)
    <3>2. g.mode = x /\ Same(e, g) BY <2>2, <2>3, <2>4, <2>10, StepFacts
    <3>3. i + 2 \in 1 .. N /\ (i + 3) - 1 = i + 2 /\ i + 3 \in (i + 1) .. (Len(b) + 1) BY <1>1, <2>1, <2>10
    <3>4. h = DecodeStep(g, y) /\ y \in Octets BY <1>2, <1>4, <2>1, <3>3 DEF g
    <3>5. w \in Seq(Answer) BY <2>10, <3>4, ReplyTyped
    <3> HIDE DEF h, y, x, w
    <3>6. h.mode = "text" /\ h.out = g.out /\ h.replies = g.replies \o w
      <4>1. /\ DecodeStep(g, y).mode = "text" /\ DecodeStep(g, y).out = g.out
            /\ DecodeStep(g, y).replies = g.replies \o negotiateReply(g.mode, y)
        <5>1. g.mode \in Negotiations BY <2>10, <3>2
        <5> QED BY <2>4, <3>4, <5>1, StepFacts
      <4> QED BY <3>2, <3>4, <4>1 DEF w
    <3>7. h.out = d.out \o << >> /\ h.replies = d.replies \o w BY <2>3, <2>7, <3>2, <3>6 DEF Same
    <3>8. LoopSteps(b, i, i + 3, << >>, w) BY <1>1, <1>17, <2>1, <2>10, LoopCases DEF w, x, y
    <3>9. Before(b, s, i + 3) = h /\ Caught(b, s, i + 3) BY <1>6, <3>3 DEF h
    <3>10. /\ i + 3 \in i .. Len(b) + 1 /\ << >> \in Text /\ w \in Seq(Answer)
         /\ Before(b, s, i + 3).mode = "text"
         /\ Before(b, s, i + 3).out = Before(b, s, i).out \o << >>
         /\ Before(b, s, i + 3).replies = Before(b, s, i).replies \o w
         /\ Caught(b, s, i + 3)
         BY <1>11, <2>5, <3>3, <3>5, <3>6, <3>7, <3>9
    <3> QED BY <1>7, <3>8, <3>10, CaughtStep
  <2>11. CASE x = "SB"
    <3>1. g.mode = "SB" /\ Same(e, g) BY <2>2, <2>3, <2>4, <2>11, StepFacts
    <3> DEFINE A == AfterSE(b, i + 2)
    <3>2. i + 2 \in Nat /\ f + (i + 1) \in 1 .. Len(s) BY <1>1, <2>1
    <3>3. \A q \in (f + (i + 1)) .. Len(s) : (\A z \in (f + (i + 1) + 1) .. (q - 1) : ~(s[z] = "IAC" /\ s[z + 1] = "SE")) =>
             /\ D[q].mode = IF q > f + (i + 1) /\ s[q] = "IAC" THEN "SB IAC" ELSE "SB"
             /\ Same(g, D[q])
          BY <3>1, <3>2, SubnegotiationRuns DEF D, g
    <3>4. CASE SubnegEnds(b, i + 2) = {}
      <4>1. A > Len(b) BY <1>7, <3>2, <3>4, FirstEnd
      <4>2. F[i] = Nothing(b, i) BY <1>1, <1>17, <2>1, <2>11, <4>1, LoopCases DEF F
      <4>3. ASSUME NEW z \in (f + (i + 1) + 1) .. (Len(s) - 1), s[z] = "IAC", s[z + 1] = "SE" PROVE FALSE
        <5>1. z - f \in (i + 2) .. (Len(b) - 1) /\ z = f + (z - f) /\ z + 1 = f + ((z - f) + 1) BY <1>1, <2>1
        <5>2. z - f \in 1 .. N /\ (z - f) + 1 \in 1 .. N BY <1>1, <2>1, <5>1
        <5>3. b[z - f] = "IAC" /\ b[(z - f) + 1] = "SE" BY <1>2, <4>3, <5>1, <5>2
        <5>4. z - f \in SubnegEnds(b, i + 2) BY <5>1, <5>3 DEF SubnegEnds
        <5> QED BY <3>4, <5>4
      <4>4. Len(s) \in (f + (i + 1)) .. Len(s) BY <1>1, <3>2
      <4>5. Same(g, D[Len(s)]) BY <3>3, <4>3, <4>4
      <4>6. Before(b, s, Len(b) + 1) = D[Len(s)]
        <5>1. f + ((Len(b) + 1) - 1) = Len(s) BY <1>1
        <5> QED BY <1>6, <5>1
      <4>7. Same(Before(b, s, i), Before(b, s, Len(b) + 1)) BY <2>3, <2>5, <3>1, <4>5, <4>6 DEF Same
      <4> QED BY <1>7, <4>2, <4>7, CaughtCut DEF F
    <3>5. CASE SubnegEnds(b, i + 2) # {}
      <4>1. PICK k \in SubnegEnds(b, i + 2) : A = k + 2 /\ \A z \in SubnegEnds(b, i + 2) : k <= z
            BY <1>7, <3>2, <3>5, FirstEnd
      <4>2. k \in (i + 2) .. (N - 1) /\ b[k] = "IAC" /\ b[k + 1] = "SE" BY <1>1, <4>1 DEF SubnegEnds
      <4>3. A = Len(b) + 1 \/ A <= Len(b) BY <1>1, <4>1, <4>2
      <4>4. ASSUME NEW z \in (f + (i + 1) + 1) .. ((f + k) - 1), s[z] = "IAC", s[z + 1] = "SE" PROVE FALSE
        <5>1. z - f \in (i + 2) .. (Len(b) - 1) /\ z = f + (z - f) /\ z + 1 = f + ((z - f) + 1) /\ z - f < k
              BY <1>1, <2>1, <4>2
        <5>2. z - f \in 1 .. N /\ (z - f) + 1 \in 1 .. N BY <1>1, <2>1, <5>1
        <5>3. b[z - f] = "IAC" /\ b[(z - f) + 1] = "SE" BY <1>2, <4>4, <5>1, <5>2
        <5>4. z - f \in SubnegEnds(b, i + 2) BY <5>1, <5>3 DEF SubnegEnds
        <5> QED BY <4>1, <4>2, <5>1, <5>4
      <4>5. f + k \in (f + (i + 1)) .. Len(s) /\ f + k > f + (i + 1) /\ k \in 1 .. N /\ k + 1 \in 1 .. N /\ (k + 1) - 1 = k
            BY <1>1, <2>1, <4>2
      <4> DEFINE u == D[f + k]
                 v == D[f + (k + 1)]
      <4>6. u.mode = "SB IAC" /\ Same(g, u)
        <5>1. s[f + k] = "IAC" BY <1>2, <4>2, <4>5
        <5> QED BY <3>3, <4>4, <4>5, <5>1
      <4>7. u \in DecoderRecord /\ b[k + 1] \in Octets /\ v = DecodeStep(u, b[k + 1])
            BY <1>2, <1>3, <1>4, <4>5
      <4> HIDE DEF u, v
      <4>8. v.mode = "text" /\ Same(u, v)
        <5>1. DecodeStep(u, b[k + 1]).mode = "text" /\ Same(u, DecodeStep(u, b[k + 1])) BY <4>2, <4>6, <4>7, StepFacts
        <5> QED BY <4>7, <5>1
      <4>9. A \in (i + 1) .. (Len(b) + 1) /\ A - 1 = k + 1 BY <1>1, <2>1, <4>1, <4>2
      <4>10. Before(b, s, A) = v /\ Caught(b, s, A) BY <1>6, <4>9 DEF v
      <4>11. v.out = d.out \o << >> /\ v.replies = d.replies \o << >>
             BY <2>3, <2>7, <3>1, <4>6, <4>8 DEF Same
      <4> HIDE DEF A
      <4>12. CASE A <= Len(b)
        <5>1. LoopSteps(b, i, A, << >>, << >>)
          <6>1. ~(A > Len(b)) BY <4>9, <4>12, <1>1
          <6> QED BY <1>1, <1>17, <2>1, <2>11, <6>1, LoopCases DEF A
        <5>2. A \in i .. Len(b) + 1 BY <4>9
        <5>3. /\ Before(b, s, A).mode = "text"
              /\ Before(b, s, A).out = Before(b, s, i).out \o << >>
              /\ Before(b, s, A).replies = Before(b, s, i).replies \o << >>
              BY <2>5, <4>8, <4>10, <4>11
        <5> QED BY <1>7, <1>11, <4>10, <5>1, <5>2, <5>3, CaughtStep
      <4>13. CASE A = Len(b) + 1
        <5>1. F[i] = Nothing(b, i)
          <6>1. A > Len(b) BY <1>1, <4>13
          <6> QED BY <1>1, <1>17, <2>1, <2>11, <6>1, LoopCases DEF A, F
        <5>2. Same(Before(b, s, i), Before(b, s, Len(b) + 1))
              BY <2>3, <2>5, <3>1, <4>6, <4>8, <4>10, <4>13 DEF Same
        <5> QED BY <1>7, <5>1, <5>2, CaughtCut DEF F
      <4> QED BY <4>3, <4>12, <4>13
    <3> QED BY <3>4, <3>5
  <2>12. CASE x \notin Negotiations \cup {"IAC", "SB"}
    <3>2. g.mode = "text" /\ Same(e, g) BY <2>2, <2>3, <2>4, <2>12, StepFacts
    <3>3. g.out = d.out \o << >> /\ g.replies = d.replies \o << >> BY <2>3, <2>7, <3>2 DEF Same
    <3>4. LoopSteps(b, i, i + 2, << >>, << >>) BY <1>1, <1>17, <2>1, <2>12, LoopCases
    <3>5. /\ i + 2 \in i .. Len(b) + 1 /\ << >> \in Text /\ << >> \in Seq(Answer)
         /\ Before(b, s, i + 2).mode = "text"
         /\ Before(b, s, i + 2).out = Before(b, s, i).out \o << >>
         /\ Before(b, s, i + 2).replies = Before(b, s, i).replies \o << >>
         /\ Caught(b, s, i + 2)
         BY <1>11, <2>1, <2>5, <2>6, <3>2, <3>3
    <3> QED BY <1>7, <3>4, <3>5, CaughtStep
  <2> QED BY <1>1, <2>1, <2>8, <2>9, <2>10, <2>11, <2>12
<1> QED BY <1>14, <1>15, <1>16, <1>17, <1>1

\* From every place, by induction from the end of the buffer.
LEMMA LoopAlwaysCaught ==
  ASSUME NEW b \in Seq(Octets), NEW s \in Seq(Octets), IsEndOf(b, s)
  PROVE  Caught(b, s, 1)
<1> DEFINE N == Len(b)
           T == {m \in Nat : \A i \in 1 .. (N + 1) : N + 1 - i <= m => Caught(b, s, i)}
<1>1. N \in Nat OBVIOUS
<1> HIDE DEF N
<1>2. 0 \in T
  <2>1. ASSUME NEW i \in 1 .. (N + 1), N + 1 - i <= 0 PROVE Caught(b, s, i)
    <3>1. i \in 1 .. Len(b) + 1 /\ \A j \in (i + 1) .. (Len(b) + 1) : FALSE BY <1>1, <2>1 DEF N
    <3> QED BY <3>1, LoopCaught
  <2> QED BY <2>1
<1>3. ASSUME NEW m \in Nat, m \in T PROVE m + 1 \in T
  <2>1. ASSUME NEW i \in 1 .. (N + 1), N + 1 - i <= m + 1 PROVE Caught(b, s, i)
    <3>1. i \in 1 .. Len(b) + 1 BY DEF N
    <3>2. ASSUME NEW j \in (i + 1) .. (Len(b) + 1) PROVE Caught(b, s, j)
      <4>1. j \in 1 .. (N + 1) /\ N + 1 - j <= m BY <1>1, <2>1 DEF N
      <4> QED BY <1>3, <4>1
    <3> QED BY <3>1, <3>2, LoopCaught
  <2> QED BY <2>1
<1>4. Nat \subseteq T
  <2> HIDE DEF T
  <2> QED BY <1>2, <1>3, CountUp
<1>5. N \in T
  <2> HIDE DEF T
  <2> QED BY <1>1, <1>4
<1>6. \A i \in 1 .. (N + 1) : N + 1 - i <= N => Caught(b, s, i) BY <1>5
<1>7. 1 \in 1 .. (N + 1) /\ N + 1 - 1 <= N BY <1>1
<1> QED BY <1>6, <1>7

\* What is kept is the end of what was read, from a place where the decoder was in the
\* text; what went out and what was answered is what the decoder had by then, and has now.
PendingIsTail ==
  /\ fed \in Seq(Octets) /\ pending \in Seq(Octets) /\ IsEndOf(pending, fed)
  /\ Before(pending, fed, 1).mode = "text"
  /\ text = Before(pending, fed, 1).out
  /\ answers = Before(pending, fed, 1).replies
  /\ Same(Before(pending, fed, 1), Decoded(fed))

\* A read of any bytes keeps it so.
LEMMA FilterKeeps ==
  ASSUME PendingIsTail, NEW chunk \in Seq(Octets), Filter(chunk)
  PROVE  PendingIsTail'
<1> DEFINE s == fed \o chunk
           b == pending \o chunk
           n == Len(fed)
           k == Len(pending)
           c == Len(chunk)
<1>1. fed \in Seq(Octets) /\ pending \in Seq(Octets) /\ k <= n /\ \A x \in 1 .. k : pending[x] = fed[(n - k) + x]
      BY DEF PendingIsTail, IsEndOf
<1>2. /\ s \in Seq(Octets) /\ Len(s) = n + c /\ b \in Seq(Octets) /\ Len(b) = k + c
      /\ n \in Nat /\ k \in Nat /\ c \in Nat
      BY <1>1
<1>3. /\ \A x \in 1 .. n : s[x] = fed[x] 
      /\ \A x \in 1 .. c : s[n + x] = chunk[x]
      /\ \A x \in 1 .. k : b[x] = pending[x]
      /\ \A x \in 1 .. c : b[k + x] = chunk[x]
      BY <1>1
<1> HIDE DEF s, b, n, k, c
<1>4. IsEndOf(b, s)
  <2>1. Len(s) - Len(b) = n - k BY <1>2
  <2>2. ASSUME NEW x \in 1 .. Len(b) PROVE b[x] = s[(n - k) + x]
    <3>1. CASE x \in 1 .. k
      <4>1. (n - k) + x \in 1 .. n BY <1>1, <1>2, <3>1
      <4> QED BY <1>1, <1>3, <3>1, <4>1
    <3>2. CASE x \notin 1 .. k
      <4>1. x - k \in 1 .. c /\ x = k + (x - k) /\ (n - k) + x = n + (x - k) BY <1>1, <1>2, <3>2
      <4> QED BY <1>3, <4>1
    <3> QED BY <3>1, <3>2
  <2> QED BY <1>1, <1>2, <2>1, <2>2 DEF IsEndOf
<1>5. \A x \in 0 .. n : DecodedUpTo(s)[x] = DecodedUpTo(fed)[x]
  <2>1. Len(fed) <= Len(s) /\ \A x \in 1 .. Len(fed) : s[x] = fed[x] BY <1>2, <1>3 DEF n
  <2> QED BY <1>1, <1>2, <2>1, DecoderFacts DEF n
<1>6. Before(b, s, 1) = Before(pending, fed, 1)
  <2>1. (Len(s) - Len(b)) + (1 - 1) = n - k /\ n - k \in 0 .. n BY <1>1, <1>2
  <2>2. (Len(fed) - Len(pending)) + (1 - 1) = n - k BY <1>2 DEF n, k
  <2> QED BY <1>5, <2>1, <2>2 DEF Before
<1>7. Caught(b, s, 1) BY <1>2, <1>4, LoopAlwaysCaught
<1>8. PICK m \in 1 .. Len(b) + 1, o \in Text, a \in Seq(Answer) :
         /\ FilteredFrom(b)[1] = [out |-> o, replies |-> a, rest |-> SubSeq(b, m, Len(b))]
         /\ Before(b, s, m).mode = "text"
         /\ Before(b, s, m).out = Before(b, s, 1).out \o o
         /\ Before(b, s, m).replies = Before(b, s, 1).replies \o a
         /\ Same(Before(b, s, m), Before(b, s, Len(b) + 1))
      BY <1>6, <1>7 DEF Caught, PendingIsTail
<1> DEFINE q == SubSeq(b, m, Len(b))
<1>9. fed' = s /\ pending' = q /\ text' = text \o o /\ answers' = answers \o a
      BY <1>8 DEF Filter, filterIACBytes, s, b
<1>10. q \in Seq(Octets) /\ Len(q) = Len(b) + 1 - m /\ \A x \in 1 .. Len(q) : q[x] = b[(m - 1) + x]
  <2>1. m \in Nat /\ Len(b) \in Nat /\ m <= Len(b) + 1 /\ m >= 1 BY <1>2
  <2>2. q \in Seq(Octets) BY <1>2, <2>1
  <2>3. Len(q) = Len(b) + 1 - m BY <1>2, <2>1
  <2>4. \A x \in 1 .. Len(q) : q[x] = b[(m - 1) + x] BY <1>2, <2>1, <2>3
  <2> QED BY <2>2, <2>3, <2>4
<1> HIDE DEF q
<1>11. IsEndOf(q, s)
  <2>1. Len(q) <= Len(s) /\ Len(q) \in Nat BY <1>1, <1>2, <1>10
  <2>2. ASSUME NEW x \in 1 .. Len(q) PROVE q[x] = s[(Len(s) - Len(q)) + x]
    <3>1. (m - 1) + x \in 1 .. Len(b) /\ (Len(s) - Len(b)) + ((m - 1) + x) = (Len(s) - Len(q)) + x
          BY <1>2, <1>10
    <3> QED BY <1>4, <1>10, <3>1 DEF IsEndOf
  <2> QED BY <2>1, <2>2 DEF IsEndOf
<1>12. Before(q, s, 1) = Before(b, s, m)
  <2>1. (Len(s) - Len(q)) + (1 - 1) = (Len(s) - Len(b)) + (m - 1) BY <1>2, <1>10
  <2> QED BY <2>1 DEF Before
<1>13. Before(b, s, Len(b) + 1) = Decoded(s)
  <2>1. (Len(s) - Len(b)) + ((Len(b) + 1) - 1) = Len(s) BY <1>2
  <2> QED BY <2>1 DEF Before, Decoded
<1>14. Same(Before(q, s, 1), Decoded(s)) /\ Before(q, s, 1).mode = "text" BY <1>8, <1>12, <1>13
<1>15. text' = Before(q, s, 1).out /\ answers' = Before(q, s, 1).replies
       BY <1>6, <1>8, <1>9, <1>12 DEF PendingIsTail
<1>16. q \in Seq(Octets) /\ s \in Seq(Octets) BY <1>2, <1>10
<1> QED BY <1>9, <1>11, <1>14, <1>15, <1>16 DEF PendingIsTail

\* However the stream is cut into reads, of whatever length, the terminal and the target
\* get what the decoder of single bytes gives them.
THEOREM SplitsAreIrrelevant == TelnetSpec => []SplitIrrelevant
<1>1. TelnetInit => PendingIsTail
  <2> SUFFICES ASSUME TelnetInit PROVE PendingIsTail
      OBVIOUS
  <2>1. fed = << >> /\ pending = << >> /\ text = << >> /\ answers = << >> BY DEF TelnetInit
  <2>2. fed \in Seq(Octets) /\ pending \in Seq(Octets) /\ Len(fed) = 0 /\ Len(pending) = 0 BY <2>1
  <2>3. DecodedUpTo(fed)[0] = Undecoded BY <2>2, DecoderRuns
  <2>4. Before(pending, fed, 1) = Undecoded /\ Decoded(fed) = Undecoded
    <3>1. (Len(fed) - Len(pending)) + (1 - 1) = 0 BY <2>2
    <3> QED BY <2>2, <2>3, <3>1 DEF Before, Decoded
  <2>5. IsEndOf(pending, fed) BY <2>2 DEF IsEndOf
  <2> QED BY <2>1, <2>2, <2>4, <2>5 DEF PendingIsTail, Undecoded, Same
<1>2. PendingIsTail /\ [TelnetNext]_telnetVars => PendingIsTail'
  <2> SUFFICES ASSUME PendingIsTail, [TelnetNext]_telnetVars PROVE PendingIsTail'
      OBVIOUS
  <2>1. CASE TelnetNext
    <3>1. PICK n \in 1 .. MaxStream - Len(fed) : \E chunk \in [1 .. n -> Octets] : Filter(chunk)
          BY <2>1 DEF TelnetNext
    <3>2. PICK chunk \in [1 .. n -> Octets] : Filter(chunk) BY <3>1
    <3>3. n \in Nat OBVIOUS
    <3>4. chunk \in Seq(Octets) BY <3>3
    <3> QED BY <3>2, <3>4, FilterKeeps
  <2>2. CASE UNCHANGED telnetVars
        BY <2>2 DEF telnetVars, PendingIsTail, IsEndOf, Before, Same, Decoded
  <2> QED BY <2>1, <2>2
<1>3. PendingIsTail => SplitIrrelevant BY DEF PendingIsTail, SplitIrrelevant, Same
<1> QED BY <1>1, <1>2, <1>3, PTL DEF TelnetSpec

================================================================================
