---------------------------- MODULE TerminalOutput ----------------------------
(***************************************************************************)
(* The output side of a detachable terminal bridge (sshproxy, and           *)
(* telnetproxy with its single pump): stdout and stderr are read by two     *)
(* goroutines, each chunk goes to the replay buffer, to the recording and   *)
(* to the attached clients in turn, while the bridge's run loop attaches    *)
(* clients and ends the session.                                            *)
(*                                                                          *)
(* A chunk is one byte here, and no two bytes are the same, so what a       *)
(* client missed can be told.  Longer chunks are RingBuffer's business.     *)
(***************************************************************************)
EXTENDS RingBuffer

CONSTANTS
  Pumps,      \* one per stream of the target
  Viewers,    \* connections that attach
  MaxOutput   \* bound: bytes the target writes

ASSUME OutputAssumption == MaxOutput \in Nat /\ {<<b>> : b \in 1 .. MaxOutput} \subseteq Chunks
ASSUME ViewersAssumption == Viewers \cap {"select", "done", "stopped"} = {}

VARIABLES
  pump,       \* [pc, byte] of each output goroutine
  written,    \* bytes in the order the replay buffer got them
  recorded,   \* bytes the cast file has
  produced,   \* bytes read from the target
  clients,    \* the bridge's clients map
  viewer,     \* [pc, replay, got, from] of each connection
  ctxDone,    \* the session's context is cancelled
  runLoop     \* "select", the viewer being attached, "done" (ended with the target) or "stopped"

outputVars == <<ringVars, pump, written, recorded, produced, clients, viewer, ctxDone, runLoop>>

NewViewer == [pc |-> "new", replay |-> << >>, got |-> {}, from |-> 0]

OutputInit ==
  /\ RingInit
  /\ pump = [p \in Pumps |-> [pc |-> "read", byte |-> 0]]
  /\ written = << >>
  /\ recorded = {}
  /\ produced = 0
  /\ clients = {}
  /\ viewer = [v \in Viewers |-> NewViewer]
  /\ ctxDone = FALSE
  /\ runLoop = "select"

-------------------------------------------------------------------------------
(* pumpReader and broadcast.                                                 *)

Read(p) ==
  /\ pump[p].pc = "read"
  /\ produced < MaxOutput
  /\ produced' = produced + 1
  /\ pump' = [pump EXCEPT ![p] = [pc |-> "ring", byte |-> produced + 1]]
  /\ UNCHANGED <<ringVars, written, recorded, clients, viewer, ctxDone, runLoop>>

ToRing(p) ==
  /\ pump[p].pc = "ring"
  /\ Write(<<pump[p].byte>>)
  /\ written' = Append(written, pump[p].byte)
  /\ pump' = [pump EXCEPT ![p].pc = "tee"]
  /\ UNCHANGED <<recorded, produced, clients, viewer, ctxDone, runLoop>>

ToRecording(p) ==
  /\ pump[p].pc = "tee"
  /\ recorded' = recorded \cup {pump[p].byte}
  /\ pump' = [pump EXCEPT ![p].pc = "broadcast"]
  /\ UNCHANGED <<ringVars, written, produced, clients, viewer, ctxDone, runLoop>>

\* Clients whose replay is still to come are left out.
ReceiversFault == {v \in clients : viewer[v].pc = "live"}

Receivers == clients

\* A write to a connection fails, and goes on failing once it has.
MayFail(dead) == dead \subseteq clients /\ \A v \in clients : viewer[v].pc = "broken" => v \in dead

\* Under clientMu.  Clients whose write fails are removed and closed.
Broadcast(p, dead) ==
  /\ pump[p].pc = "broadcast"
  /\ MayFail(dead)
  /\ viewer' = [v \in Viewers |->
       IF v \in dead THEN [viewer[v] EXCEPT !.pc = IF runLoop = v THEN @ ELSE "closed"]
       ELSE IF v \in Receivers THEN [viewer[v] EXCEPT !.got = @ \cup {pump[p].byte}]
       ELSE viewer[v]]
  /\ clients' = clients \ dead
  /\ pump' = [pump EXCEPT ![p] = [pc |-> "read", byte |-> 0]]
  /\ UNCHANGED <<ringVars, written, recorded, produced, ctxDone, runLoop>>

\* The stream ends: the pump closes stdin and returns.
PumpEnds(p) ==
  /\ pump[p].pc = "read"
  /\ pump' = [pump EXCEPT ![p].pc = "done"]
  /\ UNCHANGED <<ringVars, written, recorded, produced, clients, viewer, ctxDone, runLoop>>

-------------------------------------------------------------------------------
(* The run loop: attachWebSocket, attachStream, and the end.                 *)

Attach(v) ==
  /\ runLoop = "select"
  /\ viewer[v].pc = "new"
  /\ clients' = clients \cup {v}
  /\ viewer' = [viewer EXCEPT ![v].pc = "added"]
  /\ runLoop' = v
  /\ UNCHANGED <<ringVars, pump, written, recorded, produced, ctxDone>>

Snapshot(v) ==
  /\ runLoop = v
  /\ viewer[v].pc = "added"
  /\ viewer' = [viewer EXCEPT ![v] =
       [@ EXCEPT !.pc = "snapped", !.replay = Bytes, !.from = Len(written) - Len(Bytes) + 1]]
  /\ UNCHANGED <<ringVars, pump, written, recorded, produced, clients, ctxDone, runLoop>>

\* The replay is sent, and the reader started; it finds a connection that a
\* broadcast has closed meanwhile closed, and detaches it again.
SendReplay(v) ==
  /\ runLoop = v
  /\ viewer[v].pc = "snapped"
  /\ viewer' = [viewer EXCEPT ![v] =
       [@ EXCEPT !.pc = IF v \in clients THEN "live" ELSE "closed",
                 !.got = viewer[v].got \cup {viewer[v].replay[k] : k \in DOMAIN viewer[v].replay}]]
  /\ runLoop' = "select"
  /\ UNCHANGED <<ringVars, pump, written, recorded, produced, clients, ctxDone>>

\* A WebSocket whose replay cannot be sent is detached at once; that of a CLI
\* stream is not looked at, and leaves the stream to its reader or a broadcast.
ReplayFails(v, to) ==
  /\ runLoop = v
  /\ viewer[v].pc = "snapped"
  /\ viewer[v].replay # << >>
  /\ viewer' = [viewer EXCEPT ![v].pc = IF v \in clients THEN to ELSE "closed"]
  /\ clients' = IF to = "closed" THEN clients \ {v} ELSE clients
  /\ runLoop' = "select"
  /\ UNCHANGED <<ringVars, pump, written, recorded, produced, ctxDone>>

\* The end of the client's reader, or DetachUser, at any time.
Detach(v) ==
  /\ v \in clients
  /\ viewer' = [viewer EXCEPT ![v].pc = IF runLoop = v THEN @ ELSE "closed"]
  /\ clients' = clients \ {v}
  /\ UNCHANGED <<ringVars, pump, written, recorded, produced, ctxDone, runLoop>>

Cancel ==
  /\ ~ctxDone
  /\ ctxDone' = TRUE
  /\ UNCHANGED <<ringVars, pump, written, recorded, produced, clients, viewer, runLoop>>

\* The first stream to end ends the bridge.
BridgeDoneFault == \E p \in Pumps : pump[p].pc = "done"

\* bridgeDone is closed once both pumps have returned.
BridgeDone == \A p \in Pumps : pump[p].pc = "done"

\* Either case of the select, then the end message, to those it reaches.
Ends(how, dead) ==
  /\ runLoop = "select"
  /\ \/ how = "stopped" /\ ctxDone
     \/ how = "done" /\ BridgeDone
  /\ MayFail(dead)
  /\ runLoop' = how
  /\ clients' = clients \ dead
  /\ viewer' = [v \in Viewers |->
       IF v \in dead THEN [viewer[v] EXCEPT !.pc = "closed"]
       ELSE IF v \in clients THEN [viewer[v] EXCEPT !.pc = "told"] ELSE viewer[v]]
  /\ UNCHANGED <<ringVars, pump, written, recorded, produced, ctxDone>>

OutputNext ==
  \/ \E p \in Pumps :
       \/ Read(p)
       \/ ToRing(p)
       \/ ToRecording(p)
       \/ \E dead \in SUBSET Viewers : Broadcast(p, dead)
       \/ PumpEnds(p)
  \/ \E v \in Viewers : Attach(v) \/ Snapshot(v) \/ SendReplay(v)
                       \/ ReplayFails(v, "closed") \/ ReplayFails(v, "broken") \/ Detach(v)
  \/ Cancel
  \/ \E how \in {"stopped", "done"}, dead \in SUBSET Viewers : Ends(how, dead)

OutputSpec == OutputInit /\ [][OutputNext]_outputVars

-------------------------------------------------------------------------------
Since(v) == {written[k] : k \in viewer[v].from .. Len(written)}
InHand == {pump[p].byte : p \in {q \in Pumps : pump[q].pc \in {"tee", "broadcast"}}}

\* A client that has had its replay has every byte the session wrote from the
\* first replayed one on, save what a pump is about to broadcast: nothing falls
\* between the replay and the live output, though attaching takes three steps
\* and two pumps go on meanwhile.
NoGap == \A v \in Viewers :
  v \in clients /\ viewer[v].pc \in {"live", "told"} => Since(v) \subseteq viewer[v].got \cup InHand

\* When the target ends the session, everything it wrote has been recorded, and
\* every client that gets the end message has had all output before it.
EndIsLast == runLoop = "done" =>
  /\ recorded = 1 .. produced
  /\ \A v \in clients : Since(v) \subseteq viewer[v].got

\* Clients see the output whole: no gap between the replay and the live output, and
\* nothing after the end.
OutputComplete == NoGap /\ EndIsLast

===============================================================================
