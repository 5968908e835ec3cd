---------------------------- MODULE OperationsProofs ----------------------------
(***************************************************************************)
(* What an installation keeps while it runs: the desktop connections it     *)
(* lists, the recordings it makes, exports, remuxes and deletes, the        *)
(* backups it takes and restores, and the commands it logs.  Each for any   *)
(* number of connections, recordings, jobs, requests, files, restarts and   *)
(* commands, and for output of any length.                                  *)
(***************************************************************************)
EXTENDS RdpManager, VideoRecording, RecordingFiles, RecordingExports, Backup, Restore, CommandLog,
        SequenceTheorems, FiniteSetTheorems, WellFoundedInduction, TLAPS

--------------------------------------------------------------------------------
(* Bridges and their connections (RdpManager).                               *)

BridgeRecord == [state : {"unused", "up", "exited"}, size : Sizes \cup {"none"}]
ConnRecord == [pc : {"idle", "remove", "stopOld", "start", "register", "upgrade"}, size : Sizes \cup {"none"},
               own : Bridges \cup {"none"}, old : Bridges \cup {"none"}]

RdpTypeOK ==
  /\ bridge \in [Bridges -> BridgeRecord]
  /\ bridgeOfKey \in Bridges \cup {"none"}
  /\ conn \in [Conns -> ConnRecord]
  /\ \A c \in Conns : conn[c].pc = "register" => conn[c].own \in Bridges

\* The three maps name one session, or none.
MapsAgree == /\ sessionOfKey = bridgeOfKey
             /\ sessionsByID = IF bridgeOfKey = "none" THEN {} ELSE {bridgeOfKey}

\* A desktop that runs is the one of the key, or the request that is about to register it
\* or to stop it has it.  A request that merely looked it up does not count.
Held(b) == \E c \in Conns : \/ conn[c].pc = "register" /\ conn[c].own = b
                            \/ conn[c].pc = "stopOld" /\ conn[c].old = b
RunningHeld == \A b \in Bridges : bridge[b].state = "up" => bridgeOfKey = b \/ Held(b)

RdpIInv == RdpTypeOK /\ MapsAgree /\ RunningHeld

\* A request moves to f, from and to where it need not hold a desktop.
LEMMA ConnMoves ==
  ASSUME RdpTypeOK, NEW c \in Conns, NEW f \in ConnRecord, conn' = [conn EXCEPT ![c] = f],
         f.pc = "register" => f.own \in Bridges
  PROVE  /\ conn' \in [Conns -> ConnRecord]
         /\ \A x \in Conns : conn'[x].pc = "register" => conn'[x].own \in Bridges
         /\ conn'[c] = f
         /\ \A x \in Conns \ {c} : conn'[x] = conn[x]
BY DEF RdpTypeOK

\* Somebody else still holds what they held.
LEMMA HeldStays ==
  ASSUME NEW c \in Conns, NEW b, \A x \in Conns \ {c} : conn'[x] = conn[x], Held(b),
         ~(conn[c].pc = "register" /\ conn[c].own = b), ~(conn[c].pc = "stopOld" /\ conn[c].old = b)
  PROVE  Held(b)'
<1>1. PICK x \in Conns : \/ conn[x].pc = "register" /\ conn[x].own = b
                         \/ conn[x].pc = "stopOld" /\ conn[x].old = b
      BY DEF Held
<1>2. x # c BY <1>1
<1>3. conn'[x] = conn[x] BY <1>2
<1> QED BY <1>1, <1>3 DEF Held

\* The idle request and the unused desktop have their types.
LEMMA RdpIdle == /\ NoConn \in ConnRecord /\ NoConn.pc = "idle"
                 /\ Unused \in BridgeRecord /\ Unused.state = "unused"
BY DEF NoConn, ConnRecord, Unused, BridgeRecord

\* Nothing runs at first.
LEMMA RdpStart == RdpInit => RdpIInv
<1> SUFFICES ASSUME RdpInit PROVE RdpIInv
    OBVIOUS
<1>1. bridge \in [Bridges -> BridgeRecord] /\ \A b \in Bridges : bridge[b] = Unused BY RdpIdle DEF RdpInit
<1>2. conn \in [Conns -> ConnRecord] /\ \A c \in Conns : conn[c] = NoConn BY RdpIdle DEF RdpInit
<1>3. RdpTypeOK BY <1>1, <1>2, RdpIdle DEF RdpTypeOK, RdpInit
<1>4. MapsAgree BY DEF MapsAgree, RdpInit
<1>5. RunningHeld BY <1>1, RdpIdle DEF RunningHeld
<1> QED BY <1>3, <1>4, <1>5 DEF RdpIInv

\* Requests that look up, remove, stop and give up.
LEMMA RdpRequestsKeep ==
  ASSUME RdpIInv, NEW c \in Conns,
         \/ \E size \in Sizes : Connect(c, size)
         \/ RemoveSession(c) \/ StopOld(c) \/ StartFails(c) \/ Delete(c)
         \/ \E ok \in BOOLEAN : Upgrade(c, ok)
  PROVE  RdpIInv'
<1> USE DEF RdpIInv
<1>0. /\ conn \in [Conns -> ConnRecord] /\ conn[c] \in ConnRecord /\ bridge \in [Bridges -> BridgeRecord]
      /\ bridgeOfKey \in Bridges \cup {"none"} /\ sessionOfKey = bridgeOfKey
      /\ sessionsByID \subseteq {bridgeOfKey} /\ (\A sid \in sessionsByID : sid \in Bridges)
      /\ conn[c].own \in Bridges \cup {"none"} /\ conn[c].old \in Bridges \cup {"none"} /\ conn[c].size \in Sizes \cup {"none"}
      BY DEF RdpTypeOK, MapsAgree, ConnRecord
\* The maps stay, the desktops but perhaps one stay, and the request holds none that runs.
<1>1. ASSUME NEW f \in ConnRecord, conn' = [conn EXCEPT ![c] = f], f.pc # "register", UNCHANGED maps,
             NEW b, bridge' = bridge \/ bridge' = Stopped(bridge, b),
             conn[c].pc # "register",
             conn[c].pc = "stopOld" => bridge' = Stopped(bridge, conn[c].old)
      PROVE  RdpIInv'
  <2>1. /\ conn' \in [Conns -> ConnRecord] /\ \A x \in Conns : conn'[x].pc = "register" => conn'[x].own \in Bridges
        /\ \A x \in Conns \ {c} : conn'[x] = conn[x]
        BY <1>1, ConnMoves
  <2>2. UNCHANGED <<bridgeOfKey, sessionOfKey, sessionsByID>> BY <1>1 DEF maps
  <2>3. ASSUME NEW d PROVE /\ Stopped(bridge, d) \in [Bridges -> BridgeRecord]
                           /\ \A e \in Bridges : Stopped(bridge, d)[e].state = "up" => e # d /\ bridge[e].state = "up"
    <3>1. PICK g : g = Stopped(bridge, d) OBVIOUS
    <3>2. g = [bridge EXCEPT ![d] = [bridge[d] EXCEPT !.state = "exited"]] BY <3>1 DEF Stopped
    <3>3. \A e \in Bridges : [bridge[e] EXCEPT !.state = "exited"] \in BridgeRecord /\ [bridge[e] EXCEPT !.state = "exited"].state = "exited"
      <4> SUFFICES ASSUME NEW e \in Bridges, NEW h, h = [bridge[e] EXCEPT !.state = "exited"]
                   PROVE  h \in BridgeRecord /\ h.state = "exited"
          OBVIOUS
      <4>1. bridge[e] \in BridgeRecord BY <1>0
      <4> QED BY <4>1 DEF BridgeRecord
    <3>4. \A e \in Bridges : g[e] = IF e = d THEN [bridge[e] EXCEPT !.state = "exited"] ELSE bridge[e] BY <1>0, <3>2
    <3>5. g \in [Bridges -> BridgeRecord] BY <1>0, <3>2, <3>3, <3>4
    <3> QED BY <3>1, <3>3, <3>4, <3>5
  <2>4. /\ bridge' \in [Bridges -> BridgeRecord]
        /\ \A e \in Bridges : bridge'[e].state = "up" => bridge[e].state = "up" /\ ~(conn[c].pc = "stopOld" /\ conn[c].old = e)
        BY <1>0, <1>1, <2>3
  <2>5. RdpTypeOK' BY <2>1, <2>2, <2>4 DEF RdpTypeOK
  <2>6. MapsAgree' BY <2>2 DEF MapsAgree
  <2>7. RunningHeld'
    <3> SUFFICES ASSUME NEW e \in Bridges, bridge'[e].state = "up", bridgeOfKey # e PROVE Held(e)'
        BY <2>2 DEF RunningHeld
    <3>1. Held(e) BY <2>4 DEF RunningHeld
    <3> QED BY <1>1, <2>1, <2>4, <3>1, HeldStays
  <2> QED BY <2>5, <2>6, <2>7
<1>2. ASSUME NEW size \in Sizes, Connect(c, size) PROVE RdpIInv'
  <2>1. PICK f : f = [NoConn EXCEPT !.pc = IF Found THEN "remove" ELSE "start", !.size = size,
                                   !.old = IF Found THEN sessionOfKey ELSE "none"] OBVIOUS
  <2>2. f = [pc |-> IF Found THEN "remove" ELSE "start", size |-> size, own |-> "none",
             old |-> IF Found THEN sessionOfKey ELSE "none"] BY <2>1 DEF NoConn
  <2>3. f \in ConnRecord /\ f.pc # "register" BY <1>0, <2>2 DEF ConnRecord
  <2>4. conn' = [conn EXCEPT ![c] = f] /\ conn[c].pc = "idle" /\ bridge' = bridge /\ UNCHANGED maps
        BY <1>2, <2>1 DEF Connect, InConn
  <2> QED BY <1>1, <2>3, <2>4
<1>3. CASE RemoveSession(c)
  <2>0. conn[c].pc = "remove" /\ bridge' = bridge BY <1>3 DEF RemoveSession, InConn
  <2>n. NextOf(c) \in {"upgrade", "idle", "start"} BY DEF NextOf
  <2>1. CASE conn[c].old \in sessionsByID
    <3>1. PICK f : f = [conn[c] EXCEPT !.pc = "stopOld"] OBVIOUS
    <3>2. f \in ConnRecord /\ f.pc = "stopOld" /\ f.old = conn[c].old BY <1>0, <3>1 DEF ConnRecord
    <3>3. conn' = [conn EXCEPT ![c] = f]
      <4>1. conn' = [conn EXCEPT ![c].pc = "stopOld", ![c].old = conn[c].old] BY <1>3, <2>1 DEF RemoveSession
      <4>2. [conn[c] EXCEPT !.pc = "stopOld", !.old = conn[c].old] = f BY <1>0, <3>1 DEF ConnRecord
      <4> QED BY <1>0, <4>1, <4>2
    <3>4. bridgeOfKey = conn[c].old /\ bridgeOfKey' = "none" /\ sessionOfKey' = "none" /\ sessionsByID' = {}
          BY <1>0, <1>3, <2>1 DEF RemoveSession, Forget
    <3>5. /\ conn' \in [Conns -> ConnRecord] /\ \A x \in Conns : conn'[x].pc = "register" => conn'[x].own \in Bridges
          /\ conn'[c] = f /\ \A x \in Conns \ {c} : conn'[x] = conn[x]
          BY <3>2, <3>3, ConnMoves
    <3>6. RdpTypeOK' BY <2>0, <3>4, <3>5 DEF RdpTypeOK
    <3>7. MapsAgree' BY <3>4 DEF MapsAgree
    <3>8. RunningHeld'
      <4> SUFFICES ASSUME NEW e \in Bridges, bridge[e].state = "up" PROVE Held(e)'
          BY <2>0 DEF RunningHeld
      <4>1. CASE bridgeOfKey = e BY <3>2, <3>4, <3>5, <4>1 DEF Held
      <4>2. CASE bridgeOfKey # e
        <5>1. Held(e) BY <4>2 DEF RunningHeld
        <5> QED BY <2>0, <3>5, <5>1, HeldStays
      <4> QED BY <4>1, <4>2
    <3> QED BY <3>6, <3>7, <3>8
  <2>2. CASE conn[c].old \notin sessionsByID
    <3>1. PICK f : f = [conn[c] EXCEPT !.pc = NextOf(c), !.old = "none"] OBVIOUS
    <3>2. f \in ConnRecord /\ f.pc # "register" BY <1>0, <2>n, <3>1 DEF ConnRecord
    <3>3. conn' = [conn EXCEPT ![c] = f] /\ UNCHANGED maps BY <1>0, <1>3, <2>2, <3>1 DEF RemoveSession, Forget
    <3> QED BY <1>1, <2>0, <3>2, <3>3
  <2> QED BY <2>1, <2>2
<1>4. CASE StopOld(c)
  <2>n. NextOf(c) \in {"upgrade", "idle", "start"} BY DEF NextOf
  <2>1. PICK f : f = [conn[c] EXCEPT !.pc = NextOf(c), !.old = "none"] OBVIOUS
  <2>2. f \in ConnRecord /\ f.pc # "register" BY <1>0, <2>n, <2>1 DEF ConnRecord
  <2>3. /\ conn' = [conn EXCEPT ![c] = f] /\ UNCHANGED maps /\ conn[c].pc = "stopOld"
        /\ bridge' = Stopped(bridge, conn[c].old)
        BY <1>0, <1>4, <2>1 DEF StopOld, InConn
  <2> QED BY <1>1, <2>2, <2>3
<1>5. CASE StartFails(c)
  <2>1. conn' = [conn EXCEPT ![c] = NoConn] /\ conn[c].pc = "start" /\ bridge' = bridge /\ UNCHANGED maps
        BY <1>5 DEF StartFails, InConn
  <2> QED BY <1>1, <2>1, RdpIdle
<1>6. CASE Delete(c)
  <2>1. PICK sid \in sessionsByID : conn' = [conn EXCEPT ![c] = [NoConn EXCEPT !.pc = "remove", !.old = sid]] BY <1>6 DEF Delete
  <2>2. PICK f : f = [NoConn EXCEPT !.pc = "remove", !.old = sid] OBVIOUS
  <2>3. f = [pc |-> "remove", size |-> "none", own |-> "none", old |-> sid] BY <2>2 DEF NoConn
  <2>4. f \in ConnRecord /\ f.pc # "register" BY <1>0, <2>3 DEF ConnRecord
  <2>5. conn' = [conn EXCEPT ![c] = f] /\ conn[c].pc = "idle" /\ bridge' = bridge /\ UNCHANGED maps
        BY <1>6, <2>1, <2>2 DEF Delete, InConn
  <2> QED BY <1>1, <2>4, <2>5
<1>7. ASSUME NEW ok \in BOOLEAN, Upgrade(c, ok) PROVE RdpIInv'
  <2>1. /\ conn' = [conn EXCEPT ![c] = NoConn] /\ conn[c].pc = "upgrade" /\ UNCHANGED maps
        /\ bridge' = bridge \/ bridge' = Stopped(bridge, conn[c].own)
        BY <1>7 DEF Upgrade, InConn
  <2> QED BY <1>1, <2>1, RdpIdle
<1> QED BY <1>2, <1>3, <1>4, <1>5, <1>6, <1>7

\* A desktop comes up and is registered in place of the one before.
LEMMA RdpStartsKeep ==
  ASSUME RdpIInv, NEW c \in Conns, (\E b \in Bridges : Start(c, b)) \/ RegisterSession(c)
  PROVE  RdpIInv'
<1> USE DEF RdpIInv
<1>0. /\ conn \in [Conns -> ConnRecord] /\ conn[c] \in ConnRecord /\ bridge \in [Bridges -> BridgeRecord]
      /\ bridgeOfKey \in Bridges \cup {"none"} /\ sessionOfKey = bridgeOfKey
      /\ sessionsByID \subseteq {bridgeOfKey}
      /\ conn[c].size \in Sizes \cup {"none"}
      BY DEF RdpTypeOK, MapsAgree, ConnRecord
<1>1. ASSUME NEW b \in Bridges, Start(c, b) PROVE RdpIInv'
  <2>1. PICK f : f = [conn[c] EXCEPT !.pc = "register", !.own = b] OBVIOUS
  <2>2. f \in ConnRecord /\ f.pc = "register" /\ f.own = b BY <1>0, <2>1 DEF ConnRecord
  <2>3. PICK g : g = [state |-> "up", size |-> conn[c].size] OBVIOUS
  <2>4. g \in BridgeRecord BY <1>0, <2>3 DEF BridgeRecord
  <2>5. /\ conn' = [conn EXCEPT ![c] = f] /\ conn[c].pc = "start" /\ bridge' = [bridge EXCEPT ![b] = g]
        /\ UNCHANGED <<bridgeOfKey, sessionOfKey, sessionsByID>>
        BY <1>0, <1>1, <2>1, <2>3 DEF Start, InConn, maps
  <2>6. /\ conn' \in [Conns -> ConnRecord] /\ \A x \in Conns : conn'[x].pc = "register" => conn'[x].own \in Bridges
        /\ conn'[c] = f /\ \A x \in Conns \ {c} : conn'[x] = conn[x]
        BY <2>2, <2>5, ConnMoves
  <2>7. bridge' \in [Bridges -> BridgeRecord] /\ \A e \in Bridges \ {b} : bridge'[e] = bridge[e] BY <1>0, <2>4, <2>5
  <2>8. RdpTypeOK' BY <2>5, <2>6, <2>7 DEF RdpTypeOK
  <2>9. MapsAgree' BY <2>5 DEF MapsAgree
  <2>10. RunningHeld'
    <3> SUFFICES ASSUME NEW e \in Bridges, bridge'[e].state = "up", bridgeOfKey # e PROVE Held(e)'
        BY <2>5 DEF RunningHeld
    <3>1. CASE e = b BY <2>2, <2>6, <3>1 DEF Held
    <3>2. CASE e # b
      <4>1. Held(e) BY <2>7, <3>2 DEF RunningHeld
      <4> QED BY <2>5, <2>6, <4>1, HeldStays
    <3> QED BY <3>1, <3>2
  <2> QED BY <2>8, <2>9, <2>10
<1>2. CASE RegisterSession(c)
  <2>0. /\ conn[c].pc = "register" /\ bridgeOfKey' = conn[c].own /\ sessionOfKey' = conn[c].own
        /\ sessionsByID' = (sessionsByID \ {sessionOfKey}) \cup {conn[c].own} /\ bridge' = bridge
        BY <1>2 DEF RegisterSession, InConn
  <2>1. PICK f : f = [conn[c] EXCEPT !.pc = IF bridgeOfKey = "none" THEN "upgrade" ELSE "stopOld", !.old = bridgeOfKey] OBVIOUS
  <2>2. /\ f \in ConnRecord /\ f.pc = (IF bridgeOfKey = "none" THEN "upgrade" ELSE "stopOld") /\ f.old = bridgeOfKey
        BY <1>0, <2>1 DEF ConnRecord
  <2>3. conn' = [conn EXCEPT ![c] = f] BY <1>0, <1>2, <2>1 DEF RegisterSession
  <2>4. /\ conn' \in [Conns -> ConnRecord] /\ \A x \in Conns : conn'[x].pc = "register" => conn'[x].own \in Bridges
        /\ conn'[c] = f /\ \A x \in Conns \ {c} : conn'[x] = conn[x]
        BY <2>2, <2>3, ConnMoves
  <2>5. conn[c].own \in Bridges /\ conn[c].own # "none" BY <2>0, RdpAssumption DEF RdpTypeOK
  <2>6. RdpTypeOK' BY <1>0, <2>0, <2>4, <2>5 DEF RdpTypeOK
  <2>7. MapsAgree' BY <1>0, <2>0, <2>5 DEF MapsAgree
  <2>8. RunningHeld'
    <3> SUFFICES ASSUME NEW e \in Bridges, bridge[e].state = "up", conn[c].own # e PROVE Held(e)'
        BY <2>0 DEF RunningHeld
    <3>1. CASE bridgeOfKey = e
      <4>1. conn'[c].pc = "stopOld" /\ conn'[c].old = e BY <2>2, <2>4, <3>1, RdpAssumption
      <4> QED BY <4>1 DEF Held
    <3>2. CASE bridgeOfKey # e
      <4>1. Held(e) BY <3>2 DEF RunningHeld
      <4> QED BY <2>0, <2>4, <4>1, HeldStays
    <3> QED BY <3>1, <3>2
  <2> QED BY <2>6, <2>7, <2>8
<1> QED BY <1>1, <1>2

\* A desktop ends, its goroutine clears what still names it, its id is used again.
LEMMA RdpExitsKeep ==
  ASSUME RdpIInv, NEW b \in Bridges, Exit(b) \/ Cleared(b) \/ Recycle(b)
  PROVE  RdpIInv'
<1> USE DEF RdpIInv
<1>0. /\ bridge \in [Bridges -> BridgeRecord] /\ bridge[b] \in BridgeRecord /\ conn' = conn
      BY DEF RdpTypeOK, Exit, Cleared, Recycle
<1>1. \A e : Held(e)' <=> Held(e) BY <1>0 DEF Held
<1>2. ASSUME NEW g \in BridgeRecord, g.state # "up", bridge' = [bridge EXCEPT ![b] = g],
             UNCHANGED <<bridgeOfKey, sessionOfKey, sessionsByID>>
      PROVE  RdpIInv'
  <2>1. bridge' \in [Bridges -> BridgeRecord] /\ bridge'[b] = g /\ \A e \in Bridges \ {b} : bridge'[e] = bridge[e]
        BY <1>0, <1>2
  <2>2. RdpTypeOK' BY <1>0, <1>2, <2>1 DEF RdpTypeOK
  <2>3. MapsAgree' BY <1>2 DEF MapsAgree
  <2>4. RunningHeld' BY <1>1, <1>2, <2>1 DEF RunningHeld
  <2> QED BY <2>2, <2>3, <2>4
<1>3. CASE Exit(b)
  <2>1. PICK g : g = [bridge[b] EXCEPT !.state = "exited"] OBVIOUS
  <2>2. g \in BridgeRecord /\ g.state = "exited" BY <1>0, <2>1 DEF BridgeRecord
  <2>3. bridge' = [bridge EXCEPT ![b] = g] /\ UNCHANGED <<bridgeOfKey, sessionOfKey, sessionsByID>>
        BY <1>0, <1>3, <2>1 DEF Exit, Stopped, maps
  <2> QED BY <1>2, <2>2, <2>3
<1>4. CASE Cleared(b)
  <2>1. /\ bridge[b].state = "exited" /\ bridge' = bridge
        /\ bridgeOfKey' = IF bridgeOfKey = b THEN "none" ELSE bridgeOfKey
        /\ sessionOfKey' = IF sessionOfKey = b THEN "none" ELSE sessionOfKey
        /\ sessionsByID' = sessionsByID \ {b}
        BY <1>4 DEF Cleared
  <2>2. RdpTypeOK' BY <1>0, <2>1 DEF RdpTypeOK
  <2>3. MapsAgree' BY <2>1 DEF MapsAgree
  <2>4. RunningHeld' BY <1>1, <2>1 DEF RunningHeld
  <2> QED BY <2>2, <2>3, <2>4
<1>5. CASE Recycle(b)
  <2>1. bridge' = [bridge EXCEPT ![b] = Unused] /\ UNCHANGED <<bridgeOfKey, sessionOfKey, sessionsByID>>
        BY <1>5 DEF Recycle, maps
  <2> QED BY <1>2, <2>1, RdpIdle
<1> QED BY <1>3, <1>4, <1>5

\* No desktop runs unlisted once its start has ended, and a user has one session per target,
\* for any number of requests and desktops (BridgesListed).
THEOREM BridgesAreListed == RdpSpec => []BridgesListed
<1>1. RdpIInv /\ [RdpNext]_rdpVars => RdpIInv'
  <2> SUFFICES ASSUME RdpIInv, [RdpNext]_rdpVars PROVE RdpIInv'
      OBVIOUS
  <2>1. CASE UNCHANGED rdpVars
        BY <2>1 DEF rdpVars, RdpIInv, RdpTypeOK, MapsAgree, RunningHeld, Held
  <2>2. CASE RdpNext BY <2>2, RdpRequestsKeep, RdpStartsKeep, RdpExitsKeep DEF RdpNext
  <2> QED BY <2>1, <2>2
<1>2. RdpIInv => BridgesListed
  <2> SUFFICES ASSUME RdpIInv PROVE BridgesListed
      OBVIOUS
  <2>1. OneSessionPerKey BY DEF RdpIInv, MapsAgree, OneSessionPerKey
  <2>2. NoBridgeLost
    <3> SUFFICES ASSUME NEW b \in Bridges, bridge[b].state = "up", ~InHand(b)
                 PROVE  bridgeOfKey = b /\ sessionOfKey = b /\ b \in sessionsByID
        BY DEF NoBridgeLost
    <3>1. ~Held(b) BY DEF Held, InHand
    <3>2. bridgeOfKey = b BY <3>1 DEF RdpIInv, RunningHeld
    <3>3. b # "none" BY RdpAssumption
    <3> QED BY <3>2, <3>3 DEF RdpIInv, MapsAgree
  <2> QED BY <2>1, <2>2 DEF BridgesListed
<1> QED BY <1>1, <1>2, RdpStart, PTL DEF RdpSpec

--------------------------------------------------------------------------------
(* Captures and their slots (VideoRecording).                                *)

Early == {"idle", "acquire", "start", "grace", "insert", "mark", "register"}
GrabPlaces == Early \cup {"return", "free", "ended"}
FinishRecord == [pc : {"idle", "cancel", "take", "stop", "free", "close", "finished"}, handle : BOOLEAN, started : BOOLEAN]
RegistryRecord == [pending : SUBSET Captures, active : SUBSET Captures, started : SUBSET Captures]

VideoTypeOK ==
  /\ grab \in [Captures -> GrabPlaces]
  /\ ffmpeg \in [Captures -> {"none", "running", "stopped", "killed"}]
  /\ row \in [Captures -> {"none", "open", "closed"}]
  /\ registry \in RegistryRecord
  /\ slots \in Nat /\ ownCancel \subseteq Captures
  /\ finisher \in [Captures -> [Finishers -> FinishRecord]]

\* Before it registers, a capture has no handle, and its cancel function waits in pending, was
\* called, or is about to be; nothing has finished a session whose function still waits.
Unregistered(s) ==
  /\ grab[s] \in Early =>
       /\ s \notin released /\ s \notin registry.active /\ s \notin ownCancel
       /\ \A f \in Finishers : finisher[s][f].handle = FALSE /\ finisher[s][f].pc \notin {"stop", "free"}
  /\ grab[s] = "idle" => s \notin cancelled /\ \A f \in Finishers : finisher[s][f].pc = "idle"
  /\ grab[s] \in {"idle", "acquire", "start"} => ffmpeg[s] = "none"
  /\ grab[s] \in Early \ {"idle"} =>
       s \in registry.pending \/ s \in cancelled \/ \E f \in Finishers : finisher[s][f].pc = "cancel"
  /\ s \in registry.pending =>
       s \notin cancelled /\ \A f \in Finishers : finisher[s][f].pc = "idle"

\* After that somebody ends ffmpeg: it has ended, the context has been or is being cancelled, the
\* handle waits for whoever finishes the session, or one of those has it.
SomebodyStops(s) ==
  grab[s] \notin Early =>
    \/ s \in cancelled \/ ffmpeg[s] # "running"
    \/ \E f \in Finishers : finisher[s][f].pc \in {"cancel", "stop"}
    \/ s \in registry.active /\ \A f \in Finishers : finisher[s][f].pc \in {"idle", "cancel", "take"}

\* A handle's context is cancelled once ffmpeg has ended, and no other cancel is under way.
StoppedFirst(s) ==
  /\ s \notin cancelled => ffmpeg[s] # "killed"
  /\ s \in ownCancel =>
       /\ ffmpeg[s] # "killed" /\ s \notin registry.pending
       /\ s \in cancelled => ffmpeg[s] # "running"
       /\ \A f \in Finishers : finisher[s][f].pc # "cancel"
  /\ \A f \in Finishers : finisher[s][f].handle = TRUE /\ finisher[s][f].pc \in {"free", "close", "finished"} =>
       ffmpeg[s] # "running"

\* An open row is marked once the goroutine is past the mark, and somebody who knows of it closes it.
SomebodyCloses(s) ==
  row[s] = "open" =>
    /\ grab[s] \notin Early \ {"mark", "register"}
    /\ grab[s] # "mark" => s \in registry.started
    /\ \/ s \in unmarked
       \/ \A f \in Finishers : finisher[s][f].pc = "idle"
       \/ \E f \in Finishers : finisher[s][f].pc \in {"cancel", "take"}
       \/ \E f \in Finishers : finisher[s][f].pc \in {"stop", "free", "close"} /\ finisher[s][f].started = TRUE

CaptureOK(s) == Unregistered(s) /\ SomebodyStops(s) /\ StoppedFirst(s) /\ SomebodyCloses(s)
CapturesOK == \A s \in Captures : CaptureOK(s)

\* A token is out for a goroutine that has not returned it.
Holding == {s \in Captures : grab[s] \notin {"idle", "acquire", "ended"} /\ s \notin released}
SlotsHeld == slots <= Cardinality(Holding)

VideoIInv == VideoTypeOK /\ CapturesOK /\ SlotsHeld

\* A step on one capture leaves the others.
Elsewhere(s) == \A x \in Captures \ {s} :
  /\ grab'[x] = grab[x] /\ ffmpeg'[x] = ffmpeg[x] /\ row'[x] = row[x] /\ finisher'[x] = finisher[x]
  /\ x \in cancelled' <=> x \in cancelled
  /\ x \in registry'.pending <=> x \in registry.pending
  /\ x \in registry'.active <=> x \in registry.active
  /\ x \in registry'.started <=> x \in registry.started
  /\ x \in ownCancel' <=> x \in ownCancel
  /\ x \in released' <=> x \in released
  /\ x \in unmarked' <=> x \in unmarked

\* What was true of them stays true.
LEMMA OthersStay ==
  ASSUME CapturesOK, NEW s \in Captures, Elsewhere(s), CaptureOK(s)'
  PROVE  CapturesOK'
<1> SUFFICES ASSUME NEW x \in Captures, x # s PROVE CaptureOK(x)'
    BY DEF CapturesOK
<1>1. CaptureOK(x) BY DEF CapturesOK
<1>2. /\ grab'[x] = grab[x] /\ ffmpeg'[x] = ffmpeg[x] /\ row'[x] = row[x] /\ finisher'[x] = finisher[x]
      /\ x \in cancelled' <=> x \in cancelled
      /\ x \in registry'.pending <=> x \in registry.pending
      /\ x \in registry'.active <=> x \in registry.active
      /\ x \in registry'.started <=> x \in registry.started
      /\ x \in ownCancel' <=> x \in ownCancel
      /\ x \in released' <=> x \in released
      /\ x \in unmarked' <=> x \in unmarked
      BY DEF Elsewhere
<1>3. Unregistered(x)' BY <1>1, <1>2 DEF CaptureOK, Unregistered
<1>4. SomebodyStops(x)' BY <1>1, <1>2 DEF CaptureOK, SomebodyStops
<1>5. StoppedFirst(x)' BY <1>1, <1>2 DEF CaptureOK, StoppedFirst
<1>6. SomebodyCloses(x)' BY <1>1, <1>2 DEF CaptureOK, SomebodyCloses
<1> QED BY <1>3, <1>4, <1>5, <1>6 DEF CaptureOK

\* A token is taken by one that holds none, or given back by one that may hold one.
LEMMA SlotsMove ==
  ASSUME VideoTypeOK, SlotsHeld, NEW s \in Captures, Elsewhere(s),
         \/ slots' = slots /\ (s \in Holding' <=> s \in Holding)
         \/ slots' = slots + 1 /\ s \notin Holding /\ s \in Holding'
         \/ slots' = Token /\ s \notin Holding'
  PROVE  SlotsHeld' /\ slots' \in Nat
<1>0. slots \in Nat BY DEF VideoTypeOK
<1>1. IsFiniteSet(Holding) BY VideoAssumption, FS_Subset DEF Holding
<1>2. PICK n \in Nat : n = Cardinality(Holding) BY <1>1, FS_CardinalityType
<1>3. slots <= n BY <1>2 DEF SlotsHeld
<1>4. \A x \in Captures \ {s} : x \in Holding' <=> x \in Holding BY DEF Holding, Elsewhere
<1>5. Holding \subseteq Captures /\ Holding' \subseteq Captures BY DEF Holding
<1>6. CASE slots' = slots /\ (s \in Holding' <=> s \in Holding)
  <2>1. Holding' = Holding BY <1>4, <1>5, <1>6
  <2>2. Cardinality(Holding)' = Cardinality(Holding) BY <2>1
  <2> QED BY <1>0, <1>6, <2>2 DEF SlotsHeld
<1>7. CASE slots' = slots + 1 /\ s \notin Holding /\ s \in Holding'
  <2>1. Holding' = Holding \cup {s} BY <1>4, <1>5, <1>7
  <2>2. Cardinality(Holding \cup {s}) = n + 1 BY <1>1, <1>2, <1>7, FS_AddElement
  <2>3. Cardinality(Holding)' = n + 1 BY <2>1, <2>2
  <2> QED BY <1>0, <1>3, <1>7, <2>3 DEF SlotsHeld
<1>8. CASE slots' = Token /\ s \notin Holding'
  <2>1. Holding' = Holding \ {s} BY <1>4, <1>5, <1>8
  <2>2. PICK m \in Nat : m = Cardinality(Holding \ {s}) BY <1>1, FS_RemoveElement, FS_CardinalityType
  <2>3. m = IF s \in Holding THEN n - 1 ELSE n BY <1>1, <1>2, <2>2, FS_RemoveElement
  <2>4. Cardinality(Holding)' = m BY <2>1, <2>2
  <2>5. slots' \in Nat /\ slots' <= m
    <3>1. CASE slots > 0
      <4>1. slots' = slots - 1 BY <1>8, <3>1 DEF Token
      <4> QED BY <1>0, <1>3, <2>3, <3>1, <4>1
    <3>2. CASE slots = 0
      <4>1. slots' = 0 BY <1>8, <3>2 DEF Token
      <4> QED BY <2>2, <4>1
    <3> QED BY <1>0, <3>1, <3>2
  <2> QED BY <2>4, <2>5 DEF SlotsHeld
<1> QED BY <1>6, <1>7, <1>8

\* Nothing is captured at first.
LEMMA VideoStart == VideoInit => VideoIInv
<1> SUFFICES ASSUME VideoInit PROVE VideoIInv
    OBVIOUS
<1>1. NotFinishing \in FinishRecord /\ NotFinishing.pc = "idle" /\ NotFinishing.handle = FALSE
      BY DEF NotFinishing, FinishRecord
<1>2. /\ finisher \in [Captures -> [Finishers -> FinishRecord]]
      /\ \A s \in Captures, f \in Finishers : finisher[s][f] = NotFinishing
      BY <1>1 DEF VideoInit
<1>3. registry \in RegistryRecord /\ registry.pending = {} /\ registry.active = {}
      BY DEF VideoInit, RegistryRecord
<1>4. grab \in [Captures -> GrabPlaces] /\ \A s \in Captures : grab[s] = "idle" BY DEF VideoInit, GrabPlaces, Early
<1>5. /\ ffmpeg \in [Captures -> {"none", "running", "stopped", "killed"}]
      /\ row \in [Captures -> {"none", "open", "closed"}] /\ slots \in Nat /\ slots = 0
      /\ \A s \in Captures : ffmpeg[s] = "none" /\ row[s] = "none"
      /\ cancelled = {} /\ ownCancel = {} /\ released = {}
      BY DEF VideoInit
<1>6. VideoTypeOK BY <1>2, <1>3, <1>4, <1>5 DEF VideoTypeOK
<1>7. CapturesOK
  <2> SUFFICES ASSUME NEW s \in Captures PROVE CaptureOK(s)
      BY DEF CapturesOK
  <2>1. /\ grab[s] = "idle" /\ ffmpeg[s] = "none" /\ row[s] = "none"
        /\ \A f \in Finishers : finisher[s][f].pc = "idle" /\ finisher[s][f].handle = FALSE
        BY <1>1, <1>2, <1>4, <1>5
  <2>2. Unregistered(s) BY <1>3, <1>5, <2>1 DEF Unregistered
  <2>3. SomebodyStops(s) /\ StoppedFirst(s) /\ SomebodyCloses(s)
        BY <1>5, <2>1 DEF SomebodyStops, StoppedFirst, SomebodyCloses, Early
  <2> QED BY <2>2, <2>3 DEF CaptureOK
<1>8. SlotsHeld
  <2>1. Holding = {} BY <1>4 DEF Holding
  <2> QED BY <1>5, <2>1, FS_EmptySet DEF SlotsHeld
<1> QED BY <1>6, <1>7, <1>8 DEF VideoIInv

\* The step keeps the types, leaves the other captures, and leaves the one it is about in order.
LEMMA CaptureStep ==
  ASSUME VideoIInv, NEW s \in Captures,
         grab' \in [Captures -> GrabPlaces], ffmpeg' \in [Captures -> {"none", "running", "stopped", "killed"}],
         row' \in [Captures -> {"none", "open", "closed"}], registry' \in RegistryRecord, ownCancel' \subseteq Captures,
         finisher' \in [Captures -> [Finishers -> FinishRecord]],
         Elsewhere(s), CaptureOK(s)',
         \/ slots' = slots /\ (s \in Holding' <=> s \in Holding)
         \/ slots' = slots + 1 /\ s \notin Holding /\ s \in Holding'
         \/ slots' = Token /\ s \notin Holding'
  PROVE  VideoIInv'
<1>1. VideoTypeOK /\ CapturesOK /\ SlotsHeld BY DEF VideoIInv
<1>2. CapturesOK' BY <1>1, OthersStay
<1>3. SlotsHeld' /\ slots' \in Nat BY <1>1, SlotsMove
<1>4. VideoTypeOK' BY <1>3 DEF VideoTypeOK
<1> QED BY <1>2, <1>3, <1>4 DEF VideoIInv

\* The goroutine up to the start of ffmpeg.
LEMMA StartStepsKeep ==
  ASSUME VideoIInv, NEW s \in Captures, StartVideoRecording(s) \/ Acquire(s) \/ StartCapture(s) \/ Started(s)
  PROVE  VideoIInv'
<1>0. /\ grab \in [Captures -> GrabPlaces] /\ ffmpeg \in [Captures -> {"none", "running", "stopped", "killed"}]
      /\ row \in [Captures -> {"none", "open", "closed"}] /\ registry \in RegistryRecord /\ slots \in Nat
      /\ finisher \in [Captures -> [Finishers -> FinishRecord]] /\ ownCancel \subseteq Captures
      BY DEF VideoIInv, VideoTypeOK
<1>1. Unregistered(s) /\ SomebodyStops(s) /\ StoppedFirst(s) /\ SomebodyCloses(s)
      BY DEF VideoIInv, CapturesOK, CaptureOK
<1>2. CASE StartVideoRecording(s)
  <2>1. /\ grab[s] = "idle" /\ grab' = [grab EXCEPT ![s] = "acquire"] /\ ffmpeg' = ffmpeg
        /\ row' = row /\ cancelled' = cancelled /\ ownCancel' = ownCancel /\ released' = released
        /\ unmarked' = unmarked /\ finisher' = finisher
        BY <1>0, <1>2 DEF StartVideoRecording, GrabAt, GrabTo
  <2>2. /\ registry' \in RegistryRecord /\ registry'.pending = registry.pending \cup {s}
        /\ registry'.active = registry.active /\ registry'.started = registry.started
        BY <1>0, <1>2 DEF StartVideoRecording, GrabAt, GrabTo, RegistryRecord
  <2>3. /\ ownCancel' \subseteq Captures /\ grab' \in [Captures -> GrabPlaces]
        /\ grab'[s] = "acquire" /\ ffmpeg' \in [Captures -> {"none", "running", "stopped", "killed"}]
        /\ row' \in [Captures -> {"none", "open", "closed"}]
        BY <1>0, <2>1 DEF GrabPlaces, Early
  <2>4. Elsewhere(s) BY <1>0, <2>1, <2>2 DEF Elsewhere
  <2>5. Unregistered(s)' BY <1>0, <1>1, <2>1, <2>2, <2>3 DEF Unregistered, Early
  <2>6. SomebodyStops(s)' BY <1>0, <1>1, <2>1, <2>2, <2>3 DEF Unregistered, SomebodyStops, Early
  <2>7. StoppedFirst(s)' BY <1>0, <1>1, <2>1, <2>2, <2>3 DEF Unregistered, StoppedFirst, Early
  <2>8. SomebodyCloses(s)' BY <1>0, <1>1, <2>1, <2>2, <2>3 DEF Unregistered, SomebodyCloses, Early
  <2>9. CaptureOK(s)' BY <2>5, <2>6, <2>7, <2>8 DEF CaptureOK
  <2>10. slots' = slots /\ (s \in Holding' <=> s \in Holding)
        BY <1>0, <1>1, <1>2, <2>1, <2>2, <2>3 DEF StartVideoRecording, GrabAt, GrabTo, Holding, Unregistered, Early
  <2> QED BY <1>0, <2>1, <2>1, <2>2, <2>3, <2>4, <2>9, <2>10, CaptureStep
<1>3. CASE Acquire(s)
  <2>1. CASE slots' = slots + 1 /\ GrabTo(s, "start") /\ UNCHANGED registry
    <3>1. /\ grab[s] = "acquire" /\ grab' = [grab EXCEPT ![s] = "start"] /\ ffmpeg' = ffmpeg
          /\ row' = row /\ cancelled' = cancelled /\ ownCancel' = ownCancel /\ released' = released
          /\ unmarked' = unmarked /\ finisher' = finisher
          BY <1>0, <1>3, <2>1 DEF Acquire, GrabAt, GrabTo
    <3>2. /\ registry' \in RegistryRecord /\ registry'.pending = registry.pending
          /\ registry'.active = registry.active /\ registry'.started = registry.started
          BY <1>0, <1>3, <2>1 DEF Acquire, GrabAt, GrabTo, RegistryRecord
    <3>3. /\ ownCancel' \subseteq Captures /\ grab' \in [Captures -> GrabPlaces]
          /\ grab'[s] = "start" /\ ffmpeg' \in [Captures -> {"none", "running", "stopped", "killed"}]
          /\ row' \in [Captures -> {"none", "open", "closed"}]
          BY <1>0, <3>1 DEF GrabPlaces, Early
    <3>4. Elsewhere(s) BY <1>0, <3>1, <3>2 DEF Elsewhere
    <3>5. Unregistered(s)' BY <1>0, <1>1, <3>1, <3>2, <3>3 DEF Unregistered, Early
    <3>6. SomebodyStops(s)' BY <1>0, <1>1, <3>1, <3>2, <3>3 DEF Unregistered, SomebodyStops, Early
    <3>7. StoppedFirst(s)' BY <1>0, <1>1, <3>1, <3>2, <3>3 DEF Unregistered, StoppedFirst, Early
    <3>8. SomebodyCloses(s)' BY <1>0, <1>1, <3>1, <3>2, <3>3 DEF Unregistered, SomebodyCloses, Early
    <3>9. CaptureOK(s)' BY <3>5, <3>6, <3>7, <3>8 DEF CaptureOK
    <3>10. slots' = slots + 1 /\ s \notin Holding /\ s \in Holding'
          BY <1>0, <1>1, <1>3, <2>1, <3>1, <3>2, <3>3 DEF Acquire, GrabAt, GrabTo, Holding, Unregistered, Early
    <3> QED BY <1>0, <3>1, <3>1, <3>2, <3>3, <3>4, <3>9, <3>10, CaptureStep
  <2>2. CASE UNCHANGED slots /\ GrabTo(s, "ended") /\ registry' = [registry EXCEPT !.pending = @ \ {s}]
    <3>1. /\ grab[s] = "acquire" /\ grab' = [grab EXCEPT ![s] = "ended"] /\ ffmpeg' = ffmpeg
          /\ row' = row /\ cancelled' = cancelled /\ ownCancel' = ownCancel /\ released' = released
          /\ unmarked' = unmarked /\ finisher' = finisher
          BY <1>0, <1>3, <2>2 DEF Acquire, GrabAt, GrabTo
    <3>2. /\ registry' \in RegistryRecord /\ registry'.pending = registry.pending \ {s}
          /\ registry'.active = registry.active /\ registry'.started = registry.started
          BY <1>0, <1>3, <2>2 DEF Acquire, GrabAt, GrabTo, RegistryRecord
    <3>3. /\ ownCancel' \subseteq Captures /\ grab' \in [Captures -> GrabPlaces]
          /\ grab'[s] = "ended" /\ ffmpeg' \in [Captures -> {"none", "running", "stopped", "killed"}]
          /\ row' \in [Captures -> {"none", "open", "closed"}]
          BY <1>0, <3>1 DEF GrabPlaces, Early
    <3>4. Elsewhere(s) BY <1>0, <3>1, <3>2 DEF Elsewhere
    <3>5. Unregistered(s)' BY <1>0, <1>1, <3>1, <3>2, <3>3 DEF Unregistered, Early
    <3>6. SomebodyStops(s)' BY <1>0, <1>1, <3>1, <3>2, <3>3 DEF Unregistered, SomebodyStops, Early
    <3>7. StoppedFirst(s)' BY <1>0, <1>1, <3>1, <3>2, <3>3 DEF Unregistered, StoppedFirst, Early
    <3>8. SomebodyCloses(s)' BY <1>0, <1>1, <3>1, <3>2, <3>3 DEF Unregistered, SomebodyCloses, Early
    <3>9. CaptureOK(s)' BY <3>5, <3>6, <3>7, <3>8 DEF CaptureOK
    <3>10. slots' = slots /\ (s \in Holding' <=> s \in Holding)
          BY <1>0, <1>1, <1>3, <2>2, <3>1, <3>2, <3>3 DEF Acquire, GrabAt, GrabTo, Holding, Unregistered, Early
    <3> QED BY <1>0, <3>1, <3>1, <3>2, <3>3, <3>4, <3>9, <3>10, CaptureStep
  <2> QED BY <1>3, <2>1, <2>2 DEF Acquire, GrabAt, GrabTo
<1>4. CASE StartCapture(s)
  <2>1. CASE s \notin cancelled /\ ffmpeg' = [ffmpeg EXCEPT ![s] = "running"] /\ GrabTo(s, "grace")
    <3>1. /\ grab[s] = "start" /\ grab' = [grab EXCEPT ![s] = "grace"]
          /\ ffmpeg' = [ffmpeg EXCEPT ![s] = "running"] /\ row' = row /\ cancelled' = cancelled
          /\ ownCancel' = ownCancel /\ released' = released /\ unmarked' = unmarked
          /\ finisher' = finisher /\ s \notin cancelled
          BY <1>0, <1>4, <2>1 DEF StartCapture, GrabAt, GrabTo
    <3>2. /\ registry' \in RegistryRecord /\ registry'.pending = registry.pending
          /\ registry'.active = registry.active /\ registry'.started = registry.started
          BY <1>0, <1>4, <2>1 DEF StartCapture, GrabAt, GrabTo, RegistryRecord
    <3>3. /\ ownCancel' \subseteq Captures /\ grab' \in [Captures -> GrabPlaces]
          /\ grab'[s] = "grace" /\ ffmpeg' \in [Captures -> {"none", "running", "stopped", "killed"}]
          /\ ffmpeg'[s] = "running" /\ row' \in [Captures -> {"none", "open", "closed"}]
          BY <1>0, <3>1 DEF GrabPlaces, Early
    <3>4. Elsewhere(s) BY <1>0, <3>1, <3>2 DEF Elsewhere
    <3>5. Unregistered(s)' BY <1>0, <1>1, <3>1, <3>2, <3>3 DEF Unregistered, Early
    <3>6. SomebodyStops(s)' BY <1>0, <1>1, <3>1, <3>2, <3>3 DEF Unregistered, SomebodyStops, Early
    <3>7. StoppedFirst(s)' BY <1>0, <1>1, <3>1, <3>2, <3>3 DEF Unregistered, StoppedFirst, Early
    <3>8. SomebodyCloses(s)' BY <1>0, <1>1, <3>1, <3>2, <3>3 DEF Unregistered, SomebodyCloses, Early
    <3>9. CaptureOK(s)' BY <3>5, <3>6, <3>7, <3>8 DEF CaptureOK
    <3>10. slots' = slots /\ (s \in Holding' <=> s \in Holding)
          BY <1>0, <1>1, <1>4, <2>1, <3>1, <3>2, <3>3 DEF StartCapture, GrabAt, GrabTo, Holding, Unregistered, Early
    <3> QED BY <1>0, <3>1, <3>1, <3>2, <3>3, <3>4, <3>9, <3>10, CaptureStep
  <2>2. CASE UNCHANGED ffmpeg /\ GrabTo(s, "return")
    <3>1. /\ grab[s] = "start" /\ grab' = [grab EXCEPT ![s] = "return"] /\ ffmpeg' = ffmpeg
          /\ row' = row /\ cancelled' = cancelled /\ ownCancel' = ownCancel /\ released' = released
          /\ unmarked' = unmarked /\ finisher' = finisher
          BY <1>0, <1>4, <2>2 DEF StartCapture, GrabAt, GrabTo
    <3>2. /\ registry' \in RegistryRecord /\ registry'.pending = registry.pending
          /\ registry'.active = registry.active /\ registry'.started = registry.started
          BY <1>0, <1>4, <2>2 DEF StartCapture, GrabAt, GrabTo, RegistryRecord
    <3>3. /\ ownCancel' \subseteq Captures /\ grab' \in [Captures -> GrabPlaces]
          /\ grab'[s] = "return" /\ ffmpeg' \in [Captures -> {"none", "running", "stopped", "killed"}]
          /\ row' \in [Captures -> {"none", "open", "closed"}]
          BY <1>0, <3>1 DEF GrabPlaces, Early
    <3>4. Elsewhere(s) BY <1>0, <3>1, <3>2 DEF Elsewhere
    <3>5. Unregistered(s)' BY <1>0, <1>1, <3>1, <3>2, <3>3 DEF Unregistered, Early
    <3>6. SomebodyStops(s)' BY <1>0, <1>1, <3>1, <3>2, <3>3 DEF Unregistered, SomebodyStops, Early
    <3>7. StoppedFirst(s)' BY <1>0, <1>1, <3>1, <3>2, <3>3 DEF Unregistered, StoppedFirst, Early
    <3>8. SomebodyCloses(s)' BY <1>0, <1>1, <3>1, <3>2, <3>3 DEF Unregistered, SomebodyCloses, Early
    <3>9. CaptureOK(s)' BY <3>5, <3>6, <3>7, <3>8 DEF CaptureOK
    <3>10. slots' = slots /\ (s \in Holding' <=> s \in Holding)
          BY <1>0, <1>1, <1>4, <2>2, <3>1, <3>2, <3>3 DEF StartCapture, GrabAt, GrabTo, Holding, Unregistered, Early
    <3> QED BY <1>0, <3>1, <3>1, <3>2, <3>3, <3>4, <3>9, <3>10, CaptureStep
  <2> QED BY <1>4, <2>1, <2>2 DEF StartCapture, GrabAt, GrabTo
<1>5. CASE Started(s)
  <2>1. CASE ffmpeg[s] # "running"
    <3>1. /\ grab[s] = "grace" /\ grab' = [grab EXCEPT ![s] = "return"] /\ ffmpeg' = ffmpeg
          /\ row' = row /\ cancelled' = cancelled /\ ownCancel' = ownCancel /\ released' = released
          /\ unmarked' = unmarked /\ finisher' = finisher /\ ffmpeg[s] # "running"
          BY <1>0, <1>5, <2>1 DEF Started, GrabAt, GrabTo
    <3>2. /\ registry' \in RegistryRecord /\ registry'.pending = registry.pending
          /\ registry'.active = registry.active /\ registry'.started = registry.started
          BY <1>0, <1>5, <2>1 DEF Started, GrabAt, GrabTo, RegistryRecord
    <3>3. /\ ownCancel' \subseteq Captures /\ grab' \in [Captures -> GrabPlaces]
          /\ grab'[s] = "return" /\ ffmpeg' \in [Captures -> {"none", "running", "stopped", "killed"}]
          /\ row' \in [Captures -> {"none", "open", "closed"}]
          BY <1>0, <3>1 DEF GrabPlaces, Early
    <3>4. Elsewhere(s) BY <1>0, <3>1, <3>2 DEF Elsewhere
    <3>5. Unregistered(s)' BY <1>0, <1>1, <3>1, <3>2, <3>3 DEF Unregistered, Early
    <3>6. SomebodyStops(s)' BY <1>0, <1>1, <3>1, <3>2, <3>3 DEF Unregistered, SomebodyStops, Early
    <3>7. StoppedFirst(s)' BY <1>0, <1>1, <3>1, <3>2, <3>3 DEF Unregistered, StoppedFirst, Early
    <3>8. SomebodyCloses(s)' BY <1>0, <1>1, <3>1, <3>2, <3>3 DEF Unregistered, SomebodyCloses, Early
    <3>9. CaptureOK(s)' BY <3>5, <3>6, <3>7, <3>8 DEF CaptureOK
    <3>10. slots' = slots /\ (s \in Holding' <=> s \in Holding)
          BY <1>0, <1>1, <1>5, <2>1, <3>1, <3>2, <3>3 DEF Started, GrabAt, GrabTo, Holding, Unregistered, Early
    <3> QED BY <1>0, <3>1, <3>1, <3>2, <3>3, <3>4, <3>9, <3>10, CaptureStep
  <2>2. CASE ffmpeg[s] = "running" /\ s \in cancelled
    <3>1. /\ grab[s] = "grace" /\ grab' = [grab EXCEPT ![s] = "return"]
          /\ ffmpeg' = [ffmpeg EXCEPT ![s] = "stopped"] /\ row' = row /\ cancelled' = cancelled
          /\ ownCancel' = ownCancel /\ released' = released /\ unmarked' = unmarked
          /\ finisher' = finisher /\ s \in cancelled
          BY <1>0, <1>5, <2>2 DEF Started, GrabAt, GrabTo
    <3>2. /\ registry' \in RegistryRecord /\ registry'.pending = registry.pending
          /\ registry'.active = registry.active /\ registry'.started = registry.started
          BY <1>0, <1>5, <2>2 DEF Started, GrabAt, GrabTo, RegistryRecord
    <3>3. /\ ownCancel' \subseteq Captures /\ grab' \in [Captures -> GrabPlaces]
          /\ grab'[s] = "return" /\ ffmpeg' \in [Captures -> {"none", "running", "stopped", "killed"}]
          /\ ffmpeg'[s] = "stopped" /\ row' \in [Captures -> {"none", "open", "closed"}]
          BY <1>0, <3>1 DEF GrabPlaces, Early
    <3>4. Elsewhere(s) BY <1>0, <3>1, <3>2 DEF Elsewhere
    <3>5. Unregistered(s)' BY <1>0, <1>1, <3>1, <3>2, <3>3 DEF Unregistered, Early
    <3>6. SomebodyStops(s)' BY <1>0, <1>1, <3>1, <3>2, <3>3 DEF Unregistered, SomebodyStops, Early
    <3>7. StoppedFirst(s)' BY <1>0, <1>1, <3>1, <3>2, <3>3 DEF Unregistered, StoppedFirst, Early
    <3>8. SomebodyCloses(s)' BY <1>0, <1>1, <3>1, <3>2, <3>3 DEF Unregistered, SomebodyCloses, Early
    <3>9. CaptureOK(s)' BY <3>5, <3>6, <3>7, <3>8 DEF CaptureOK
    <3>10. slots' = slots /\ (s \in Holding' <=> s \in Holding)
          BY <1>0, <1>1, <1>5, <2>2, <3>1, <3>2, <3>3 DEF Started, GrabAt, GrabTo, Holding, Unregistered, Early
    <3> QED BY <1>0, <3>1, <3>1, <3>2, <3>3, <3>4, <3>9, <3>10, CaptureStep
  <2>3. CASE ffmpeg[s] = "running" /\ s \notin cancelled
    <3>1. /\ grab[s] = "grace" /\ grab' = [grab EXCEPT ![s] = "insert"] /\ ffmpeg' = ffmpeg
          /\ row' = row /\ cancelled' = cancelled /\ ownCancel' = ownCancel /\ released' = released
          /\ unmarked' = unmarked /\ finisher' = finisher /\ s \notin cancelled
          BY <1>0, <1>5, <2>3 DEF Started, GrabAt, GrabTo
    <3>2. /\ registry' \in RegistryRecord /\ registry'.pending = registry.pending
          /\ registry'.active = registry.active /\ registry'.started = registry.started
          BY <1>0, <1>5, <2>3 DEF Started, GrabAt, GrabTo, RegistryRecord
    <3>3. /\ ownCancel' \subseteq Captures /\ grab' \in [Captures -> GrabPlaces]
          /\ grab'[s] = "insert" /\ ffmpeg' \in [Captures -> {"none", "running", "stopped", "killed"}]
          /\ row' \in [Captures -> {"none", "open", "closed"}]
          BY <1>0, <3>1 DEF GrabPlaces, Early
    <3>4. Elsewhere(s) BY <1>0, <3>1, <3>2 DEF Elsewhere
    <3>5. Unregistered(s)' BY <1>0, <1>1, <3>1, <3>2, <3>3 DEF Unregistered, Early
    <3>6. SomebodyStops(s)' BY <1>0, <1>1, <3>1, <3>2, <3>3 DEF Unregistered, SomebodyStops, Early
    <3>7. StoppedFirst(s)' BY <1>0, <1>1, <3>1, <3>2, <3>3 DEF Unregistered, StoppedFirst, Early
    <3>8. SomebodyCloses(s)' BY <1>0, <1>1, <3>1, <3>2, <3>3 DEF Unregistered, SomebodyCloses, Early
    <3>9. CaptureOK(s)' BY <3>5, <3>6, <3>7, <3>8 DEF CaptureOK
    <3>10. slots' = slots /\ (s \in Holding' <=> s \in Holding)
          BY <1>0, <1>1, <1>5, <2>3, <3>1, <3>2, <3>3 DEF Started, GrabAt, GrabTo, Holding, Unregistered, Early
    <3> QED BY <1>0, <3>1, <3>1, <3>2, <3>3, <3>4, <3>9, <3>10, CaptureStep
  <2> QED BY <1>5, <2>1, <2>2, <2>3 DEF Started, GrabAt, GrabTo
<1> QED BY <1>2, <1>3, <1>4, <1>5

\* The goroutine from the row to its return, and the end of ffmpeg.
LEMMA CaptureStepsKeep ==
  ASSUME VideoIInv, NEW s \in Captures, InsertRow(s) \/ MarkStarted(s) \/ RegisterCapture(s) \/ ReturnCapture(s) \/ FreeSlot(s) \/ Killed(s) \/ FfmpegExits(s)
  PROVE  VideoIInv'
<1>0. /\ grab \in [Captures -> GrabPlaces] /\ ffmpeg \in [Captures -> {"none", "running", "stopped", "killed"}]
      /\ row \in [Captures -> {"none", "open", "closed"}] /\ registry \in RegistryRecord /\ slots \in Nat
      /\ finisher \in [Captures -> [Finishers -> FinishRecord]] /\ ownCancel \subseteq Captures
      BY DEF VideoIInv, VideoTypeOK
<1>1. Unregistered(s) /\ SomebodyStops(s) /\ StoppedFirst(s) /\ SomebodyCloses(s)
      BY DEF VideoIInv, CapturesOK, CaptureOK
<1>2. CASE InsertRow(s)
  <2>1. CASE s \notin cancelled /\ row' = [row EXCEPT ![s] = "open"] /\ GrabTo(s, "mark")
    <3>1. /\ grab[s] = "insert" /\ grab' = [grab EXCEPT ![s] = "mark"] /\ ffmpeg' = ffmpeg
          /\ row' = [row EXCEPT ![s] = "open"] /\ cancelled' = cancelled /\ ownCancel' = ownCancel
          /\ released' = released /\ unmarked' = unmarked /\ finisher' = finisher /\ s \notin cancelled
          BY <1>0, <1>2, <2>1 DEF InsertRow, GrabAt, GrabTo
    <3>2. /\ registry' \in RegistryRecord /\ registry'.pending = registry.pending
          /\ registry'.active = registry.active /\ registry'.started = registry.started
          BY <1>0, <1>2, <2>1 DEF InsertRow, GrabAt, GrabTo, RegistryRecord
    <3>3. /\ ownCancel' \subseteq Captures /\ grab' \in [Captures -> GrabPlaces]
          /\ grab'[s] = "mark" /\ ffmpeg' \in [Captures -> {"none", "running", "stopped", "killed"}]
          /\ row' \in [Captures -> {"none", "open", "closed"}] /\ row'[s] = "open"
          BY <1>0, <3>1 DEF GrabPlaces, Early
    <3>4. Elsewhere(s) BY <1>0, <3>1, <3>2 DEF Elsewhere
    <3>5. Unregistered(s)' BY <1>0, <1>1, <3>1, <3>2, <3>3 DEF Unregistered, Early
    <3>6. SomebodyStops(s)' BY <1>0, <1>1, <3>1, <3>2, <3>3 DEF Unregistered, SomebodyStops, Early
    <3>7. StoppedFirst(s)' BY <1>0, <1>1, <3>1, <3>2, <3>3 DEF Unregistered, StoppedFirst, Early
    <3>8. SomebodyCloses(s)' BY <1>0, <1>1, <3>1, <3>2, <3>3 DEF Unregistered, SomebodyCloses, Early
    <3>9. CaptureOK(s)' BY <3>5, <3>6, <3>7, <3>8 DEF CaptureOK
    <3>10. slots' = slots /\ (s \in Holding' <=> s \in Holding)
          BY <1>0, <1>1, <1>2, <2>1, <3>1, <3>2, <3>3 DEF InsertRow, GrabAt, GrabTo, Holding, Unregistered, Early
    <3> QED BY <1>0, <3>1, <3>1, <3>2, <3>3, <3>4, <3>9, <3>10, CaptureStep
  <2>2. CASE UNCHANGED row /\ GrabTo(s, "register")
    <3>1. /\ grab[s] = "insert" /\ grab' = [grab EXCEPT ![s] = "register"] /\ ffmpeg' = ffmpeg
          /\ row' = row /\ cancelled' = cancelled /\ ownCancel' = ownCancel /\ released' = released
          /\ unmarked' = unmarked /\ finisher' = finisher
          BY <1>0, <1>2, <2>2 DEF InsertRow, GrabAt, GrabTo
    <3>2. /\ registry' \in RegistryRecord /\ registry'.pending = registry.pending
          /\ registry'.active = registry.active /\ registry'.started = registry.started
          BY <1>0, <1>2, <2>2 DEF InsertRow, GrabAt, GrabTo, RegistryRecord
    <3>3. /\ ownCancel' \subseteq Captures /\ grab' \in [Captures -> GrabPlaces]
          /\ grab'[s] = "register" /\ ffmpeg' \in [Captures -> {"none", "running", "stopped", "killed"}]
          /\ row' \in [Captures -> {"none", "open", "closed"}]
          BY <1>0, <3>1 DEF GrabPlaces, Early
    <3>4. Elsewhere(s) BY <1>0, <3>1, <3>2 DEF Elsewhere
    <3>5. Unregistered(s)' BY <1>0, <1>1, <3>1, <3>2, <3>3 DEF Unregistered, Early
    <3>6. SomebodyStops(s)' BY <1>0, <1>1, <3>1, <3>2, <3>3 DEF Unregistered, SomebodyStops, Early
    <3>7. StoppedFirst(s)' BY <1>0, <1>1, <3>1, <3>2, <3>3 DEF Unregistered, StoppedFirst, Early
    <3>8. SomebodyCloses(s)' BY <1>0, <1>1, <3>1, <3>2, <3>3 DEF Unregistered, SomebodyCloses, Early
    <3>9. CaptureOK(s)' BY <3>5, <3>6, <3>7, <3>8 DEF CaptureOK
    <3>10. slots' = slots /\ (s \in Holding' <=> s \in Holding)
          BY <1>0, <1>1, <1>2, <2>2, <3>1, <3>2, <3>3 DEF InsertRow, GrabAt, GrabTo, Holding, Unregistered, Early
    <3> QED BY <1>0, <3>1, <3>1, <3>2, <3>3, <3>4, <3>9, <3>10, CaptureStep
  <2> QED BY <1>2, <2>1, <2>2 DEF InsertRow, GrabAt, GrabTo
<1>3. CASE MarkStarted(s)
  <2>1. /\ grab[s] = "mark" /\ grab' = [grab EXCEPT ![s] = "register"] /\ ffmpeg' = ffmpeg
        /\ row' = row /\ cancelled' = cancelled /\ ownCancel' = ownCancel /\ released' = released
        /\ unmarked' = unmarked /\ finisher' = finisher
        BY <1>0, <1>3 DEF MarkStarted, GrabAt, GrabTo
  <2>2. /\ registry' \in RegistryRecord /\ registry'.pending = registry.pending
        /\ registry'.active = registry.active /\ registry'.started = registry.started \cup {s}
        BY <1>0, <1>3 DEF MarkStarted, GrabAt, GrabTo, RegistryRecord
  <2>3. /\ ownCancel' \subseteq Captures /\ grab' \in [Captures -> GrabPlaces]
        /\ grab'[s] = "register" /\ ffmpeg' \in [Captures -> {"none", "running", "stopped", "killed"}]
        /\ row' \in [Captures -> {"none", "open", "closed"}]
        BY <1>0, <2>1 DEF GrabPlaces, Early
  <2>4. Elsewhere(s) BY <1>0, <2>1, <2>2 DEF Elsewhere
  <2>5. Unregistered(s)' BY <1>0, <1>1, <2>1, <2>2, <2>3 DEF Unregistered, Early
  <2>6. SomebodyStops(s)' BY <1>0, <1>1, <2>1, <2>2, <2>3 DEF Unregistered, SomebodyStops, Early
  <2>7. StoppedFirst(s)' BY <1>0, <1>1, <2>1, <2>2, <2>3 DEF Unregistered, StoppedFirst, Early
  <2>8. SomebodyCloses(s)' BY <1>0, <1>1, <2>1, <2>2, <2>3 DEF Unregistered, SomebodyCloses, Early
  <2>9. CaptureOK(s)' BY <2>5, <2>6, <2>7, <2>8 DEF CaptureOK
  <2>10. slots' = slots /\ (s \in Holding' <=> s \in Holding)
        BY <1>0, <1>1, <1>3, <2>1, <2>2, <2>3 DEF MarkStarted, GrabAt, GrabTo, Holding, Unregistered, Early
  <2> QED BY <1>0, <2>1, <2>1, <2>2, <2>3, <2>4, <2>9, <2>10, CaptureStep
<1>4. CASE RegisterCapture(s)
  <2>1. /\ grab[s] = "register" /\ grab' = [grab EXCEPT ![s] = "return"] /\ ffmpeg' = ffmpeg
        /\ row' = row /\ cancelled' = cancelled
        /\ ownCancel' = ownCancel \cup (registry.pending \cap {s}) /\ released' = released
        /\ unmarked' = unmarked /\ finisher' = finisher
        BY <1>0, <1>4 DEF RegisterCapture, GrabAt, GrabTo
  <2>2. /\ registry' \in RegistryRecord /\ registry'.pending = registry.pending \ {s}
        /\ registry'.active = registry.active \cup {s} /\ registry'.started = registry.started
        BY <1>0, <1>4 DEF RegisterCapture, GrabAt, GrabTo, RegistryRecord
  <2>3. /\ ownCancel' \subseteq Captures /\ grab' \in [Captures -> GrabPlaces]
        /\ grab'[s] = "return" /\ ffmpeg' \in [Captures -> {"none", "running", "stopped", "killed"}]
        /\ row' \in [Captures -> {"none", "open", "closed"}]
        BY <1>0, <2>1 DEF GrabPlaces, Early
  <2>4. Elsewhere(s) BY <1>0, <2>1, <2>2 DEF Elsewhere
  <2>5. Unregistered(s)' BY <1>0, <1>1, <2>1, <2>2, <2>3 DEF Unregistered, Early
  <2>6. SomebodyStops(s)' BY <1>0, <1>1, <2>1, <2>2, <2>3 DEF Unregistered, SomebodyStops, Early
  <2>7. StoppedFirst(s)' BY <1>0, <1>1, <2>1, <2>2, <2>3 DEF Unregistered, StoppedFirst, Early
  <2>8. SomebodyCloses(s)' BY <1>0, <1>1, <2>1, <2>2, <2>3 DEF Unregistered, SomebodyCloses, Early
  <2>9. CaptureOK(s)' BY <2>5, <2>6, <2>7, <2>8 DEF CaptureOK
  <2>10. slots' = slots /\ (s \in Holding' <=> s \in Holding)
        BY <1>0, <1>1, <1>4, <2>1, <2>2, <2>3 DEF RegisterCapture, GrabAt, GrabTo, Holding, Unregistered, Early
  <2> QED BY <1>0, <2>1, <2>1, <2>2, <2>3, <2>4, <2>9, <2>10, CaptureStep
<1>5. CASE ReturnCapture(s)
  <2>1. CASE s \in released
    <3>1. /\ grab[s] = "return" /\ grab' = [grab EXCEPT ![s] = "ended"] /\ ffmpeg' = ffmpeg
          /\ row' = row /\ cancelled' = cancelled /\ ownCancel' = ownCancel /\ released' = released
          /\ unmarked' = unmarked /\ finisher' = finisher /\ s \in released
          BY <1>0, <1>5, <2>1 DEF ReturnCapture, GrabAt, GrabTo
    <3>2. /\ registry' \in RegistryRecord /\ registry'.pending = registry.pending \ {s}
          /\ registry'.active = registry.active /\ registry'.started = registry.started
          BY <1>0, <1>5, <2>1 DEF ReturnCapture, GrabAt, GrabTo, RegistryRecord
    <3>3. /\ ownCancel' \subseteq Captures /\ grab' \in [Captures -> GrabPlaces]
          /\ grab'[s] = "ended" /\ ffmpeg' \in [Captures -> {"none", "running", "stopped", "killed"}]
          /\ row' \in [Captures -> {"none", "open", "closed"}]
          BY <1>0, <3>1 DEF GrabPlaces, Early
    <3>4. Elsewhere(s) BY <1>0, <3>1, <3>2 DEF Elsewhere
    <3>5. Unregistered(s)' BY <1>0, <1>1, <3>1, <3>2, <3>3 DEF Unregistered, Early
    <3>6. SomebodyStops(s)' BY <1>0, <1>1, <3>1, <3>2, <3>3 DEF Unregistered, SomebodyStops, Early
    <3>7. StoppedFirst(s)' BY <1>0, <1>1, <3>1, <3>2, <3>3 DEF Unregistered, StoppedFirst, Early
    <3>8. SomebodyCloses(s)' BY <1>0, <1>1, <3>1, <3>2, <3>3 DEF Unregistered, SomebodyCloses, Early
    <3>9. CaptureOK(s)' BY <3>5, <3>6, <3>7, <3>8 DEF CaptureOK
    <3>10. slots' = slots /\ (s \in Holding' <=> s \in Holding)
          BY <1>0, <1>1, <1>5, <2>1, <3>1, <3>2, <3>3 DEF ReturnCapture, GrabAt, GrabTo, Holding, Unregistered, Early
    <3> QED BY <1>0, <3>1, <3>1, <3>2, <3>3, <3>4, <3>9, <3>10, CaptureStep
  <2>2. CASE s \notin released
    <3>1. /\ grab[s] = "return" /\ grab' = [grab EXCEPT ![s] = "free"] /\ ffmpeg' = ffmpeg /\ row' = row
          /\ cancelled' = cancelled /\ ownCancel' = ownCancel /\ released' = released
          /\ unmarked' = unmarked /\ finisher' = finisher /\ s \notin released
          BY <1>0, <1>5, <2>2 DEF ReturnCapture, GrabAt, GrabTo
    <3>2. /\ registry' \in RegistryRecord /\ registry'.pending = registry.pending
          /\ registry'.active = registry.active /\ registry'.started = registry.started
          BY <1>0, <1>5, <2>2 DEF ReturnCapture, GrabAt, GrabTo, RegistryRecord
    <3>3. /\ ownCancel' \subseteq Captures /\ grab' \in [Captures -> GrabPlaces]
          /\ grab'[s] = "free" /\ ffmpeg' \in [Captures -> {"none", "running", "stopped", "killed"}]
          /\ row' \in [Captures -> {"none", "open", "closed"}]
          BY <1>0, <3>1 DEF GrabPlaces, Early
    <3>4. Elsewhere(s) BY <1>0, <3>1, <3>2 DEF Elsewhere
    <3>5. Unregistered(s)' BY <1>0, <1>1, <3>1, <3>2, <3>3 DEF Unregistered, Early
    <3>6. SomebodyStops(s)' BY <1>0, <1>1, <3>1, <3>2, <3>3 DEF Unregistered, SomebodyStops, Early
    <3>7. StoppedFirst(s)' BY <1>0, <1>1, <3>1, <3>2, <3>3 DEF Unregistered, StoppedFirst, Early
    <3>8. SomebodyCloses(s)' BY <1>0, <1>1, <3>1, <3>2, <3>3 DEF Unregistered, SomebodyCloses, Early
    <3>9. CaptureOK(s)' BY <3>5, <3>6, <3>7, <3>8 DEF CaptureOK
    <3>10. slots' = slots /\ (s \in Holding' <=> s \in Holding)
          BY <1>0, <1>1, <1>5, <2>2, <3>1, <3>2, <3>3 DEF ReturnCapture, GrabAt, GrabTo, Holding, Unregistered, Early
    <3> QED BY <1>0, <3>1, <3>1, <3>2, <3>3, <3>4, <3>9, <3>10, CaptureStep
  <2> QED BY <1>5, <2>1, <2>2 DEF ReturnCapture, GrabAt, GrabTo
<1>6. CASE FreeSlot(s)
  <2>1. /\ grab[s] = "free" /\ grab' = [grab EXCEPT ![s] = "ended"] /\ ffmpeg' = ffmpeg /\ row' = row
        /\ cancelled' = cancelled /\ ownCancel' = ownCancel /\ released' = released \cup {s}
        /\ unmarked' = unmarked /\ finisher' = finisher
        BY <1>0, <1>6 DEF FreeSlot, GrabAt, GrabTo
  <2>2. /\ registry' \in RegistryRecord /\ registry'.pending = registry.pending \ {s}
        /\ registry'.active = registry.active /\ registry'.started = registry.started
        BY <1>0, <1>6 DEF FreeSlot, GrabAt, GrabTo, RegistryRecord
  <2>3. /\ ownCancel' \subseteq Captures /\ grab' \in [Captures -> GrabPlaces]
        /\ grab'[s] = "ended" /\ ffmpeg' \in [Captures -> {"none", "running", "stopped", "killed"}]
        /\ row' \in [Captures -> {"none", "open", "closed"}]
        BY <1>0, <2>1 DEF GrabPlaces, Early
  <2>4. Elsewhere(s) BY <1>0, <2>1, <2>2 DEF Elsewhere
  <2>5. Unregistered(s)' BY <1>0, <1>1, <2>1, <2>2, <2>3 DEF Unregistered, Early
  <2>6. SomebodyStops(s)' BY <1>0, <1>1, <2>1, <2>2, <2>3 DEF Unregistered, SomebodyStops, Early
  <2>7. StoppedFirst(s)' BY <1>0, <1>1, <2>1, <2>2, <2>3 DEF Unregistered, StoppedFirst, Early
  <2>8. SomebodyCloses(s)' BY <1>0, <1>1, <2>1, <2>2, <2>3 DEF Unregistered, SomebodyCloses, Early
  <2>9. CaptureOK(s)' BY <2>5, <2>6, <2>7, <2>8 DEF CaptureOK
  <2>10. slots' = Token /\ s \notin Holding'
        BY <1>0, <1>1, <1>6, <2>1, <2>2, <2>3 DEF FreeSlot, GrabAt, GrabTo, Holding, Unregistered, Early
  <2> QED BY <1>0, <2>1, <2>1, <2>2, <2>3, <2>4, <2>9, <2>10, CaptureStep
<1>7. CASE Killed(s)
  <2>1. /\ grab' = grab /\ ffmpeg' = [ffmpeg EXCEPT ![s] = "killed"] /\ row' = row
        /\ cancelled' = cancelled /\ ownCancel' = ownCancel /\ released' = released
        /\ unmarked' = unmarked /\ finisher' = finisher /\ ffmpeg[s] = "running" /\ s \in cancelled
        BY <1>0, <1>7 DEF Killed, GrabAt, GrabTo
  <2>2. /\ registry' \in RegistryRecord /\ registry'.pending = registry.pending
        /\ registry'.active = registry.active /\ registry'.started = registry.started
        BY <1>0, <1>7 DEF Killed, GrabAt, GrabTo, RegistryRecord
  <2>3. /\ ownCancel' \subseteq Captures /\ grab' \in [Captures -> GrabPlaces]
        /\ ffmpeg' \in [Captures -> {"none", "running", "stopped", "killed"}] /\ ffmpeg'[s] = "killed"
        /\ row' \in [Captures -> {"none", "open", "closed"}]
        BY <1>0, <2>1 DEF GrabPlaces, Early
  <2>4. Elsewhere(s) BY <1>0, <2>1, <2>2 DEF Elsewhere
  <2>5. Unregistered(s)' BY <1>0, <1>1, <2>1, <2>2, <2>3 DEF Unregistered, Early
  <2>6. SomebodyStops(s)' BY <1>0, <1>1, <2>1, <2>2, <2>3 DEF Unregistered, SomebodyStops, Early
  <2>7. StoppedFirst(s)' BY <1>0, <1>1, <2>1, <2>2, <2>3 DEF Unregistered, StoppedFirst, Early
  <2>8. SomebodyCloses(s)' BY <1>0, <1>1, <2>1, <2>2, <2>3 DEF Unregistered, SomebodyCloses, Early
  <2>9. CaptureOK(s)' BY <2>5, <2>6, <2>7, <2>8 DEF CaptureOK
  <2>10. slots' = slots /\ (s \in Holding' <=> s \in Holding)
        BY <1>0, <1>1, <1>7, <2>1, <2>2, <2>3 DEF Killed, GrabAt, GrabTo, Holding, Unregistered, Early
  <2> QED BY <1>0, <2>1, <2>1, <2>2, <2>3, <2>4, <2>9, <2>10, CaptureStep
<1>8. CASE FfmpegExits(s)
  <2>1. /\ grab' = grab /\ ffmpeg' = [ffmpeg EXCEPT ![s] = "stopped"] /\ row' = row
        /\ cancelled' = cancelled /\ ownCancel' = ownCancel /\ released' = released
        /\ unmarked' = unmarked /\ finisher' = finisher /\ ffmpeg[s] = "running"
        BY <1>0, <1>8 DEF FfmpegExits, GrabAt, GrabTo
  <2>2. /\ registry' \in RegistryRecord /\ registry'.pending = registry.pending
        /\ registry'.active = registry.active /\ registry'.started = registry.started
        BY <1>0, <1>8 DEF FfmpegExits, GrabAt, GrabTo, RegistryRecord
  <2>3. /\ ownCancel' \subseteq Captures /\ grab' \in [Captures -> GrabPlaces]
        /\ ffmpeg' \in [Captures -> {"none", "running", "stopped", "killed"}] /\ ffmpeg'[s] = "stopped"
        /\ row' \in [Captures -> {"none", "open", "closed"}]
        BY <1>0, <2>1 DEF GrabPlaces, Early
  <2>4. Elsewhere(s) BY <1>0, <2>1, <2>2 DEF Elsewhere
  <2>5. Unregistered(s)' BY <1>0, <1>1, <2>1, <2>2, <2>3 DEF Unregistered, Early
  <2>6. SomebodyStops(s)' BY <1>0, <1>1, <2>1, <2>2, <2>3 DEF Unregistered, SomebodyStops, Early
  <2>7. StoppedFirst(s)' BY <1>0, <1>1, <2>1, <2>2, <2>3 DEF Unregistered, StoppedFirst, Early
  <2>8. SomebodyCloses(s)' BY <1>0, <1>1, <2>1, <2>2, <2>3 DEF Unregistered, SomebodyCloses, Early
  <2>9. CaptureOK(s)' BY <2>5, <2>6, <2>7, <2>8 DEF CaptureOK
  <2>10. slots' = slots /\ (s \in Holding' <=> s \in Holding)
        BY <1>0, <1>1, <1>8, <2>1, <2>2, <2>3 DEF FfmpegExits, GrabAt, GrabTo, Holding, Unregistered, Early
  <2> QED BY <1>0, <2>1, <2>1, <2>2, <2>3, <2>4, <2>9, <2>10, CaptureStep
<1> QED BY <1>2, <1>3, <1>4, <1>5, <1>6, <1>7, <1>8

\* A call of finishVideoRecording moves to g.
LEMMA FinisherMoves ==
  ASSUME finisher \in [Captures -> [Finishers -> FinishRecord]], NEW s \in Captures, NEW f \in Finishers,
         NEW g \in FinishRecord, finisher' = [finisher EXCEPT ![s] = [finisher[s] EXCEPT ![f] = g]]
  PROVE  /\ finisher' \in [Captures -> [Finishers -> FinishRecord]]
         /\ finisher'[s][f] = g /\ \A x \in Finishers : x # f => finisher'[s][x] = finisher[s][x]
         /\ \A x \in Captures : x # s => finisher'[x] = finisher[x]
<1>1. PICK h : h = [finisher[s] EXCEPT ![f] = g] OBVIOUS
<1>2. h \in [Finishers -> FinishRecord] /\ h[f] = g /\ \A x \in Finishers : x # f => h[x] = finisher[s][x] BY <1>1
<1>3. finisher' = [finisher EXCEPT ![s] = h] BY <1>1
<1>4. /\ finisher' \in [Captures -> [Finishers -> FinishRecord]] /\ finisher'[s] = h
      /\ \A x \in Captures : x # s => finisher'[x] = finisher[x]
      BY <1>2, <1>3
<1> QED BY <1>2, <1>4

\* The calls of finishVideoRecording.
LEMMA FinishStepsKeep ==
  ASSUME VideoIInv, NEW s \in Captures, NEW f \in Finishers,
         \/ CancelPending(s, f) \/ CancelContext(s, f) \/ TakeHandle(s, f)
         \/ StopCapture(s, f) \/ StopReleases(s, f) \/ CloseRow(s, f)
  PROVE  VideoIInv'
<1>0. /\ grab \in [Captures -> GrabPlaces] /\ ffmpeg \in [Captures -> {"none", "running", "stopped", "killed"}]
      /\ row \in [Captures -> {"none", "open", "closed"}] /\ registry \in RegistryRecord /\ slots \in Nat
      /\ finisher \in [Captures -> [Finishers -> FinishRecord]] /\ ownCancel \subseteq Captures
      BY DEF VideoIInv, VideoTypeOK
<1>1. Unregistered(s) /\ SomebodyStops(s) /\ StoppedFirst(s) /\ SomebodyCloses(s)
      BY DEF VideoIInv, CapturesOK, CaptureOK
<1>2. finisher[s][f] \in FinishRecord /\ finisher[s][f].handle \in BOOLEAN /\ finisher[s][f].started \in BOOLEAN
      BY <1>0 DEF FinishRecord
<1>3. CASE CancelPending(s, f)
  <2>1. PICK g : g = [finisher[s][f] EXCEPT !.pc = IF s \in registry.pending THEN "cancel" ELSE "take"] OBVIOUS
  <2>2. /\ g \in FinishRecord /\ g.pc = IF s \in registry.pending THEN "cancel" ELSE "take"
        /\ g.handle = finisher[s][f].handle
        /\ g.started = finisher[s][f].started
        BY <1>0, <1>2, <2>1 DEF FinishRecord
  <2>3. finisher[s][f].pc = "idle" /\ finisher' = [finisher EXCEPT ![s] = [finisher[s] EXCEPT ![f] = g]]
        BY <1>0, <1>3, <2>1 DEF CancelPending, FinishAt, FinishTo
  <2>4. /\ finisher' \in [Captures -> [Finishers -> FinishRecord]]
        /\ finisher'[s][f] = g /\ \A x \in Finishers : x # f => finisher'[s][x] = finisher[s][x]
        /\ \A x \in Captures : x # s => finisher'[x] = finisher[x]
        BY <1>0, <2>2, <2>3, FinisherMoves
  <2>5. /\ grab' = grab /\ ffmpeg' = ffmpeg /\ row' = row /\ cancelled' = cancelled
        /\ ownCancel' = ownCancel /\ released' = released /\ unmarked' = unmarked /\ grab[s] # "idle"
        BY <1>0, <1>3 DEF CancelPending, FinishAt, FinishTo
  <2>6. /\ registry' \in RegistryRecord /\ registry'.pending = registry.pending \ {s}
        /\ registry'.active = registry.active /\ registry'.started = registry.started
        BY <1>0, <1>3 DEF CancelPending, RegistryRecord
  <2>7. /\ ownCancel' \subseteq Captures /\ grab' \in [Captures -> GrabPlaces]
        /\ ffmpeg' \in [Captures -> {"none", "running", "stopped", "killed"}] /\ row' \in [Captures -> {"none", "open", "closed"}]
        BY <1>0, <2>5
  <2>8. Elsewhere(s)
        BY <1>0, <2>4, <2>5, <2>6 DEF Elsewhere
  <2>9. Unregistered(s)'
        BY <1>0, <1>1, <1>2, <2>2, <2>3, <2>4, <2>5, <2>6, <2>7 DEF Unregistered, Early
  <2>10. SomebodyStops(s)'
        BY <1>0, <1>1, <1>2, <2>2, <2>3, <2>4, <2>5, <2>6, <2>7 DEF Unregistered, SomebodyStops, Early
  <2>11. StoppedFirst(s)'
        BY <1>0, <1>1, <1>2, <2>2, <2>3, <2>4, <2>5, <2>6, <2>7 DEF Unregistered, StoppedFirst, Early
  <2>12. SomebodyCloses(s)'
        BY <1>0, <1>1, <1>2, <2>2, <2>3, <2>4, <2>5, <2>6, <2>7 DEF Unregistered, SomebodyCloses, Early
  <2>13. CaptureOK(s)'
        BY <2>9, <2>10, <2>11, <2>12 DEF CaptureOK
  <2>14. slots' = slots /\ (s \in Holding' <=> s \in Holding)
        BY <1>3, <2>2, <2>3, <2>4, <2>5, <2>6, <2>7 DEF CancelPending, Holding
  <2> QED BY <2>4, <2>6, <2>7, <2>8, <2>13, <2>14, CaptureStep
<1>4. CASE CancelContext(s, f)
  <2>1. PICK g : g = [finisher[s][f] EXCEPT !.pc = "take"] OBVIOUS
  <2>2. /\ g \in FinishRecord /\ g.pc = "take"
        /\ g.handle = finisher[s][f].handle
        /\ g.started = finisher[s][f].started
        BY <1>0, <1>2, <2>1 DEF FinishRecord
  <2>3. finisher[s][f].pc = "cancel" /\ finisher' = [finisher EXCEPT ![s] = [finisher[s] EXCEPT ![f] = g]]
        BY <1>0, <1>4, <2>1 DEF CancelContext, FinishAt, FinishTo
  <2>4. /\ finisher' \in [Captures -> [Finishers -> FinishRecord]]
        /\ finisher'[s][f] = g /\ \A x \in Finishers : x # f => finisher'[s][x] = finisher[s][x]
        /\ \A x \in Captures : x # s => finisher'[x] = finisher[x]
        BY <1>0, <2>2, <2>3, FinisherMoves
  <2>5. /\ grab' = grab /\ ffmpeg' = ffmpeg /\ row' = row /\ cancelled' = cancelled \cup {s}
        /\ ownCancel' = ownCancel /\ released' = released /\ unmarked' = unmarked
        BY <1>0, <1>4 DEF CancelContext, FinishAt, FinishTo
  <2>6. /\ registry' \in RegistryRecord /\ registry'.pending = registry.pending
        /\ registry'.active = registry.active /\ registry'.started = registry.started
        BY <1>0, <1>4 DEF CancelContext, RegistryRecord
  <2>7. /\ ownCancel' \subseteq Captures /\ grab' \in [Captures -> GrabPlaces]
        /\ ffmpeg' \in [Captures -> {"none", "running", "stopped", "killed"}] /\ row' \in [Captures -> {"none", "open", "closed"}]
        BY <1>0, <2>5
  <2>8. Elsewhere(s)
        BY <1>0, <2>4, <2>5, <2>6 DEF Elsewhere
  <2>9. Unregistered(s)'
        BY <1>0, <1>1, <1>2, <2>2, <2>3, <2>4, <2>5, <2>6, <2>7 DEF Unregistered, Early
  <2>10. SomebodyStops(s)'
        BY <1>0, <1>1, <1>2, <2>2, <2>3, <2>4, <2>5, <2>6, <2>7 DEF Unregistered, SomebodyStops, Early
  <2>11. StoppedFirst(s)'
        BY <1>0, <1>1, <1>2, <2>2, <2>3, <2>4, <2>5, <2>6, <2>7 DEF Unregistered, StoppedFirst, Early
  <2>12. SomebodyCloses(s)'
        BY <1>0, <1>1, <1>2, <2>2, <2>3, <2>4, <2>5, <2>6, <2>7 DEF Unregistered, SomebodyCloses, Early
  <2>13. CaptureOK(s)'
        BY <2>9, <2>10, <2>11, <2>12 DEF CaptureOK
  <2>14. slots' = slots /\ (s \in Holding' <=> s \in Holding)
        BY <1>4, <2>2, <2>3, <2>4, <2>5, <2>6, <2>7 DEF CancelContext, Holding
  <2> QED BY <2>4, <2>6, <2>7, <2>8, <2>13, <2>14, CaptureStep
<1>5. CASE TakeHandle(s, f)
  <2>1. PICK h : h = (s \in registry.active) OBVIOUS
  <2>2. PICK t : t = (s \in registry.started) OBVIOUS
  <2>3. h \in BOOLEAN /\ t \in BOOLEAN
        BY <2>1, <2>2, (s \in registry.active) \in BOOLEAN, (s \in registry.started) \in BOOLEAN
  <2>4. PICK g : g = [pc |-> IF s \in registry.active THEN "stop" ELSE "close",
               handle |-> h, started |-> t] OBVIOUS
  <2>5. /\ g \in FinishRecord /\ g.pc = IF s \in registry.active THEN "stop" ELSE "close"
        /\ g.handle = TRUE <=> s \in registry.active
        /\ g.started = TRUE <=> s \in registry.started
        /\ g.handle \in BOOLEAN /\ g.started \in BOOLEAN
        BY <1>0, <1>2, <2>1, <2>2, <2>3, <2>4 DEF FinishRecord
  <2>6. finisher[s][f].pc = "take" /\ finisher' = [finisher EXCEPT ![s] = [finisher[s] EXCEPT ![f] = g]]
        BY <1>0, <1>5, <2>1, <2>2, <2>3, <2>4 DEF TakeHandle, FinishAt, FinishTo, GrabAt
  <2>7. /\ finisher' \in [Captures -> [Finishers -> FinishRecord]]
        /\ finisher'[s][f] = g /\ \A x \in Finishers : x # f => finisher'[s][x] = finisher[s][x]
        /\ \A x \in Captures : x # s => finisher'[x] = finisher[x]
        BY <1>0, <2>5, <2>6, FinisherMoves
  <2>8. /\ grab' = grab /\ ffmpeg' = ffmpeg /\ row' = row /\ cancelled' = cancelled
        /\ ownCancel' = ownCancel /\ released' = released
        /\ unmarked' = unmarked \cup (IF grab[s] = "mark" THEN {s} ELSE {})
        BY <1>0, <1>5 DEF TakeHandle, FinishAt, FinishTo, GrabAt
  <2>9. /\ registry' \in RegistryRecord /\ registry'.pending = registry.pending
        /\ registry'.active = registry.active \ {s} /\ registry'.started = registry.started
        BY <1>0, <1>5 DEF TakeHandle, RegistryRecord
  <2>10. /\ ownCancel' \subseteq Captures /\ grab' \in [Captures -> GrabPlaces]
        /\ ffmpeg' \in [Captures -> {"none", "running", "stopped", "killed"}] /\ row' \in [Captures -> {"none", "open", "closed"}]
        BY <1>0, <2>8
  <2>11. Elsewhere(s)
        BY <1>0, <2>7, <2>8, <2>9 DEF Elsewhere
  <2>12. Unregistered(s)'
        BY <1>0, <1>1, <1>2, <2>5, <2>6, <2>7, <2>8, <2>9, <2>10 DEF Unregistered, Early
  <2>13. SomebodyStops(s)'
        BY <1>0, <1>1, <1>2, <2>5, <2>6, <2>7, <2>8, <2>9, <2>10 DEF Unregistered, SomebodyStops, Early
  <2>14. StoppedFirst(s)'
        BY <1>0, <1>1, <1>2, <2>5, <2>6, <2>7, <2>8, <2>9, <2>10 DEF Unregistered, StoppedFirst, Early
  <2>15. SomebodyCloses(s)'
        BY <1>0, <1>1, <1>2, <2>5, <2>6, <2>7, <2>8, <2>9, <2>10 DEF Unregistered, SomebodyCloses, Early
  <2>16. CaptureOK(s)'
        BY <2>12, <2>13, <2>14, <2>15 DEF CaptureOK
  <2>17. slots' = slots /\ (s \in Holding' <=> s \in Holding)
        BY <1>5, <2>5, <2>6, <2>7, <2>8, <2>9, <2>10 DEF TakeHandle, Holding
  <2> QED BY <2>7, <2>9, <2>10, <2>11, <2>16, <2>17, CaptureStep
<1>6. CASE StopCapture(s, f)
  <2>1. PICK g : g = [finisher[s][f] EXCEPT !.pc = IF s \in released THEN "close" ELSE "free"] OBVIOUS
  <2>2. /\ g \in FinishRecord /\ g.pc = IF s \in released THEN "close" ELSE "free"
        /\ g.handle = finisher[s][f].handle
        /\ g.started = finisher[s][f].started
        BY <1>0, <1>2, <2>1 DEF FinishRecord
  <2>3. finisher[s][f].pc = "stop" /\ finisher' = [finisher EXCEPT ![s] = [finisher[s] EXCEPT ![f] = g]]
        BY <1>0, <1>6, <2>1 DEF StopCapture, FinishAt, FinishTo
  <2>4. /\ finisher' \in [Captures -> [Finishers -> FinishRecord]]
        /\ finisher'[s][f] = g /\ \A x \in Finishers : x # f => finisher'[s][x] = finisher[s][x]
        /\ \A x \in Captures : x # s => finisher'[x] = finisher[x]
        BY <1>0, <2>2, <2>3, FinisherMoves
  <2>5. PICK e : e = IF ffmpeg[s] = "running" THEN "stopped" ELSE ffmpeg[s] OBVIOUS
  <2>6. /\ grab' = grab /\ ffmpeg' = [ffmpeg EXCEPT ![s] = e] /\ row' = row /\ cancelled' = cancelled
        /\ ownCancel' = ownCancel /\ released' = released /\ unmarked' = unmarked
        BY <1>0, <1>6, <2>5 DEF StopCapture, FinishAt, FinishTo
  <2>7. /\ registry' \in RegistryRecord /\ registry'.pending = registry.pending
        /\ registry'.active = registry.active /\ registry'.started = registry.started
        BY <1>0, <1>6 DEF StopCapture, RegistryRecord
  <2>8. /\ ownCancel' \subseteq Captures /\ grab' \in [Captures -> GrabPlaces]
        /\ ffmpeg' \in [Captures -> {"none", "running", "stopped", "killed"}] /\ ffmpeg'[s] = e
        /\ row' \in [Captures -> {"none", "open", "closed"}]
        BY <1>0, <2>6, <2>5
  <2>9. Elsewhere(s)
        BY <1>0, <2>4, <2>6, <2>7 DEF Elsewhere
  <2>10. Unregistered(s)'
        BY <1>0, <1>1, <1>2, <2>2, <2>3, <2>4, <2>6, <2>7, <2>8, <2>5 DEF Unregistered, Early
  <2>11. SomebodyStops(s)'
        BY <1>0, <1>1, <1>2, <2>2, <2>3, <2>4, <2>6, <2>7, <2>8, <2>5 DEF Unregistered, SomebodyStops, Early
  <2>12. StoppedFirst(s)'
        BY <1>0, <1>1, <1>2, <2>2, <2>3, <2>4, <2>6, <2>7, <2>8, <2>5 DEF Unregistered, StoppedFirst, Early
  <2>13. SomebodyCloses(s)'
        BY <1>0, <1>1, <1>2, <2>2, <2>3, <2>4, <2>6, <2>7, <2>8, <2>5 DEF Unregistered, SomebodyCloses, Early
  <2>14. CaptureOK(s)'
        BY <2>10, <2>11, <2>12, <2>13 DEF CaptureOK
  <2>15. slots' = slots /\ (s \in Holding' <=> s \in Holding)
        BY <1>6, <2>2, <2>3, <2>4, <2>6, <2>7, <2>8, <2>5 DEF StopCapture, Holding
  <2> QED BY <2>4, <2>7, <2>8, <2>9, <2>14, <2>15, CaptureStep
<1>7. CASE StopReleases(s, f)
  <2>1. PICK g : g = [finisher[s][f] EXCEPT !.pc = "close"] OBVIOUS
  <2>2. /\ g \in FinishRecord /\ g.pc = "close"
        /\ g.handle = finisher[s][f].handle
        /\ g.started = finisher[s][f].started
        BY <1>0, <1>2, <2>1 DEF FinishRecord
  <2>3. finisher[s][f].pc = "free" /\ finisher' = [finisher EXCEPT ![s] = [finisher[s] EXCEPT ![f] = g]]
        BY <1>0, <1>7, <2>1 DEF StopReleases, FinishAt, FinishTo
  <2>4. /\ finisher' \in [Captures -> [Finishers -> FinishRecord]]
        /\ finisher'[s][f] = g /\ \A x \in Finishers : x # f => finisher'[s][x] = finisher[s][x]
        /\ \A x \in Captures : x # s => finisher'[x] = finisher[x]
        BY <1>0, <2>2, <2>3, FinisherMoves
  <2>5. /\ grab' = grab /\ ffmpeg' = ffmpeg /\ row' = row /\ cancelled' = cancelled
        /\ ownCancel' = ownCancel /\ released' = released \cup {s} /\ unmarked' = unmarked
        BY <1>0, <1>7 DEF StopReleases, FinishAt, FinishTo
  <2>6. /\ registry' \in RegistryRecord /\ registry'.pending = registry.pending
        /\ registry'.active = registry.active /\ registry'.started = registry.started
        BY <1>0, <1>7 DEF StopReleases, RegistryRecord
  <2>7. /\ ownCancel' \subseteq Captures /\ grab' \in [Captures -> GrabPlaces]
        /\ ffmpeg' \in [Captures -> {"none", "running", "stopped", "killed"}] /\ row' \in [Captures -> {"none", "open", "closed"}]
        BY <1>0, <2>5
  <2>8. Elsewhere(s)
        BY <1>0, <2>4, <2>5, <2>6 DEF Elsewhere
  <2>9. Unregistered(s)'
        BY <1>0, <1>1, <1>2, <2>2, <2>3, <2>4, <2>5, <2>6, <2>7 DEF Unregistered, Early
  <2>10. SomebodyStops(s)'
        BY <1>0, <1>1, <1>2, <2>2, <2>3, <2>4, <2>5, <2>6, <2>7 DEF Unregistered, SomebodyStops, Early
  <2>11. StoppedFirst(s)'
        BY <1>0, <1>1, <1>2, <2>2, <2>3, <2>4, <2>5, <2>6, <2>7 DEF Unregistered, StoppedFirst, Early
  <2>12. SomebodyCloses(s)'
        BY <1>0, <1>1, <1>2, <2>2, <2>3, <2>4, <2>5, <2>6, <2>7 DEF Unregistered, SomebodyCloses, Early
  <2>13. CaptureOK(s)'
        BY <2>9, <2>10, <2>11, <2>12 DEF CaptureOK
  <2>14. slots' = Token /\ s \notin Holding'
        BY <1>7, <2>2, <2>3, <2>4, <2>5, <2>6, <2>7 DEF StopReleases, Holding
  <2> QED BY <2>4, <2>6, <2>7, <2>8, <2>13, <2>14, CaptureStep
<1>8. CASE CloseRow(s, f)
  <2>1. PICK g : g = [finisher[s][f] EXCEPT !.pc = "finished"] OBVIOUS
  <2>2. /\ g \in FinishRecord /\ g.pc = "finished"
        /\ g.handle = finisher[s][f].handle
        /\ g.started = finisher[s][f].started
        BY <1>0, <1>2, <2>1 DEF FinishRecord
  <2>3. finisher[s][f].pc = "close" /\ finisher' = [finisher EXCEPT ![s] = [finisher[s] EXCEPT ![f] = g]]
        BY <1>0, <1>8, <2>1 DEF CloseRow, FinishAt, FinishTo
  <2>4. /\ finisher' \in [Captures -> [Finishers -> FinishRecord]]
        /\ finisher'[s][f] = g /\ \A x \in Finishers : x # f => finisher'[s][x] = finisher[s][x]
        /\ \A x \in Captures : x # s => finisher'[x] = finisher[x]
        BY <1>0, <2>2, <2>3, FinisherMoves
  <2>5. PICK w : w = IF finisher[s][f].started /\ row[s] = "open" THEN "closed" ELSE row[s] OBVIOUS
  <2>6. /\ grab' = grab /\ ffmpeg' = ffmpeg /\ row' = [row EXCEPT ![s] = w]
        /\ cancelled' = IF finisher[s][f].handle THEN cancelled \cup (ownCancel \cap {s}) ELSE cancelled
        /\ ownCancel' = ownCancel /\ released' = released /\ unmarked' = unmarked
        BY <1>0, <1>8, <2>5 DEF CloseRow, FinishAt, FinishTo
  <2>7. /\ registry' \in RegistryRecord /\ registry'.pending = registry.pending
        /\ registry'.active = registry.active /\ registry'.started = registry.started
        BY <1>0, <1>8 DEF CloseRow, RegistryRecord
  <2>8. /\ ownCancel' \subseteq Captures /\ grab' \in [Captures -> GrabPlaces]
        /\ ffmpeg' \in [Captures -> {"none", "running", "stopped", "killed"}] /\ row' \in [Captures -> {"none", "open", "closed"}]
        /\ row'[s] = w
        BY <1>0, <2>6, <2>5
  <2>9. Elsewhere(s)
        BY <1>0, <2>4, <2>6, <2>7 DEF Elsewhere
  <2>10. Unregistered(s)'
        BY <1>0, <1>1, <1>2, <2>2, <2>3, <2>4, <2>6, <2>7, <2>8, <2>5 DEF Unregistered, Early
  <2>11. SomebodyStops(s)'
        BY <1>0, <1>1, <1>2, <2>2, <2>3, <2>4, <2>6, <2>7, <2>8, <2>5 DEF Unregistered, SomebodyStops, Early
  <2>12. StoppedFirst(s)'
        BY <1>0, <1>1, <1>2, <2>2, <2>3, <2>4, <2>6, <2>7, <2>8, <2>5 DEF Unregistered, StoppedFirst, Early
  <2>13. SomebodyCloses(s)'
        BY <1>0, <1>1, <1>2, <2>2, <2>3, <2>4, <2>6, <2>7, <2>8, <2>5 DEF Unregistered, SomebodyCloses, Early
  <2>14. CaptureOK(s)'
        BY <2>10, <2>11, <2>12, <2>13 DEF CaptureOK
  <2>15. slots' = slots /\ (s \in Holding' <=> s \in Holding)
        BY <1>8, <2>2, <2>3, <2>4, <2>6, <2>7, <2>8, <2>5 DEF CloseRow, Holding
  <2> QED BY <2>4, <2>7, <2>8, <2>9, <2>14, <2>15, CaptureStep
<1> QED BY <1>3, <1>4, <1>5, <1>6, <1>7, <1>8

\* What the invariant says of the recordings.
LEMMA RecordingsSettle == ASSUME VideoIInv PROVE RecordingSettles
<1>1. \A s \in Captures : SomebodyStops(s) /\ StoppedFirst(s) /\ SomebodyCloses(s)
      BY DEF VideoIInv, CapturesOK, CaptureOK
<1>2. ASSUME NEW s \in Captures, Over(s), ~Finishing(s)
      PROVE  /\ \A f \in Finishers : finisher[s][f].pc \in {"idle", "finished"}
             /\ grab[s] = "ended" /\ \E f \in Finishers : finisher[s][f].pc = "finished"
      BY <1>2 DEF Over, Finishing, FinishAt
<1>3. CaptureEnds
  <2> SUFFICES ASSUME NEW s \in Captures, Over(s), ~Finishing(s) PROVE ffmpeg[s] # "running" \/ s \in cancelled
      BY DEF CaptureEnds
  <2> QED BY <1>1, <1>2 DEF SomebodyStops, Early
<1>4. NotTruncated
  <2>1. ASSUME NEW s \in Captures \cap ownCancel PROVE ffmpeg[s] # "killed" BY <1>1 DEF StoppedFirst
  <2> QED BY <2>1 DEF NotTruncated, VideoIInv, VideoTypeOK
<1>5. RowEnds
  <2> SUFFICES ASSUME NEW s \in Captures, Over(s), ~Finishing(s), s \notin unmarked PROVE row[s] # "open"
      BY DEF RowEnds
  <2> QED BY <1>1, <1>2 DEF SomebodyCloses
<1>6. SlotsReturned
  <2>1. PICK S : S = {s \in Captures : grab[s] \notin {"idle", "acquire", "ended"}} OBVIOUS
  <2>2. Holding \subseteq S /\ IsFiniteSet(S) BY <2>1, VideoAssumption, FS_Subset DEF Holding
  <2>3. IsFiniteSet(Holding) /\ Cardinality(Holding) <= Cardinality(S) BY <2>2, FS_Subset
  <2>4. Cardinality(Holding) \in Nat /\ Cardinality(S) \in Nat BY <2>2, <2>3, FS_CardinalityType
  <2>5. slots \in Nat /\ slots <= Cardinality(Holding) BY DEF VideoIInv, VideoTypeOK, SlotsHeld
  <2> QED BY <2>1, <2>3, <2>4, <2>5 DEF SlotsReturned
<1> QED BY <1>3, <1>4, <1>5, <1>6 DEF RecordingSettles

\* Screen recordings (video_recording.go, governor.go): whenever the session ends, before, during or
\* after the start of its capture, and however often that is reported, a capture that both sides
\* are done with does not run on, one that was registered with its cancel function is never
\* killed, its row is closed unless the end came between the insert and the mark, and no more
\* slots are taken than captures are between Acquire and their return.
THEOREM RecordingsAlwaysSettle == VideoSpec => []RecordingSettles
<1>1. VideoInit => VideoIInv BY VideoStart
<1>2. VideoIInv /\ [VideoNext]_videoVars => VideoIInv'
  <2>1. ASSUME VideoIInv, UNCHANGED videoVars PROVE VideoIInv'
    <3>1. VideoTypeOK' /\ SlotsHeld' BY <2>1 DEF videoVars, VideoIInv, VideoTypeOK, SlotsHeld, Holding
    <3>2. CapturesOK'
          BY <2>1 DEF videoVars, VideoIInv, CapturesOK, CaptureOK, Unregistered, SomebodyStops, StoppedFirst, SomebodyCloses
    <3> QED BY <3>1, <3>2 DEF VideoIInv
  <2>2. ASSUME VideoIInv, VideoNext PROVE VideoIInv'
    <3>1. PICK s \in Captures :
            \/ StartVideoRecording(s) \/ Acquire(s) \/ StartCapture(s) \/ Started(s)
            \/ InsertRow(s) \/ MarkStarted(s) \/ RegisterCapture(s)
            \/ ReturnCapture(s) \/ FreeSlot(s)
            \/ Killed(s) \/ FfmpegExits(s)
            \/ \E f \in Finishers :
                 \/ CancelPending(s, f) \/ CancelContext(s, f) \/ TakeHandle(s, f)
                 \/ StopCapture(s, f) \/ StopReleases(s, f) \/ CloseRow(s, f)
          BY <2>2 DEF VideoNext
    <3> QED BY <2>2, <3>1, StartStepsKeep, CaptureStepsKeep, FinishStepsKeep
  <2> QED BY <2>1, <2>2
<1>3. VideoIInv => RecordingSettles BY RecordingsSettle
<1> QED BY <1>1, <1>2, <1>3, PTL DEF VideoSpec

--------------------------------------------------------------------------------
(* Rows and media files (RecordingFiles).                                    *)

Media == Reasons \cup {"capture"}
RemuxRecord == [pc : {"idle", "open", "acquire", "start", "run", "verify", "swap", "retry", "cleanup"},
                out : Reasons \cup {NoFile}]
EraserRecord == [pc : {"idle", "next", "row", "file"}, todo : SUBSET Recordings,
                 now : Recordings \cup {"none"}, purge : BOOLEAN]
Contents == [Media -> {"frag", "partial", "regular"}]
Remuxes == [Reasons -> RemuxRecord]
Excuses == {"clash", "refused", "revived", "ioerror", "crash"}

FilesTypeOK ==
  /\ recRow \in [Recordings -> {"live", "ended", "old", "gone"}]
  /\ mediaAt \in [Recordings -> Media \cup {NoFile}]
  /\ tmpAt \in [Recordings -> Reasons \cup {NoFile}]
  /\ content \in [Recordings -> Contents]
  /\ remux \in [Recordings -> Remuxes]
  /\ eraser \in [Erasers -> EraserRecord]
  /\ restarts \in Nat
  /\ excuse \in [Recordings -> SUBSET Excuses]

\* Of one recording r: the state st of its row, the recordings on that are being captured, the
\* inodes old and new that file_path and the temporary name point to, what its inodes c hold, its
\* remuxes m, its excuses why, and the restarts n.
Busy == {"start", "run", "verify", "swap", "retry", "cleanup"}

\* What was captured stays as it was, remuxes write other files, and the one at the stop waits
\* for it.
ContentOK(r, on, c, m) ==
  /\ c["capture"] = "frag" /\ \A q \in Reasons : c[q] # "frag"
  /\ \A q \in Reasons : m[q].pc = "run" => m[q].out \in Reasons
  /\ r \in on => m["stop"].pc = "idle"

\* The remux that made the temporary file has it still, or died with the server, and then there
\* will be no remux at the stop any more.
TmpOwned(r, on, new, m, n) ==
  new # NoFile => m[new].pc \in Busy \/ (n > 0 /\ r \notin on /\ m["stop"].pc = "idle")

\* As long as the two remuxes of a recording did not meet and no rename was refused, one works on
\* it at a time, on a file that is not the one listed, and swaps in what it wrote to the end.
KeptOK(r, st, on, old, new, c, m, why) == "clash" \notin why /\ "refused" \notin why =>
  /\ st # "gone" => old # NoFile /\ c[old] # "partial"
  /\ ~(m["stop"].pc \in Busy /\ m["backfill"].pc \in Busy)
  /\ new # NoFile => new # old
  /\ \A q \in Reasons :
       /\ m[q].pc = "run" => new = m[q].out
       /\ m[q].pc \in {"verify", "swap"} => new # NoFile /\ c[new] = "regular"
       /\ m[q].pc # "retry"
       /\ old = q => m[q].pc \in {"idle", "open", "cleanup"}
  /\ old = "stop" => r \notin on /\ m["stop"].pc # "open"

Shape(r, st, on, old, new, c, m, why, n) ==
  ContentOK(r, on, c, m) /\ TmpOwned(r, on, new, m, n) /\ KeptOK(r, st, on, old, new, c, m, why)

\* The media of a deleted row is gone, or about to be, or was put back or left behind.
LeftBehind(why) == "revived" \in why \/ "ioerror" \in why \/ "crash" \in why
Erased(r) == \E e \in Erasers : eraser[e].pc = "file" /\ eraser[e].now = r
GoneOK(r) == recRow[r] = "gone" => mediaAt[r] = NoFile \/ LeftBehind(excuse[r]) \/ Erased(r)

ShapeOK(r) == Shape(r, recRow[r], capturing, mediaAt[r], tmpAt[r], content[r], remux[r], excuse[r], restarts)
FilesOK == \A r \in Recordings : ShapeOK(r) /\ GoneOK(r)

\* A deletion removes the file of a row it has deleted.
ErasersOK ==
  \A e \in Erasers :
    /\ eraser[e].pc \in {"row", "file"} => eraser[e].now \in Recordings
    /\ eraser[e].pc = "file" => recRow[eraser[e].now] = "gone"

FilesIInv == FilesTypeOK /\ FilesOK /\ ErasersOK

\* A step that concerns one recording leaves the others as they are.
OtherRecordingsStay(r) ==
  \A x \in Recordings \ {r} :
    /\ recRow'[x] = recRow[x] /\ mediaAt'[x] = mediaAt[x] /\ tmpAt'[x] = tmpAt[x]
    /\ content'[x] = content[x] /\ remux'[x] = remux[x] /\ excuse'[x] = excuse[x]
    /\ x \in capturing' <=> x \in capturing

\* What holds of the recording that a step works on, and of the deletions, holds of all.
LEMMA OneMoves ==
  ASSUME FilesIInv, NEW r \in Recordings, OtherRecordingsStay(r), restarts' = restarts,
         FilesTypeOK', ShapeOK(r)', GoneOK(r)',
         \A x \in Recordings \ {r} : Erased(x) => Erased(x)',
         ErasersOK'
  PROVE  FilesIInv'
<1>1. ASSUME NEW x \in Recordings PROVE ShapeOK(x)' /\ GoneOK(x)'
  <2>1. CASE x = r BY <2>1
  <2>2. CASE x # r
    <3>1. ShapeOK(x) /\ GoneOK(x) BY DEF FilesIInv, FilesOK
    <3>2. /\ recRow'[x] = recRow[x] /\ mediaAt'[x] = mediaAt[x] /\ tmpAt'[x] = tmpAt[x]
          /\ content'[x] = content[x] /\ remux'[x] = remux[x] /\ excuse'[x] = excuse[x]
          /\ x \in capturing' <=> x \in capturing
          BY <2>2 DEF OtherRecordingsStay
    <3>3. ShapeOK(x)' BY <3>1, <3>2 DEF ShapeOK, Shape, ContentOK, TmpOwned, KeptOK
    <3>4. Erased(x) => Erased(x)' BY <2>2
    <3>5. GoneOK(x)' BY <3>1, <3>2, <3>4 DEF GoneOK, LeftBehind
    <3> QED BY <3>3, <3>5
  <2> QED BY <2>1, <2>2
<1>2. FilesOK' BY <1>1 DEF FilesOK
<1> QED BY <1>2 DEF FilesIInv

\* A step of a recording or a remux: no deletion moves and no row comes back.
LEMMA RecordingMoves ==
  ASSUME FilesIInv, NEW r \in Recordings, OtherRecordingsStay(r), restarts' = restarts, eraser' = eraser,
         recRow[r] = "gone" => recRow'[r] = "gone",
         FilesTypeOK', ShapeOK(r)', GoneOK(r)'
  PROVE  FilesIInv'
<1>1. \A x : Erased(x) => Erased(x)' BY DEF Erased
<1>2. \A x \in Recordings : recRow[x] = "gone" => recRow'[x] = "gone" BY DEF OtherRecordingsStay
<1>3. ErasersOK' BY <1>2 DEF ErasersOK, FilesIInv
<1> QED BY <1>1, <1>3, OneMoves

\* The remux of r for q goes to g.
LEMMA RemuxMoves ==
  ASSUME FilesTypeOK, NEW r \in Recordings, NEW q \in Reasons, NEW g \in RemuxRecord,
         remux' = [remux EXCEPT ![r][q] = g]
  PROVE  /\ remux' \in [Recordings -> Remuxes] /\ remux'[r][q] = g
         /\ \A p \in Reasons \ {q} : remux'[r][p] = remux[r][p]
         /\ \A x \in Recordings \ {r} : remux'[x] = remux[x]
<1>1. remux \in [Recordings -> Remuxes] /\ remux[r] \in Remuxes BY DEF FilesTypeOK
<1>2. PICK m : m = [remux[r] EXCEPT ![q] = g] OBVIOUS
<1>3. m \in Remuxes /\ m[q] = g /\ \A p \in Reasons \ {q} : m[p] = remux[r][p] BY <1>1, <1>2 DEF Remuxes
<1>4. remux' = [remux EXCEPT ![r] = m] BY <1>2
<1>5. remux' \in [Recordings -> Remuxes] /\ remux'[r] = m /\ \A x \in Recordings \ {r} : remux'[x] = remux[x]
      BY <1>1, <1>3, <1>4
<1> QED BY <1>3, <1>5

\* The same when only its pc changes.
LEMMA RemuxGoes ==
  ASSUME FilesTypeOK, NEW r \in Recordings, NEW q \in Reasons,
         NEW pc \in {"idle", "open", "acquire", "start", "run", "verify", "swap", "retry", "cleanup"},
         RemuxTo(r, q, pc)
  PROVE  /\ remux' \in [Recordings -> Remuxes]
         /\ remux'[r][q].pc = pc /\ remux'[r][q].out = remux[r][q].out
         /\ \A p \in Reasons \ {q} : remux'[r][p] = remux[r][p]
         /\ \A x \in Recordings \ {r} : remux'[x] = remux[x]
<1>1. remux \in [Recordings -> Remuxes] /\ remux[r] \in Remuxes BY DEF FilesTypeOK
<1>2. remux[r][q] \in RemuxRecord BY <1>1 DEF Remuxes
<1>3. PICK g : g = [remux[r][q] EXCEPT !.pc = pc] OBVIOUS
<1>4. g \in RemuxRecord /\ g.pc = pc /\ g.out = remux[r][q].out BY <1>2, <1>3 DEF RemuxRecord
<1>5. remux' = [remux EXCEPT ![r][q] = g] BY <1>3 DEF RemuxTo
<1>6. /\ remux' \in [Recordings -> Remuxes] /\ remux'[r][q] = g
      /\ \A p \in Reasons \ {q} : remux'[r][p] = remux[r][p]
      /\ \A x \in Recordings \ {r} : remux'[x] = remux[x]
      BY <1>4, <1>5, RemuxMoves
<1> QED BY <1>4, <1>6

\* The types of one recording's state.
LEMMA OneType ==
  ASSUME FilesTypeOK, NEW r \in Recordings
  PROVE  /\ recRow[r] \in {"live", "ended", "old", "gone"} /\ mediaAt[r] \in Media \cup {NoFile}
         /\ tmpAt[r] \in Reasons \cup {NoFile} /\ content[r] \in Contents /\ remux[r] \in Remuxes
         /\ \A q \in Reasons : remux[r][q] \in RemuxRecord
         /\ excuse[r] \subseteq Excuses
<1>1. remux[r] \in Remuxes BY DEF FilesTypeOK
<1>2. \A q \in Reasons : remux[r][q] \in RemuxRecord BY <1>1 DEF Remuxes
<1> QED BY <1>1, <1>2 DEF FilesTypeOK

\* One content of one recording is written.
LEMMA ContentWritten ==
  ASSUME FilesTypeOK, NEW r \in Recordings, NEW i \in Reasons, NEW v \in {"partial", "regular"},
         content' = [content EXCEPT ![r][i] = v]
  PROVE  /\ content' \in [Recordings -> Contents] /\ content'[r][i] = v
         /\ \A j \in Media \ {i} : content'[r][j] = content[r][j]
         /\ \A x \in Recordings \ {r} : content'[x] = content[x]
<1>1. content \in [Recordings -> Contents] /\ content[r] \in Contents BY DEF FilesTypeOK
<1>2. PICK c : c = [content[r] EXCEPT ![i] = v] OBVIOUS
<1>3. i \in Media BY DEF Media
<1>4. c \in Contents /\ c[i] = v /\ \A j \in Media \ {i} : c[j] = content[r][j] BY <1>1, <1>2, <1>3 DEF Contents
<1>5. content' = [content EXCEPT ![r] = c] BY <1>2
<1>6. content' \in [Recordings -> Contents] /\ content'[r] = c /\ \A x \in Recordings \ {r} : content'[x] = content[x]
      BY <1>1, <1>4, <1>5
<1> QED BY <1>4, <1>6

\* finishVideoRecording: the remux at the stop has not been there before.
LEMMA StopRecordingKeeps == ASSUME FilesIInv, NEW r \in Recordings, StopRecording(r) PROVE FilesIInv'
<1> USE DEF FilesIInv
<1>1. "stop" \in Reasons BY DEF Reasons
<1>2. RemuxTo(r, "stop", "open") /\ r \in capturing /\ capturing' = capturing \ {r}
      /\ mediaAt' = mediaAt /\ tmpAt' = tmpAt /\ content' = content /\ eraser' = eraser /\ restarts' = restarts /\ excuse' = excuse
      /\ recRow' = [recRow EXCEPT ![r] = IF recRow[r] = "live" THEN "ended" ELSE recRow[r]]
      BY DEF StopRecording
<1>3. /\ remux' \in [Recordings -> Remuxes] /\ remux'[r]["stop"].pc = "open"
      /\ \A p \in Reasons \ {"stop"} : remux'[r][p] = remux[r][p]
      /\ \A x \in Recordings \ {r} : remux'[x] = remux[x]
      BY <1>1, <1>2, RemuxGoes
<1>4. /\ recRow' \in [Recordings -> {"live", "ended", "old", "gone"}]
      /\ recRow[r] = "gone" <=> recRow'[r] = "gone"
      /\ \A x \in Recordings \ {r} : recRow'[x] = recRow[x]
      BY <1>2 DEF FilesTypeOK
<1>5. FilesTypeOK' BY <1>2, <1>3, <1>4 DEF FilesTypeOK
<1>6. OtherRecordingsStay(r) BY <1>2, <1>3, <1>4 DEF OtherRecordingsStay
<1>7. ShapeOK(r) /\ GoneOK(r) BY DEF FilesOK
<1>8. ShapeOK(r)'
  <2>1. ContentOK(r, capturing', content'[r], remux'[r])
        BY <1>2, <1>3, <1>7 DEF ShapeOK, Shape, ContentOK, Reasons
  <2>2. TmpOwned(r, capturing', tmpAt'[r], remux'[r], restarts')
        BY <1>2, <1>3, <1>7, OneType DEF ShapeOK, Shape, ContentOK, TmpOwned, Reasons, Busy
  <2>3. KeptOK(r, recRow'[r], capturing', mediaAt'[r], tmpAt'[r], content'[r], remux'[r], excuse'[r])
        BY <1>2, <1>3, <1>4, <1>7, OneType DEF ShapeOK, Shape, ContentOK, KeptOK, Reasons, Busy
  <2> QED BY <2>1, <2>2, <2>3 DEF ShapeOK, Shape
<1>9. GoneOK(r)' BY <1>2, <1>4, <1>7 DEF GoneOK, Erased
<1> QED BY <1>2, <1>4, <1>5, <1>6, <1>8, <1>9, RecordingMoves

\* The row ages.
LEMMA AgesKeeps == ASSUME FilesIInv, NEW r \in Recordings, Ages(r) PROVE FilesIInv'
<1> USE DEF FilesIInv
<1>1. /\ capturing' = capturing /\ mediaAt' = mediaAt /\ tmpAt' = tmpAt /\ content' = content /\ remux' = remux
      /\ eraser' = eraser /\ restarts' = restarts /\ excuse' = excuse
      /\ recRow' \in [Recordings -> {"live", "ended", "old", "gone"}] /\ recRow[r] = "ended" /\ recRow'[r] = "old"
      /\ \A x \in Recordings \ {r} : recRow'[x] = recRow[x]
      BY DEF Ages, FilesTypeOK
<1>2. FilesTypeOK' BY <1>1 DEF FilesTypeOK
<1>3. OtherRecordingsStay(r) BY <1>1 DEF OtherRecordingsStay
<1>4. ShapeOK(r) BY DEF FilesOK
<1>5. ShapeOK(r)' BY <1>1, <1>4 DEF ShapeOK, Shape, KeptOK
<1>6. GoneOK(r)' BY <1>1 DEF GoneOK
<1> QED BY <1>1, <1>2, <1>3, <1>5, <1>6, RecordingMoves

\* startRecordingRemuxBackfill.
LEMMA BackfillNextKeeps == ASSUME FilesIInv, NEW r \in Recordings, BackfillNext(r) PROVE FilesIInv'
<1> USE DEF FilesIInv
<1>1. "backfill" \in Reasons BY DEF Reasons
<1>2. RemuxTo(r, "backfill", "open") /\ remux[r]["backfill"].pc = "idle"
      /\ mediaAt' = mediaAt /\ tmpAt' = tmpAt /\ content' = content /\ eraser' = eraser /\ restarts' = restarts
      /\ excuse' = excuse /\ capturing' = capturing /\ recRow' = recRow
      BY DEF BackfillNext, RemuxAt
<1>3. /\ remux' \in [Recordings -> Remuxes] /\ remux'[r]["backfill"].pc = "open"
      /\ \A p \in Reasons \ {"backfill"} : remux'[r][p] = remux[r][p]
      /\ \A x \in Recordings \ {r} : remux'[x] = remux[x]
      BY <1>1, <1>2, RemuxGoes
<1>5. FilesTypeOK' BY <1>2, <1>3 DEF FilesTypeOK
<1>6. OtherRecordingsStay(r) BY <1>2, <1>3 DEF OtherRecordingsStay
<1>7. ShapeOK(r) /\ GoneOK(r) BY DEF FilesOK
<1>8. ShapeOK(r)'
      BY <1>2, <1>3, <1>7, OneType DEF ShapeOK, Shape, ContentOK, TmpOwned, KeptOK, Reasons, Busy
<1>9. GoneOK(r)' BY <1>2, <1>7 DEF GoneOK, Erased
<1> QED BY <1>2, <1>5, <1>6, <1>8, <1>9, RecordingMoves

\* IsFragmentedMP4: a file that a remux wrote is not remuxed again.
LEMMA OpenMediaKeeps ==
  ASSUME FilesIInv, NEW r \in Recordings, NEW q \in Reasons, OpenMedia(r, q) PROVE FilesIInv'
<1> USE DEF FilesIInv
<1>1. PICK pc : pc = (IF Fragmented(r) THEN "acquire" ELSE "idle") OBVIOUS
<1>2. /\ RemuxTo(r, q, pc) /\ pc \in {"acquire", "idle"} /\ remux[r][q].pc = "open"
      /\ pc = "acquire" => mediaAt[r] # NoFile /\ content[r][mediaAt[r]] = "frag"
      /\ mediaAt' = mediaAt /\ tmpAt' = tmpAt /\ content' = content /\ eraser' = eraser /\ restarts' = restarts
      /\ excuse' = excuse /\ capturing' = capturing /\ recRow' = recRow
      BY <1>1 DEF OpenMedia, RemuxAt, Fragmented
<1>3. /\ remux' \in [Recordings -> Remuxes] /\ remux'[r][q].pc = pc
      /\ \A p \in Reasons \ {q} : remux'[r][p] = remux[r][p]
      /\ \A x \in Recordings \ {r} : remux'[x] = remux[x]
      BY <1>2, RemuxGoes
<1>5. FilesTypeOK' BY <1>2, <1>3 DEF FilesTypeOK
<1>6. OtherRecordingsStay(r) BY <1>2, <1>3 DEF OtherRecordingsStay
<1>7. ShapeOK(r) /\ GoneOK(r) BY DEF FilesOK
<1>8. ShapeOK(r)'
  <2>1. ContentOK(r, capturing', content'[r], remux'[r])
        BY <1>2, <1>3, <1>7 DEF ShapeOK, Shape, ContentOK, Reasons
  <2>2. TmpOwned(r, capturing', tmpAt'[r], remux'[r], restarts')
        BY <1>2, <1>3, <1>7, OneType DEF ShapeOK, Shape, ContentOK, TmpOwned, Reasons, Busy
  <2>3. KeptOK(r, recRow'[r], capturing', mediaAt'[r], tmpAt'[r], content'[r], remux'[r], excuse'[r])
        BY <1>2, <1>3, <1>7, OneType DEF ShapeOK, Shape, ContentOK, KeptOK, Reasons, Busy
  <2> QED BY <2>1, <2>2, <2>3 DEF ShapeOK, Shape
<1>9. GoneOK(r)' BY <1>2, <1>7 DEF GoneOK, Erased
<1> QED BY <1>2, <1>5, <1>6, <1>8, <1>9, RecordingMoves

\* AcquireExport: the second of two remuxes is noticed.
LEMMA AcquireExportKeeps ==
  ASSUME FilesIInv, NEW r \in Recordings, NEW q \in Reasons, AcquireExport(r, q) PROVE FilesIInv'
<1> USE DEF FilesIInv
<1>1. /\ remux[r][q].pc = "acquire"
      /\ mediaAt' = mediaAt /\ tmpAt' = tmpAt /\ content' = content /\ eraser' = eraser /\ restarts' = restarts
      /\ capturing' = capturing /\ recRow' = recRow
      BY DEF AcquireExport, RemuxAt
<1>2. PICK pc \in {"start", "idle"} :
        /\ RemuxTo(r, q, pc)
        /\ \/ pc = "start" /\ Excused(r, IF \E p \in Reasons \ {q} : HoldsSlot(r, p) THEN {"clash"} ELSE {})
           \/ pc = "idle" /\ excuse' = excuse
      BY DEF AcquireExport
<1>3. /\ remux' \in [Recordings -> Remuxes] /\ remux'[r][q].pc = pc
      /\ \A p \in Reasons \ {q} : remux'[r][p] = remux[r][p]
      /\ \A x \in Recordings \ {r} : remux'[x] = remux[x]
      BY <1>2, RemuxGoes
<1>4. /\ excuse' \in [Recordings -> SUBSET Excuses] /\ excuse[r] \subseteq excuse'[r]
      /\ pc = "start" /\ (\E p \in Reasons \ {q} : remux[r][p].pc \in Busy) => "clash" \in excuse'[r]
      /\ \A x \in Recordings \ {r} : excuse'[x] = excuse[x]
  <2>0. excuse \in [Recordings -> SUBSET Excuses] BY DEF FilesTypeOK
  <2>1. CASE pc = "idle" /\ excuse' = excuse BY <2>0, <2>1
  <2>2. CASE pc = "start" /\ Excused(r, IF \E p \in Reasons \ {q} : HoldsSlot(r, p) THEN {"clash"} ELSE {})
    <3>1. PICK w : w = (IF \E p \in Reasons \ {q} : HoldsSlot(r, p) THEN {"clash"} ELSE {}) OBVIOUS
    <3>2. w \subseteq Excuses /\ ((\E p \in Reasons \ {q} : remux[r][p].pc \in Busy) => "clash" \in w)
          BY <3>1 DEF HoldsSlot, Busy, Excuses
    <3>3. excuse' = [excuse EXCEPT ![r] = excuse[r] \cup w] BY <2>2, <3>1 DEF Excused
    <3> QED BY <2>0, <2>2, <3>2, <3>3
  <2> QED BY <1>2, <2>1, <2>2
<1>5. FilesTypeOK' BY <1>1, <1>3, <1>4 DEF FilesTypeOK
<1>6. OtherRecordingsStay(r) BY <1>1, <1>3, <1>4 DEF OtherRecordingsStay
<1>7. ShapeOK(r) /\ GoneOK(r) BY DEF FilesOK
<1>8. ShapeOK(r)'
  <2>1. ContentOK(r, capturing', content'[r], remux'[r])
        BY <1>1, <1>2, <1>3, <1>7 DEF ShapeOK, Shape, ContentOK, Reasons
  <2>2. TmpOwned(r, capturing', tmpAt'[r], remux'[r], restarts')
        BY <1>1, <1>2, <1>3, <1>7, OneType DEF ShapeOK, Shape, ContentOK, TmpOwned, Reasons, Busy
  <2>3. KeptOK(r, recRow'[r], capturing', mediaAt'[r], tmpAt'[r], content'[r], remux'[r], excuse'[r])
        BY <1>1, <1>2, <1>3, <1>4, <1>7, OneType DEF ShapeOK, Shape, ContentOK, KeptOK, Reasons, Busy
  <2> QED BY <2>1, <2>2, <2>3 DEF ShapeOK, Shape
<1>9. GoneOK(r)' BY <1>1, <1>4, <1>7 DEF GoneOK, Erased, LeftBehind
<1> QED BY <1>1, <1>5, <1>6, <1>8, <1>9, RecordingMoves

\* ffmpeg -y: what is truncated is not the listed file.
LEMMA FfmpegStartsKeeps ==
  ASSUME FilesIInv, NEW r \in Recordings, NEW q \in Reasons, FfmpegStarts(r, q) PROVE FilesIInv'
<1> USE DEF FilesIInv
<1>1. /\ remux[r][q].pc = "start"
      /\ mediaAt' = mediaAt /\ eraser' = eraser /\ restarts' = restarts
      /\ capturing' = capturing /\ recRow' = recRow /\ excuse' = excuse
      BY DEF FfmpegStarts, RemuxAt
<1>7. ShapeOK(r) /\ GoneOK(r) BY DEF FilesOK
<1>9. GoneOK(r)' BY <1>1, <1>7 DEF GoneOK, Erased
<1>2. CASE mediaAt[r] = NoFile
  <2>1. RemuxTo(r, q, "cleanup") /\ tmpAt' = tmpAt /\ content' = content BY <1>2 DEF FfmpegStarts
  <2>2. /\ remux' \in [Recordings -> Remuxes] /\ remux'[r][q].pc = "cleanup"
        /\ \A p \in Reasons \ {q} : remux'[r][p] = remux[r][p]
        /\ \A x \in Recordings \ {r} : remux'[x] = remux[x]
        BY <2>1, RemuxGoes
  <2>3. FilesTypeOK' BY <1>1, <2>1, <2>2 DEF FilesTypeOK
  <2>4. OtherRecordingsStay(r) BY <1>1, <2>1, <2>2 DEF OtherRecordingsStay
  <2>5. ContentOK(r, capturing', content'[r], remux'[r])
        BY <1>1, <1>7, <2>1, <2>2 DEF ShapeOK, Shape, ContentOK, Reasons
  <2>6. TmpOwned(r, capturing', tmpAt'[r], remux'[r], restarts')
        BY <1>1, <1>7, <2>1, <2>2, OneType DEF ShapeOK, Shape, ContentOK, TmpOwned, Reasons, Busy
  <2>7. KeptOK(r, recRow'[r], capturing', mediaAt'[r], tmpAt'[r], content'[r], remux'[r], excuse'[r])
        BY <1>1, <1>7, <2>1, <2>2, OneType DEF ShapeOK, Shape, ContentOK, KeptOK, Reasons, Busy
  <2>8. ShapeOK(r)' BY <2>5, <2>6, <2>7 DEF ShapeOK, Shape
  <2> QED BY <1>1, <1>9, <2>3, <2>4, <2>8, RecordingMoves
<1>3. CASE mediaAt[r] # NoFile
  <2>1. PICK out : out = (IF tmpAt[r] = NoFile THEN q ELSE tmpAt[r]) OBVIOUS
  <2>2. /\ remux' = [remux EXCEPT ![r][q] = [pc |-> "run", out |-> out]]
        /\ tmpAt' = [tmpAt EXCEPT ![r] = out]
        /\ content' = [content EXCEPT ![r][out] = "partial"]
        BY <1>3, <2>1 DEF FfmpegStarts
  <2>3. out \in Reasons /\ (tmpAt[r] = NoFile => out = q) /\ (tmpAt[r] # NoFile => out = tmpAt[r]) BY <2>1, OneType
  <2>4. PICK g : g = [pc |-> "run", out |-> out] OBVIOUS
  <2>5. g \in RemuxRecord /\ g.pc = "run" /\ g.out = out BY <2>3, <2>4 DEF RemuxRecord
  <2>6. /\ remux' \in [Recordings -> Remuxes] /\ remux'[r][q] = g
        /\ \A p \in Reasons \ {q} : remux'[r][p] = remux[r][p]
        /\ \A x \in Recordings \ {r} : remux'[x] = remux[x]
    <3>1. remux' = [remux EXCEPT ![r][q] = g] BY <2>2, <2>4
    <3> QED BY <2>5, <3>1, RemuxMoves
  <2>7. /\ tmpAt' \in [Recordings -> Reasons \cup {NoFile}] /\ tmpAt'[r] = out
        /\ \A x \in Recordings \ {r} : tmpAt'[x] = tmpAt[x]
        BY <2>2, <2>3 DEF FilesTypeOK
  <2>8. /\ content' \in [Recordings -> Contents] /\ content'[r][out] = "partial"
        /\ \A j \in Media \ {out} : content'[r][j] = content[r][j]
        /\ \A x \in Recordings \ {r} : content'[x] = content[x]
        BY <2>2, <2>3, ContentWritten
  <2>9. FilesTypeOK' BY <1>1, <2>6, <2>7, <2>8 DEF FilesTypeOK
  <2>10. OtherRecordingsStay(r) BY <1>1, <2>6, <2>7, <2>8 DEF OtherRecordingsStay
  <2>11. ContentOK(r, capturing', content'[r], remux'[r])
         BY <1>1, <1>7, <2>3, <2>5, <2>6, <2>8 DEF ShapeOK, Shape, ContentOK, Reasons, Media
  <2>12. TmpOwned(r, capturing', tmpAt'[r], remux'[r], restarts')
         BY <1>1, <1>7, <2>3, <2>5, <2>6, <2>7, OneType DEF ShapeOK, Shape, ContentOK, TmpOwned, Reasons, Busy
  <2>13. KeptOK(r, recRow'[r], capturing', mediaAt'[r], tmpAt'[r], content'[r], remux'[r], excuse'[r])
    <3> SUFFICES ASSUME "clash" \notin excuse[r], "refused" \notin excuse[r]
                 PROVE  /\ recRow[r] # "gone" => mediaAt[r] # NoFile /\ content'[r][mediaAt[r]] # "partial"
                        /\ ~(remux'[r]["stop"].pc \in Busy /\ remux'[r]["backfill"].pc \in Busy)
                        /\ out # mediaAt[r]
                        /\ \A p \in Reasons :
                             /\ remux'[r][p].pc = "run" => out = remux'[r][p].out
                             /\ remux'[r][p].pc \notin {"verify", "swap", "retry"}
                             /\ mediaAt[r] = p => remux'[r][p].pc \in {"idle", "open", "cleanup"}
                        /\ mediaAt[r] = "stop" => r \notin capturing /\ remux'[r]["stop"].pc # "open"
        BY <1>1, <2>7 DEF KeptOK
    <3>0. KeptOK(r, recRow[r], capturing, mediaAt[r], tmpAt[r], content[r], remux[r], excuse[r])
          BY <1>7 DEF ShapeOK, Shape
    <3>1. out # mediaAt[r] BY <1>1, <2>3, <3>0, OneType DEF KeptOK
    <3>2. \A p \in Reasons \ {q} : remux[r][p].pc \notin Busy BY <1>1, <3>0 DEF KeptOK, Reasons, Busy
    <3>3. mediaAt[r] \in Media BY <1>3, OneType
    <3>4. content'[r][mediaAt[r]] = content[r][mediaAt[r]] BY <2>8, <3>1, <3>3
    <3>5. ~(remux'[r]["stop"].pc \in Busy /\ remux'[r]["backfill"].pc \in Busy) BY <2>6, <3>2 DEF Reasons
    <3>6. ASSUME NEW p \in Reasons
          PROVE  /\ remux'[r][p].pc = "run" => out = remux'[r][p].out
                 /\ remux'[r][p].pc \notin {"verify", "swap", "retry"}
                 /\ mediaAt[r] = p => remux'[r][p].pc \in {"idle", "open", "cleanup"}
      <4>1. CASE p = q BY <1>1, <2>5, <2>6, <3>0, <4>1 DEF KeptOK
      <4>2. CASE p # q BY <2>6, <3>0, <3>2, <4>2 DEF KeptOK, Busy
      <4> QED BY <4>1, <4>2
    <3>7. mediaAt[r] = "stop" => r \notin capturing /\ remux'[r]["stop"].pc # "open"
          BY <2>5, <2>6, <3>0 DEF KeptOK, Reasons
    <3> QED BY <1>3, <3>0, <3>1, <3>4, <3>5, <3>6, <3>7 DEF KeptOK
  <2>14. ShapeOK(r)' BY <2>11, <2>12, <2>13 DEF ShapeOK, Shape
  <2> QED BY <1>1, <1>9, <2>9, <2>10, <2>14, RecordingMoves
<1> QED BY <1>2, <1>3

\* ffmpeg ends, and has written the file or not.
LEMMA FfmpegEndsKeeps ==
  ASSUME FilesIInv, NEW r \in Recordings, NEW q \in Reasons, FfmpegEnds(r, q) PROVE FilesIInv'
<1> USE DEF FilesIInv
<1>1. /\ remux[r][q].pc = "run"
      /\ mediaAt' = mediaAt /\ tmpAt' = tmpAt /\ eraser' = eraser /\ restarts' = restarts
      /\ capturing' = capturing /\ recRow' = recRow /\ excuse' = excuse
      BY DEF FfmpegEnds, RemuxAt
<1>2. ShapeOK(r) /\ GoneOK(r) BY DEF FilesOK
<1>3. GoneOK(r)' BY <1>1, <1>2 DEF GoneOK, Erased
<1>4. PICK out : out = remux[r][q].out OBVIOUS
<1>5. out \in Reasons BY <1>1, <1>2, <1>4 DEF ShapeOK, Shape, ContentOK
<1>6. PICK pc \in {"verify", "cleanup"} :
        /\ RemuxTo(r, q, pc)
        /\ \/ pc = "verify" /\ content' = [content EXCEPT ![r][out] = "regular"]
           \/ pc = "cleanup" /\ content' = content
           \/ content' = content /\ \E p \in Reasons \ {q} : remux[r][p].pc = "run"
  <2>1. CASE RemuxTo(r, q, "verify") /\ content' = [content EXCEPT ![r][out] = "regular"] BY <2>1
  <2>2. CASE \E p \in Reasons \ {q} : RemuxAt(r, p, "run") /\ remux[r][p].out = out BY <1>4, <2>1, <2>2 DEF FfmpegEnds, RemuxAt
  <2>3. CASE ~\E p \in Reasons \ {q} : RemuxAt(r, p, "run") /\ remux[r][p].out = out BY <1>4, <2>1, <2>3 DEF FfmpegEnds
  <2> QED BY <2>2, <2>3
<1>7. /\ remux' \in [Recordings -> Remuxes] /\ remux'[r][q].pc = pc
      /\ \A p \in Reasons \ {q} : remux'[r][p] = remux[r][p]
      /\ \A x \in Recordings \ {r} : remux'[x] = remux[x]
      BY <1>6, RemuxGoes
<1>8. /\ content' \in [Recordings -> Contents]
      /\ \A j \in Media \ {out} : content'[r][j] = content[r][j]
      /\ content'[r][out] = content[r][out] \/ content'[r][out] = "regular"
      /\ \/ pc = "verify" /\ content'[r][out] = "regular"
         \/ pc = "cleanup"
         \/ \E p \in Reasons \ {q} : remux[r][p].pc = "run"
      /\ \A x \in Recordings \ {r} : content'[x] = content[x]
  <2>1. CASE pc = "verify" /\ content' = [content EXCEPT ![r][out] = "regular"]
    <3>1. /\ content' \in [Recordings -> Contents] /\ content'[r][out] = "regular"
          /\ \A j \in Media \ {out} : content'[r][j] = content[r][j]
          /\ \A x \in Recordings \ {r} : content'[x] = content[x]
          BY <1>5, <2>1, ContentWritten
    <3> QED BY <2>1, <3>1
  <2>2. CASE content' = content BY <1>6, <2>1, <2>2 DEF FilesTypeOK
  <2> QED BY <1>6, <2>1, <2>2
<1>9. FilesTypeOK' BY <1>1, <1>7, <1>8 DEF FilesTypeOK
<1>10. OtherRecordingsStay(r) BY <1>1, <1>7, <1>8 DEF OtherRecordingsStay
<1>11. ContentOK(r, capturing', content'[r], remux'[r])
       BY <1>1, <1>2, <1>5, <1>7, <1>8 DEF ShapeOK, Shape, ContentOK, Reasons, Media
<1>12. TmpOwned(r, capturing', tmpAt'[r], remux'[r], restarts')
       BY <1>1, <1>2, <1>7, OneType DEF ShapeOK, Shape, ContentOK, TmpOwned, Reasons, Busy
<1>13. KeptOK(r, recRow'[r], capturing', mediaAt'[r], tmpAt'[r], content'[r], remux'[r], excuse'[r])
  <2> SUFFICES ASSUME "clash" \notin excuse[r], "refused" \notin excuse[r]
               PROVE  /\ recRow[r] # "gone" => mediaAt[r] # NoFile /\ content'[r][mediaAt[r]] # "partial"
                      /\ ~(remux'[r]["stop"].pc \in Busy /\ remux'[r]["backfill"].pc \in Busy)
                      /\ tmpAt[r] # mediaAt[r]
                      /\ \A p \in Reasons :
                           /\ remux'[r][p].pc = "run" => tmpAt[r] = remux'[r][p].out
                           /\ remux'[r][p].pc \in {"verify", "swap"} => tmpAt[r] # NoFile /\ content'[r][tmpAt[r]] = "regular"
                           /\ remux'[r][p].pc # "retry"
                           /\ mediaAt[r] = p => remux'[r][p].pc \in {"idle", "open", "cleanup"}
                      /\ mediaAt[r] = "stop" => r \notin capturing /\ remux'[r]["stop"].pc # "open"
      BY <1>1 DEF KeptOK
  <2>0. KeptOK(r, recRow[r], capturing, mediaAt[r], tmpAt[r], content[r], remux[r], excuse[r])
        BY <1>2 DEF ShapeOK, Shape
  <2>1. tmpAt[r] = out /\ tmpAt[r] # mediaAt[r] /\ tmpAt[r] # NoFile BY <1>1, <1>4, <1>5, <2>0 DEF KeptOK, Reasons, NoFile
  <2>2. \A p \in Reasons \ {q} : remux[r][p].pc \notin Busy BY <1>1, <2>0 DEF KeptOK, Reasons, Busy
  <2>3. mediaAt[r] # NoFile => content'[r][mediaAt[r]] = content[r][mediaAt[r]] BY <1>8, <2>1, OneType
  <2>4. ~(remux'[r]["stop"].pc \in Busy /\ remux'[r]["backfill"].pc \in Busy) BY <1>7, <2>2 DEF Reasons
  <2>5. pc = "cleanup" \/ (pc = "verify" /\ content'[r][out] = "regular") BY <1>6, <1>8, <2>2 DEF Busy
  <2>6. ASSUME NEW p \in Reasons
        PROVE  /\ remux'[r][p].pc = "run" => tmpAt[r] = remux'[r][p].out
               /\ remux'[r][p].pc \in {"verify", "swap"} => tmpAt[r] # NoFile /\ content'[r][tmpAt[r]] = "regular"
               /\ remux'[r][p].pc # "retry"
               /\ mediaAt[r] = p => remux'[r][p].pc \in {"idle", "open", "cleanup"}
    <3>1. CASE p = q BY <1>1, <1>6, <1>7, <2>0, <2>1, <2>5, <3>1 DEF KeptOK
    <3>2. CASE p # q BY <1>7, <2>0, <2>2, <3>2 DEF KeptOK, Busy
    <3> QED BY <3>1, <3>2
  <2>7. mediaAt[r] = "stop" => r \notin capturing /\ remux'[r]["stop"].pc # "open"
        BY <1>6, <1>7, <2>0 DEF KeptOK, Reasons
  <2> QED BY <2>0, <2>1, <2>3, <2>4, <2>6, <2>7 DEF KeptOK
<1>14. ShapeOK(r)' BY <1>11, <1>12, <1>13 DEF ShapeOK, Shape
<1> QED BY <1>1, <1>3, <1>9, <1>10, <1>14, RecordingMoves

\* RemuxFaststart looks at what it wrote.
LEMMA VerifyKeeps ==
  ASSUME FilesIInv, NEW r \in Recordings, NEW q \in Reasons, Verify(r, q) PROVE FilesIInv'
<1> USE DEF FilesIInv
<1>1. /\ remux[r][q].pc = "verify"
      /\ mediaAt' = mediaAt /\ tmpAt' = tmpAt /\ content' = content /\ eraser' = eraser /\ restarts' = restarts
      /\ excuse' = excuse /\ capturing' = capturing /\ recRow' = recRow
      BY DEF Verify, RemuxAt
<1>2. PICK pc \in {"swap", "cleanup"} : RemuxTo(r, q, pc) BY DEF Verify
<1>3. /\ remux' \in [Recordings -> Remuxes] /\ remux'[r][q].pc = pc
      /\ \A p \in Reasons \ {q} : remux'[r][p] = remux[r][p]
      /\ \A x \in Recordings \ {r} : remux'[x] = remux[x]
      BY <1>2, RemuxGoes
<1>5. FilesTypeOK' BY <1>1, <1>3 DEF FilesTypeOK
<1>6. OtherRecordingsStay(r) BY <1>1, <1>3 DEF OtherRecordingsStay
<1>7. ShapeOK(r) /\ GoneOK(r) BY DEF FilesOK
<1>8. ShapeOK(r)'
  <2>1. ContentOK(r, capturing', content'[r], remux'[r])
        BY <1>1, <1>2, <1>3, <1>7 DEF ShapeOK, Shape, ContentOK, Reasons
  <2>2. TmpOwned(r, capturing', tmpAt'[r], remux'[r], restarts')
        BY <1>1, <1>2, <1>3, <1>7, OneType DEF ShapeOK, Shape, ContentOK, TmpOwned, Reasons, Busy
  <2>3. KeptOK(r, recRow'[r], capturing', mediaAt'[r], tmpAt'[r], content'[r], remux'[r], excuse'[r])
        BY <1>1, <1>2, <1>3, <1>7, OneType DEF ShapeOK, Shape, ContentOK, KeptOK, Reasons, Busy
  <2> QED BY <2>1, <2>2, <2>3 DEF ShapeOK, Shape
<1>9. GoneOK(r)' BY <1>1, <1>7 DEF GoneOK, Erased
<1> QED BY <1>1, <1>5, <1>6, <1>8, <1>9, RecordingMoves

\* os.Rename: the temporary file becomes the media.
LEMMA Renamed ==
  ASSUME FilesTypeOK, NEW r \in Recordings, Rename(r)
  PROVE  /\ tmpAt[r] \in Reasons
         /\ mediaAt' \in [Recordings -> Media \cup {NoFile}] /\ mediaAt'[r] = tmpAt[r]
         /\ tmpAt' \in [Recordings -> Reasons \cup {NoFile}] /\ tmpAt'[r] = NoFile
         /\ excuse' \in [Recordings -> SUBSET Excuses] /\ excuse[r] \subseteq excuse'[r]
         /\ excuse'[r] \subseteq excuse[r] \cup {"revived"}
         /\ recRow[r] = "gone" /\ mediaAt[r] = NoFile => "revived" \in excuse'[r]
         /\ \A x \in Recordings \ {r} : mediaAt'[x] = mediaAt[x] /\ tmpAt'[x] = tmpAt[x] /\ excuse'[x] = excuse[x]
<1>1. tmpAt[r] \in Reasons BY OneType DEF Rename
<1>2. tmpAt[r] \in Media BY <1>1 DEF Media
<1>3. /\ mediaAt' \in [Recordings -> Media \cup {NoFile}] /\ mediaAt'[r] = tmpAt[r]
      /\ \A x \in Recordings \ {r} : mediaAt'[x] = mediaAt[x]
      BY <1>2 DEF Rename, FilesTypeOK
<1>4. /\ tmpAt' \in [Recordings -> Reasons \cup {NoFile}] /\ tmpAt'[r] = NoFile
      /\ \A x \in Recordings \ {r} : tmpAt'[x] = tmpAt[x]
      BY DEF Rename, FilesTypeOK
<1>5. PICK w : w = (IF recRow[r] = "gone" /\ mediaAt[r] = NoFile THEN {"revived"} ELSE {}) OBVIOUS
<1>6. w \subseteq {"revived"} /\ (recRow[r] = "gone" /\ mediaAt[r] = NoFile => "revived" \in w) BY <1>5
<1>7. excuse' = [excuse EXCEPT ![r] = excuse[r] \cup w] BY <1>5 DEF Rename, Excused
<1>8. excuse \in [Recordings -> SUBSET Excuses] BY DEF FilesTypeOK
<1>9. /\ excuse' \in [Recordings -> SUBSET Excuses] /\ excuse'[r] = excuse[r] \cup w
      /\ \A x \in Recordings \ {r} : excuse'[x] = excuse[x]
      BY <1>6, <1>7, <1>8 DEF Excuses
<1> QED BY <1>1, <1>3, <1>4, <1>6, <1>9

\* What is swapped in was written to the end, by the only remux at work.
LEMMA SwapInKeeps ==
  ASSUME FilesIInv, NEW r \in Recordings, NEW q \in Reasons, SwapIn(r, q) PROVE FilesIInv'
<1> USE DEF FilesIInv
<1>1. /\ remux[r][q].pc = "swap" /\ content' = content /\ eraser' = eraser /\ restarts' = restarts
      /\ capturing' = capturing /\ recRow' = recRow
      BY DEF SwapIn, RemuxAt
<1>2. ShapeOK(r) /\ GoneOK(r) BY DEF FilesOK
<1>3. CASE Rename(r) /\ RemuxTo(r, q, "cleanup")
  <2>1. /\ remux' \in [Recordings -> Remuxes] /\ remux'[r][q].pc = "cleanup"
        /\ \A p \in Reasons \ {q} : remux'[r][p] = remux[r][p]
        /\ \A x \in Recordings \ {r} : remux'[x] = remux[x]
        BY <1>3, RemuxGoes
  <2>2. /\ tmpAt[r] \in Reasons
        /\ mediaAt' \in [Recordings -> Media \cup {NoFile}] /\ mediaAt'[r] = tmpAt[r]
        /\ tmpAt' \in [Recordings -> Reasons \cup {NoFile}] /\ tmpAt'[r] = NoFile
        /\ excuse' \in [Recordings -> SUBSET Excuses] /\ excuse[r] \subseteq excuse'[r]
        /\ excuse'[r] \subseteq excuse[r] \cup {"revived"}
        /\ recRow[r] = "gone" /\ mediaAt[r] = NoFile => "revived" \in excuse'[r]
        /\ \A x \in Recordings \ {r} : mediaAt'[x] = mediaAt[x] /\ tmpAt'[x] = tmpAt[x] /\ excuse'[x] = excuse[x]
        BY <1>3, Renamed
  <2>3. FilesTypeOK' BY <1>1, <2>1, <2>2 DEF FilesTypeOK
  <2>4. OtherRecordingsStay(r) BY <1>1, <2>1, <2>2 DEF OtherRecordingsStay
  <2>5. ContentOK(r, capturing', content'[r], remux'[r])
        BY <1>1, <1>2, <2>1 DEF ShapeOK, Shape, ContentOK, Reasons
  <2>6. TmpOwned(r, capturing', tmpAt'[r], remux'[r], restarts') BY <2>2 DEF TmpOwned
  <2>7. KeptOK(r, recRow'[r], capturing', mediaAt'[r], tmpAt'[r], content'[r], remux'[r], excuse'[r])
    <3> SUFFICES ASSUME "clash" \notin excuse[r], "refused" \notin excuse[r]
                 PROVE  /\ content[r][tmpAt[r]] # "partial"
                        /\ ~(remux'[r]["stop"].pc \in Busy /\ remux'[r]["backfill"].pc \in Busy)
                        /\ \A p \in Reasons :
                             /\ remux'[r][p].pc \notin {"run", "verify", "swap", "retry"}
                             /\ tmpAt[r] = p => remux'[r][p].pc \in {"idle", "open", "cleanup"}
                        /\ tmpAt[r] = "stop" => r \notin capturing /\ remux'[r]["stop"].pc # "open"
        BY <1>1, <2>2 DEF KeptOK, NoFile, Reasons
    <3>0. KeptOK(r, recRow[r], capturing, mediaAt[r], tmpAt[r], content[r], remux[r], excuse[r])
          BY <1>2 DEF ShapeOK, Shape
    <3>1. content[r][tmpAt[r]] = "regular" BY <1>1, <3>0 DEF KeptOK
    <3>2. \A p \in Reasons \ {q} : remux[r][p].pc \notin Busy BY <1>1, <3>0 DEF KeptOK, Reasons, Busy
    <3>3. tmpAt[r] = q \/ (r \notin capturing /\ remux[r]["stop"].pc = "idle" /\ tmpAt[r] = "stop" /\ q = "backfill")
          BY <1>1, <1>2, <2>2, <3>2 DEF ShapeOK, Shape, TmpOwned, Reasons, Busy, NoFile
    <3>4. r \in capturing => q # "stop" BY <1>1, <1>2 DEF ShapeOK, Shape, ContentOK
    <3>5. ASSUME NEW p \in Reasons
          PROVE  /\ remux'[r][p].pc \notin {"run", "verify", "swap", "retry"}
                 /\ tmpAt[r] = p => remux'[r][p].pc \in {"idle", "open", "cleanup"}
      <4>1. CASE p = q BY <2>1, <4>1
      <4>2. CASE p # q BY <2>1, <3>2, <3>3, <4>2 DEF Busy
      <4> QED BY <4>1, <4>2
    <3>6. ~(remux'[r]["stop"].pc \in Busy /\ remux'[r]["backfill"].pc \in Busy) BY <2>1, <3>2 DEF Reasons
    <3>7. tmpAt[r] = "stop" => r \notin capturing /\ remux'[r]["stop"].pc # "open"
          BY <2>1, <3>3, <3>4 DEF Reasons
    <3> QED BY <3>1, <3>5, <3>6, <3>7
  <2>8. ShapeOK(r)' BY <2>5, <2>6, <2>7 DEF ShapeOK, Shape
  <2>9. GoneOK(r)' BY <1>1, <1>2, <2>2 DEF GoneOK, Erased, LeftBehind
  <2> QED BY <1>1, <2>3, <2>4, <2>8, <2>9, RecordingMoves
<1>4. CASE /\ tmpAt[r] = NoFile \/ (MayRefuse /\ mediaAt[r] # NoFile)
           /\ RemuxTo(r, q, IF mediaAt[r] = NoFile THEN "cleanup" ELSE "retry")
           /\ mediaAt' = [mediaAt EXCEPT ![r] = NoFile]
           /\ Excused(r, IF tmpAt[r] # NoFile THEN {"refused"} ELSE {})
           /\ UNCHANGED tmpAt
  <2>1. PICK pc : pc = (IF mediaAt[r] = NoFile THEN "cleanup" ELSE "retry") OBVIOUS
  <2>2. pc \in {"cleanup", "retry"} /\ RemuxTo(r, q, pc) BY <1>4, <2>1
  <2>3. /\ remux' \in [Recordings -> Remuxes] /\ remux'[r][q].pc = pc
        /\ \A p \in Reasons \ {q} : remux'[r][p] = remux[r][p]
        /\ \A x \in Recordings \ {r} : remux'[x] = remux[x]
        BY <2>2, RemuxGoes
  <2>4. /\ mediaAt' \in [Recordings -> Media \cup {NoFile}] /\ mediaAt'[r] = NoFile
        /\ \A x \in Recordings \ {r} : mediaAt'[x] = mediaAt[x]
        BY <1>4 DEF FilesTypeOK
  <2>5. PICK w : w = (IF tmpAt[r] # NoFile THEN {"refused"} ELSE {}) OBVIOUS
  <2>6. w \subseteq Excuses /\ (tmpAt[r] # NoFile => "refused" \in w) BY <2>5 DEF Excuses
  <2>7. excuse' = [excuse EXCEPT ![r] = excuse[r] \cup w] BY <1>4, <2>5 DEF Excused
  <2>8. excuse \in [Recordings -> SUBSET Excuses] BY DEF FilesTypeOK
  <2>9. /\ excuse' \in [Recordings -> SUBSET Excuses] /\ excuse'[r] = excuse[r] \cup w
        /\ \A x \in Recordings \ {r} : excuse'[x] = excuse[x]
        BY <2>6, <2>7, <2>8
  <2>10. FilesTypeOK' BY <1>1, <1>4, <2>3, <2>4, <2>9 DEF FilesTypeOK
  <2>11. OtherRecordingsStay(r) BY <1>1, <1>4, <2>3, <2>4, <2>9 DEF OtherRecordingsStay
  <2>12. ContentOK(r, capturing', content'[r], remux'[r])
         BY <1>1, <1>2, <2>2, <2>3 DEF ShapeOK, Shape, ContentOK, Reasons
  <2>13. TmpOwned(r, capturing', tmpAt'[r], remux'[r], restarts')
         BY <1>1, <1>2, <1>4, <2>2, <2>3, OneType DEF ShapeOK, Shape, TmpOwned, Reasons, Busy
  <2>14. "clash" \in excuse'[r] \/ "refused" \in excuse'[r]
         BY <1>1, <1>2, <2>6, <2>9 DEF ShapeOK, Shape, KeptOK
  <2>15. ShapeOK(r)' BY <2>12, <2>13, <2>14 DEF ShapeOK, Shape, KeptOK
  <2>16. GoneOK(r)' BY <2>4 DEF GoneOK
  <2> QED BY <1>1, <2>10, <2>11, <2>15, <2>16, RecordingMoves
<1> QED BY <1>3, <1>4 DEF SwapIn

\* Nobody tries again unless a rename was refused or two remuxes met.
LEMMA SwapAgainKeeps ==
  ASSUME FilesIInv, NEW r \in Recordings, NEW q \in Reasons, SwapAgain(r, q) PROVE FilesIInv'
<1> USE DEF FilesIInv
<1>1. /\ remux[r][q].pc = "retry" /\ content' = content /\ eraser' = eraser /\ restarts' = restarts
      /\ capturing' = capturing /\ recRow' = recRow /\ RemuxTo(r, q, "cleanup")
      BY DEF SwapAgain, RemuxAt
<1>2. ShapeOK(r) /\ GoneOK(r) BY DEF FilesOK
<1>3. "clash" \in excuse[r] \/ "refused" \in excuse[r] BY <1>1, <1>2 DEF ShapeOK, Shape, KeptOK
<1>4. /\ remux' \in [Recordings -> Remuxes] /\ remux'[r][q].pc = "cleanup"
      /\ \A p \in Reasons \ {q} : remux'[r][p] = remux[r][p]
      /\ \A x \in Recordings \ {r} : remux'[x] = remux[x]
      BY <1>1, RemuxGoes
<1>5. ContentOK(r, capturing', content'[r], remux'[r])
      BY <1>1, <1>2, <1>4 DEF ShapeOK, Shape, ContentOK, Reasons
<1>6. CASE Rename(r)
  <2>1. /\ mediaAt' \in [Recordings -> Media \cup {NoFile}]
        /\ tmpAt' \in [Recordings -> Reasons \cup {NoFile}] /\ tmpAt'[r] = NoFile
        /\ excuse' \in [Recordings -> SUBSET Excuses] /\ excuse[r] \subseteq excuse'[r]
        /\ recRow[r] = "gone" /\ mediaAt[r] = NoFile => "revived" \in excuse'[r]
        /\ \A x \in Recordings \ {r} : mediaAt'[x] = mediaAt[x] /\ tmpAt'[x] = tmpAt[x] /\ excuse'[x] = excuse[x]
        BY <1>6, Renamed
  <2>2. FilesTypeOK' BY <1>1, <1>4, <2>1 DEF FilesTypeOK
  <2>3. OtherRecordingsStay(r) BY <1>1, <1>4, <2>1 DEF OtherRecordingsStay
  <2>4. ShapeOK(r)' BY <1>3, <1>5, <2>1 DEF ShapeOK, Shape, TmpOwned, KeptOK
  <2>5. GoneOK(r)' BY <1>1, <1>2, <2>1 DEF GoneOK, Erased, LeftBehind
  <2> QED BY <1>1, <2>2, <2>3, <2>4, <2>5, RecordingMoves
<1>7. CASE UNCHANGED <<mediaAt, tmpAt, excuse>>
  <2>2. FilesTypeOK' BY <1>1, <1>4, <1>7 DEF FilesTypeOK
  <2>3. OtherRecordingsStay(r) BY <1>1, <1>4, <1>7 DEF OtherRecordingsStay
  <2>4. TmpOwned(r, capturing', tmpAt'[r], remux'[r], restarts')
        BY <1>1, <1>2, <1>4, <1>7, OneType DEF ShapeOK, Shape, TmpOwned, Reasons, Busy
  <2>5. ShapeOK(r)' BY <1>3, <1>5, <1>7, <2>4 DEF ShapeOK, Shape, KeptOK
  <2>6. GoneOK(r)' BY <1>1, <1>2, <1>7 DEF GoneOK, Erased
  <2> QED BY <1>1, <2>2, <2>3, <2>5, <2>6, RecordingMoves
<1> QED BY <1>6, <1>7 DEF SwapAgain

\* The deferred os.Remove.
LEMMA RemoveTmpKeeps ==
  ASSUME FilesIInv, NEW r \in Recordings, NEW q \in Reasons, RemoveTmp(r, q) PROVE FilesIInv'
<1> USE DEF FilesIInv
<1>1. /\ remux[r][q].pc = "cleanup" /\ content' = content /\ eraser' = eraser /\ restarts' = restarts
      /\ capturing' = capturing /\ recRow' = recRow /\ mediaAt' = mediaAt /\ excuse' = excuse
      /\ remux' = [remux EXCEPT ![r][q] = NoRemux]
      /\ tmpAt' \in [Recordings -> Reasons \cup {NoFile}] /\ tmpAt'[r] = NoFile
      /\ \A x \in Recordings \ {r} : tmpAt'[x] = tmpAt[x]
      BY DEF RemoveTmp, RemuxAt, FilesTypeOK
<1>2. ShapeOK(r) /\ GoneOK(r) BY DEF FilesOK
<1>3. NoRemux \in RemuxRecord /\ NoRemux.pc = "idle" BY DEF NoRemux, RemuxRecord
<1>4. /\ remux' \in [Recordings -> Remuxes] /\ remux'[r][q] = NoRemux
      /\ \A p \in Reasons \ {q} : remux'[r][p] = remux[r][p]
      /\ \A x \in Recordings \ {r} : remux'[x] = remux[x]
      BY <1>1, <1>3, RemuxMoves
<1>5. FilesTypeOK' BY <1>1, <1>4 DEF FilesTypeOK
<1>6. OtherRecordingsStay(r) BY <1>1, <1>4 DEF OtherRecordingsStay
<1>7. ContentOK(r, capturing', content'[r], remux'[r])
      BY <1>1, <1>2, <1>3, <1>4 DEF ShapeOK, Shape, ContentOK, Reasons
<1>8. KeptOK(r, recRow'[r], capturing', mediaAt'[r], tmpAt'[r], content'[r], remux'[r], excuse'[r])
      BY <1>1, <1>2, <1>3, <1>4 DEF ShapeOK, Shape, KeptOK, Reasons, Busy
<1>9. ShapeOK(r)' BY <1>1, <1>7, <1>8 DEF ShapeOK, Shape, TmpOwned
<1>10. GoneOK(r)' BY <1>1, <1>2 DEF GoneOK, Erased
<1> QED BY <1>1, <1>5, <1>6, <1>9, <1>10, RecordingMoves

\* One deletion goes to f; the others stay.
LEMMA EraserMoves ==
  ASSUME FilesTypeOK, NEW e \in Erasers, NEW f \in EraserRecord, eraser' = [eraser EXCEPT ![e] = f]
  PROVE  /\ eraser' \in [Erasers -> EraserRecord] /\ eraser'[e] = f
         /\ \A d \in Erasers \ {e} : eraser'[d] = eraser[d]
  BY DEF FilesTypeOK

\* A deletion moves that neither had a file to remove nor has one now, and nothing else changes.
LEMMA DeletionMoves ==
  ASSUME FilesIInv, NEW e \in Erasers, NEW f \in EraserRecord, eraser' = [eraser EXCEPT ![e] = f],
         eraser[e].pc # "file", f.pc # "file", f.pc = "row" => f.now \in Recordings,
         UNCHANGED <<recRow, capturing, mediaAt, tmpAt, content, remux, restarts, excuse>>
  PROVE  FilesIInv'
<1> USE DEF FilesIInv
<1>1. /\ eraser' \in [Erasers -> EraserRecord] /\ eraser'[e] = f
      /\ \A d \in Erasers \ {e} : eraser'[d] = eraser[d]
      BY EraserMoves
<1>2. FilesTypeOK' BY <1>1 DEF FilesTypeOK
<1>3. \A x : Erased(x) => Erased(x)' BY <1>1 DEF Erased
<1>4. ASSUME NEW x \in Recordings PROVE ShapeOK(x)' /\ GoneOK(x)'
  <2>1. ShapeOK(x) /\ GoneOK(x) BY DEF FilesOK
  <2>2. ShapeOK(x)' BY <2>1 DEF ShapeOK
  <2>3. GoneOK(x)' BY <1>3, <2>1 DEF GoneOK
  <2> QED BY <2>2, <2>3
<1>5. FilesOK' BY <1>4 DEF FilesOK
<1>6. ErasersOK'
  <2> SUFFICES ASSUME NEW d \in Erasers
               PROVE  /\ eraser'[d].pc \in {"row", "file"} => eraser'[d].now \in Recordings
                      /\ eraser'[d].pc = "file" => recRow'[eraser'[d].now] = "gone"
      BY DEF ErasersOK
  <2>1. CASE d = e BY <1>1, <2>1
  <2>2. CASE d # e BY <1>1, <2>2 DEF ErasersOK
  <2> QED BY <2>1, <2>2
<1> QED BY <1>2, <1>5, <1>6

\* A deletion that is through with a recording takes the next one or ends.
LEMMA VictimLeft ==
  ASSUME FilesTypeOK, NEW e \in Erasers, VictimDone(e)
  PROVE  \E f \in EraserRecord : f.pc \in {"idle", "next"} /\ eraser' = [eraser EXCEPT ![e] = f]
<1>1. eraser[e] \in EraserRecord BY DEF FilesTypeOK
<1>2. PICK f : f = (IF eraser[e].todo = {eraser[e].now} THEN NoEraser
                    ELSE [eraser[e] EXCEPT !.pc = "next", !.todo = eraser[e].todo \ {eraser[e].now}, !.now = "none"])
      OBVIOUS
<1>3. eraser' = [eraser EXCEPT ![e] = f] BY <1>2 DEF VictimDone
<1>4. f \in EraserRecord /\ f.pc \in {"idle", "next"}
  <2>1. CASE eraser[e].todo = {eraser[e].now} BY <1>2, <2>1 DEF NoEraser, EraserRecord
  <2>2. CASE eraser[e].todo # {eraser[e].now} BY <1>1, <1>2, <2>2 DEF EraserRecord
  <2> QED BY <2>1, <2>2
<1> QED BY <1>3, <1>4

\* handleDeleteRecording reads the row.
LEMMA ReadForDeleteKeeps ==
  ASSUME FilesIInv, NEW e \in Erasers, NEW r \in Recordings, ReadForDelete(e, r) PROVE FilesIInv'
<1>1. PICK f : f = [NoEraser EXCEPT !.pc = "row", !.todo = {r}, !.now = r] OBVIOUS
<1>2. f \in EraserRecord /\ f.pc = "row" /\ f.now = r BY <1>1 DEF NoEraser, EraserRecord
<1>3. eraser' = [eraser EXCEPT ![e] = f] BY <1>1 DEF ReadForDelete
<1>4. eraser[e].pc # "file" BY DEF ReadForDelete, NoEraser
<1>5. UNCHANGED <<recRow, capturing, mediaAt, tmpAt, content, remux, restarts, excuse>> BY DEF ReadForDelete
<1> QED BY <1>2, <1>3, <1>4, <1>5, DeletionMoves

\* runRetention lists its victims.
LEMMA ListVictimsKeeps ==
  ASSUME FilesIInv, NEW e \in Erasers, ListVictims(e) PROVE FilesIInv'
<1>1. PICK f : f = [pc |-> "next", todo |-> {r \in Recordings : recRow[r] = "old"}, now |-> "none", purge |-> TRUE] OBVIOUS
<1>2. f \in EraserRecord /\ f.pc = "next" BY <1>1 DEF EraserRecord
<1>3. eraser' = [eraser EXCEPT ![e] = f] BY <1>1 DEF ListVictims
<1>4. eraser[e].pc # "file" BY DEF ListVictims, NoEraser
<1>5. UNCHANGED <<recRow, capturing, mediaAt, tmpAt, content, remux, restarts, excuse>> BY DEF ListVictims
<1> QED BY <1>2, <1>3, <1>4, <1>5, DeletionMoves

\* runRetention goes to a victim.
LEMMA NextVictimKeeps ==
  ASSUME FilesIInv, NEW e \in Erasers, NEW r \in Recordings, NextVictim(e, r) PROVE FilesIInv'
<1>0. eraser[e] \in EraserRecord BY DEF FilesIInv, FilesTypeOK
<1>1. PICK f : f = [eraser[e] EXCEPT !.pc = "row", !.now = r] OBVIOUS
<1>2. f \in EraserRecord /\ f.pc = "row" /\ f.now = r BY <1>0, <1>1 DEF EraserRecord
<1>3. eraser' = [eraser EXCEPT ![e] = f] BY <1>1 DEF NextVictim
<1>4. eraser[e].pc # "file" BY DEF NextVictim
<1>5. UNCHANGED <<recRow, capturing, mediaAt, tmpAt, content, remux, restarts, excuse>> BY DEF NextVictim
<1> QED BY <1>2, <1>3, <1>4, <1>5, DeletionMoves

\* A deletion works on r: its row, its media or its excuses change, and nothing else of it.
LEMMA DeletionWorks ==
  ASSUME FilesIInv, NEW e \in Erasers, NEW f \in EraserRecord, NEW r \in Recordings,
         eraser' = [eraser EXCEPT ![e] = f], eraser[e].now = r,
         f.pc # "row", f.pc = "file" => f.now = r,
         recRow' = [recRow EXCEPT ![r] = "gone"],
         mediaAt' = mediaAt \/ mediaAt' = [mediaAt EXCEPT ![r] = NoFile],
         excuse' = excuse \/ excuse' = [excuse EXCEPT ![r] = @ \cup {"ioerror"}],
         UNCHANGED <<capturing, tmpAt, content, remux, restarts>>,
         f.pc = "file" \/ mediaAt'[r] = NoFile \/ "ioerror" \in excuse'[r]
  PROVE  FilesIInv'
<1> USE DEF FilesIInv
<1>1. /\ eraser' \in [Erasers -> EraserRecord] /\ eraser'[e] = f
      /\ \A d \in Erasers \ {e} : eraser'[d] = eraser[d]
      BY EraserMoves
<1>2. /\ recRow' \in [Recordings -> {"live", "ended", "old", "gone"}] /\ recRow'[r] = "gone"
      /\ \A x \in Recordings \ {r} : recRow'[x] = recRow[x]
      BY DEF FilesTypeOK
<1>3. /\ mediaAt' \in [Recordings -> Media \cup {NoFile}] /\ mediaAt'[r] \in {mediaAt[r], NoFile}
      /\ \A x \in Recordings \ {r} : mediaAt'[x] = mediaAt[x]
      BY DEF FilesTypeOK
<1>4. /\ excuse' \in [Recordings -> SUBSET Excuses] /\ excuse[r] \subseteq excuse'[r]
      /\ \A x \in Recordings \ {r} : excuse'[x] = excuse[x]
  <2>1. excuse \in [Recordings -> SUBSET Excuses] BY DEF FilesTypeOK
  <2>2. CASE excuse' = excuse BY <2>1, <2>2
  <2>3. CASE excuse' = [excuse EXCEPT ![r] = excuse[r] \cup {"ioerror"}] BY <2>1, <2>3 DEF Excuses
  <2> QED BY <2>2, <2>3
<1>5. FilesTypeOK' BY <1>1, <1>2, <1>3, <1>4 DEF FilesTypeOK
<1>6. OtherRecordingsStay(r) BY <1>2, <1>3, <1>4 DEF OtherRecordingsStay
<1>7. ShapeOK(r) BY DEF FilesOK
<1>8. ShapeOK(r)'
  <2>1. ContentOK(r, capturing', content'[r], remux'[r]) /\ TmpOwned(r, capturing', tmpAt'[r], remux'[r], restarts')
        BY <1>7 DEF ShapeOK, Shape
  <2>2. KeptOK(r, recRow'[r], capturing', mediaAt'[r], tmpAt'[r], content'[r], remux'[r], excuse'[r])
        BY <1>2, <1>3, <1>4, <1>7 DEF ShapeOK, Shape, KeptOK, Reasons, NoFile
  <2> QED BY <2>1, <2>2 DEF ShapeOK, Shape
<1>9. GoneOK(r)'
  <2>1. CASE f.pc = "file"
    <3>1. Erased(r)' BY <1>1, <2>1 DEF Erased
    <3> QED BY <3>1 DEF GoneOK
  <2>2. CASE f.pc # "file" BY <2>2 DEF GoneOK, LeftBehind
  <2> QED BY <2>1, <2>2
<1>10. \A x \in Recordings \ {r} : Erased(x) => Erased(x)' BY <1>1 DEF Erased
<1>11. ErasersOK'
  <2> SUFFICES ASSUME NEW d \in Erasers
               PROVE  /\ eraser'[d].pc \in {"row", "file"} => eraser'[d].now \in Recordings
                      /\ eraser'[d].pc = "file" => recRow'[eraser'[d].now] = "gone"
      BY DEF ErasersOK
  <2>1. CASE d = e BY <1>1, <1>2, <2>1
  <2>2. CASE d # e
    <3>1. eraser'[d] = eraser[d] BY <1>1, <2>2
    <3>2. /\ eraser[d].pc \in {"row", "file"} => eraser[d].now \in Recordings
          /\ eraser[d].pc = "file" => recRow[eraser[d].now] = "gone"
          BY DEF ErasersOK
    <3> QED BY <1>2, <3>1, <3>2
  <2> QED BY <2>1, <2>2
<1> QED BY <1>5, <1>6, <1>8, <1>9, <1>10, <1>11, OneMoves

\* DELETE of the row: the file is next, or the query failed and both stay.
LEMMA DeleteRecordingRowKeeps ==
  ASSUME FilesIInv, NEW e \in Erasers, DeleteRecordingRow(e) PROVE FilesIInv'
<1>1. eraser[e] \in EraserRecord /\ eraser[e].pc = "row" /\ eraser[e].now \in Recordings
      BY DEF FilesIInv, FilesTypeOK, ErasersOK, DeleteRecordingRow
<1>2. UNCHANGED <<capturing, mediaAt, tmpAt, content, remux, restarts, excuse>> BY DEF DeleteRecordingRow
<1>3. CASE recRow' = [recRow EXCEPT ![eraser[e].now] = "gone"] /\ eraser' = [eraser EXCEPT ![e].pc = "file"]
  <2>1. PICK f : f = [eraser[e] EXCEPT !.pc = "file"] OBVIOUS
  <2>2. f \in EraserRecord /\ f.pc = "file" /\ f.now = eraser[e].now BY <1>1, <2>1 DEF EraserRecord
  <2>3. eraser' = [eraser EXCEPT ![e] = f] BY <1>3, <2>1
  <2> QED BY <1>1, <1>2, <1>3, <2>2, <2>3, DeletionWorks
<1>4. CASE VictimDone(e) /\ recRow' = recRow
  <2>1. PICK f \in EraserRecord : f.pc \in {"idle", "next"} /\ eraser' = [eraser EXCEPT ![e] = f]
        BY <1>4, VictimLeft DEF FilesIInv
  <2> QED BY <1>1, <1>2, <1>4, <2>1, DeletionMoves
<1> QED BY <1>3, <1>4 DEF DeleteRecordingRow

\* removeRecordingFile, of a row that is gone.
LEMMA RemoveRecordingFileKeeps ==
  ASSUME FilesIInv, NEW e \in Erasers, RemoveRecordingFile(e) PROVE FilesIInv'
<1>1. PICK r : r = eraser[e].now OBVIOUS
<1>2. eraser[e].pc = "file" /\ r \in Recordings /\ recRow[r] = "gone"
      BY <1>1 DEF FilesIInv, ErasersOK, RemoveRecordingFile
<1>3. PICK f \in EraserRecord : f.pc \in {"idle", "next"} /\ eraser' = [eraser EXCEPT ![e] = f]
      BY VictimLeft DEF FilesIInv, RemoveRecordingFile
<1>4. UNCHANGED <<recRow, capturing, tmpAt, content, remux, restarts>> BY DEF RemoveRecordingFile
<1>5. recRow' = [recRow EXCEPT ![r] = "gone"] BY <1>2, <1>4 DEF FilesIInv, FilesTypeOK
<1>6. CASE mediaAt' = [mediaAt EXCEPT ![r] = NoFile] /\ excuse' = excuse
  <2>1. mediaAt'[r] = NoFile BY <1>2, <1>6 DEF FilesIInv, FilesTypeOK
  <2> QED BY <1>1, <1>2, <1>3, <1>4, <1>5, <1>6, <2>1, DeletionWorks
<1>7. CASE Excused(r, {"ioerror"}) /\ mediaAt' = mediaAt
  <2>1. excuse' = [excuse EXCEPT ![r] = excuse[r] \cup {"ioerror"}] BY <1>7 DEF Excused
  <2>2. "ioerror" \in excuse'[r] BY <1>2, <2>1 DEF FilesIInv, FilesTypeOK
  <2> QED BY <1>1, <1>2, <1>3, <1>4, <1>5, <1>7, <2>1, <2>2, DeletionWorks
<1> QED BY <1>1, <1>6, <1>7 DEF RemoveRecordingFile

\* A restart ends all remuxes and deletions; what was about to be removed is left behind.
LEMMA RestartKeeps == ASSUME FilesIInv, Restart PROVE FilesIInv'
<1> USE DEF FilesIInv
<1>1. /\ restarts' = restarts + 1 /\ capturing' = {}
      /\ recRow' = recRow /\ mediaAt' = mediaAt /\ tmpAt' = tmpAt /\ content' = content
      BY DEF Restart
<1>2. NoRemux \in RemuxRecord /\ NoRemux.pc = "idle" BY DEF NoRemux, RemuxRecord
<1>3. /\ remux' \in [Recordings -> Remuxes]
      /\ \A r \in Recordings : \A q \in Reasons : remux'[r][q] = NoRemux
      BY <1>2 DEF Restart, Remuxes
<1>4. NoEraser \in EraserRecord /\ NoEraser.pc = "idle" BY DEF NoEraser, EraserRecord
<1>5. eraser' \in [Erasers -> EraserRecord] /\ \A e \in Erasers : eraser'[e] = NoEraser BY <1>4 DEF Restart
<1>6. /\ excuse' \in [Recordings -> SUBSET Excuses]
      /\ \A r \in Recordings : excuse[r] \subseteq excuse'[r] /\ (Erased(r) => "crash" \in excuse'[r])
  <2>1. excuse \in [Recordings -> SUBSET Excuses] BY DEF FilesTypeOK
  <2>2. excuse' = [r \in Recordings |-> excuse[r] \cup (IF Erased(r) THEN {"crash"} ELSE {})] BY DEF Restart, Erased
  <2> QED BY <2>1, <2>2 DEF Excuses
<1>7. FilesTypeOK' BY <1>1, <1>3, <1>5, <1>6 DEF FilesTypeOK
<1>8. ErasersOK' BY <1>4, <1>5 DEF ErasersOK
<1>9. ASSUME NEW r \in Recordings PROVE ShapeOK(r)' /\ GoneOK(r)'
  <2>1. ShapeOK(r) /\ GoneOK(r) BY DEF FilesOK
  <2>2. "stop" \in Reasons BY DEF Reasons
  <2>3. ContentOK(r, capturing', content'[r], remux'[r])
        BY <1>1, <1>2, <1>3, <2>1, <2>2 DEF ShapeOK, Shape, ContentOK
  <2>4. restarts' > 0 BY <1>1 DEF FilesTypeOK
  <2>5. TmpOwned(r, capturing', tmpAt'[r], remux'[r], restarts') BY <1>1, <1>2, <1>3, <2>2, <2>4 DEF TmpOwned
  <2>6. KeptOK(r, recRow'[r], capturing', mediaAt'[r], tmpAt'[r], content'[r], remux'[r], excuse'[r])
        BY <1>1, <1>2, <1>3, <1>6, <2>1 DEF ShapeOK, Shape, KeptOK, Reasons, Busy
  <2>7. GoneOK(r)' BY <1>1, <1>6, <2>1 DEF GoneOK, LeftBehind
  <2> QED BY <2>3, <2>5, <2>6, <2>7 DEF ShapeOK, Shape
<1>10. FilesOK' BY <1>9 DEF FilesOK
<1> QED BY <1>7, <1>8, <1>10

\* A recording as it starts.
LEMMA FilesInitially == FilesInit => FilesIInv
<1> SUFFICES ASSUME FilesInit PROVE FilesIInv OBVIOUS
<1>1. NoRemux \in RemuxRecord /\ NoRemux.pc = "idle" BY DEF NoRemux, RemuxRecord
<1>2. NoEraser \in EraserRecord /\ NoEraser.pc = "idle" BY DEF NoEraser, EraserRecord
<1>3. /\ remux \in [Recordings -> Remuxes] /\ \A r \in Recordings : \A q \in Reasons : remux[r][q] = NoRemux
      BY <1>1 DEF FilesInit, Remuxes
<1>4. eraser \in [Erasers -> EraserRecord] /\ \A e \in Erasers : eraser[e] = NoEraser BY <1>2 DEF FilesInit
<1>5. PICK c : c = [i \in Reasons \cup {"capture"} |-> IF i = "capture" THEN "frag" ELSE "partial"] OBVIOUS
<1>6. c \in Contents /\ c["capture"] = "frag" /\ \A q \in Reasons : c[q] = "partial"
      BY <1>5 DEF Contents, Media, Reasons
<1>7. content = [r \in Recordings |-> c] BY <1>5 DEF FilesInit
<1>8. content \in [Recordings -> Contents] /\ \A r \in Recordings : content[r] = c BY <1>6, <1>7
<1>9. /\ recRow \in [Recordings -> {"live", "ended", "old", "gone"}] /\ mediaAt \in [Recordings -> Media \cup {NoFile}]
      /\ tmpAt \in [Recordings -> Reasons \cup {NoFile}] /\ restarts \in Nat /\ excuse \in [Recordings -> SUBSET Excuses]
      /\ \A r \in Recordings : recRow[r] = "live" /\ mediaAt[r] = "capture" /\ tmpAt[r] = NoFile
      BY DEF FilesInit, Media
<1>10. FilesTypeOK BY <1>3, <1>4, <1>8, <1>9 DEF FilesTypeOK
<1>11. ErasersOK BY <1>2, <1>4 DEF ErasersOK
<1>12. ASSUME NEW r \in Recordings PROVE ShapeOK(r) /\ GoneOK(r)
  <2>1. ContentOK(r, capturing, content[r], remux[r]) BY <1>1, <1>3, <1>6, <1>8 DEF ContentOK, Reasons
  <2>2. KeptOK(r, recRow[r], capturing, mediaAt[r], tmpAt[r], content[r], remux[r], excuse[r])
        BY <1>1, <1>3, <1>6, <1>8, <1>9 DEF KeptOK, Reasons, Busy, NoFile
  <2>3. TmpOwned(r, capturing, tmpAt[r], remux[r], restarts) BY <1>9 DEF TmpOwned
  <2> QED BY <1>9, <2>1, <2>2, <2>3 DEF ShapeOK, Shape, GoneOK
<1> QED BY <1>10, <1>11, <1>12 DEF FilesIInv, FilesOK

\* One step.
LEMMA FilesStep == FilesIInv /\ [FilesNext]_fileVars => FilesIInv'
<1> SUFFICES ASSUME FilesIInv, [FilesNext]_fileVars PROVE FilesIInv' OBVIOUS
<1>1. CASE UNCHANGED <<recRow, capturing, mediaAt, tmpAt, content, remux, eraser, restarts, excuse>>
      BY <1>1 DEF FilesIInv, FilesTypeOK, FilesOK, ShapeOK, GoneOK, Erased, ErasersOK
<1>2. CASE UNCHANGED fileVars BY <1>1, <1>2 DEF fileVars
<1>3. CASE BackfillLists BY <1>1, <1>3 DEF BackfillLists
<1>4. ASSUME NEW r \in Recordings, StopRecording(r) \/ Ages(r) \/ BackfillNext(r) PROVE FilesIInv'
      BY <1>4, StopRecordingKeeps, AgesKeeps, BackfillNextKeeps
<1>5. ASSUME NEW r \in Recordings, NEW q \in Reasons,
             \/ OpenMedia(r, q) \/ AcquireExport(r, q) \/ FfmpegStarts(r, q) \/ FfmpegEnds(r, q)
             \/ Verify(r, q) \/ SwapIn(r, q) \/ SwapAgain(r, q) \/ RemoveTmp(r, q)
      PROVE  FilesIInv'
      BY <1>5, OpenMediaKeeps, AcquireExportKeeps, FfmpegStartsKeeps, FfmpegEndsKeeps, VerifyKeeps, SwapInKeeps,
         SwapAgainKeeps, RemoveTmpKeeps
<1>6. ASSUME NEW r \in Recordings, NEW e \in Erasers, ReadForDelete(e, r) \/ NextVictim(e, r) PROVE FilesIInv'
      BY <1>6, ReadForDeleteKeeps, NextVictimKeeps
<1>7. ASSUME NEW e \in Erasers, ListVictims(e) \/ DeleteRecordingRow(e) \/ RemoveRecordingFile(e) PROVE FilesIInv'
      BY <1>7, ListVictimsKeeps, DeleteRecordingRowKeeps, RemoveRecordingFileKeeps
<1>8. CASE Restart BY <1>8, RestartKeeps
<1> QED BY <1>2, <1>3, <1>4, <1>5, <1>6, <1>7, <1>8 DEF FilesNext

\* What the invariant says of rows and files.
LEMMA FilesImplied == FilesIInv => RecordingFilesSound
<1> SUFFICES ASSUME FilesIInv PROVE RecordingFilesSound OBVIOUS
<1> USE DEF FilesIInv
<1>1. MediaKept
  <2> SUFFICES ASSUME NEW r \in Recordings, recRow[r] # "gone", "clash" \notin excuse[r], "refused" \notin excuse[r] PROVE Whole(r)
      BY DEF MediaKept
  <2>1. KeptOK(r, recRow[r], capturing, mediaAt[r], tmpAt[r], content[r], remux[r], excuse[r])
        BY DEF FilesOK, ShapeOK, Shape
  <2> QED BY <2>1 DEF KeptOK, Whole
<1>2. MediaGone
  <2> SUFFICES ASSUME NEW r \in Recordings, recRow[r] = "gone", \A e \in Erasers : eraser[e].now # r
               PROVE  mediaAt[r] = NoFile \/ excuse[r] \cap {"revived", "ioerror", "crash"} # {}
      BY DEF MediaGone
  <2>1. GoneOK(r) BY DEF FilesOK
  <2>2. ~Erased(r) BY DEF Erased
  <2>3. mediaAt[r] = NoFile \/ LeftBehind(excuse[r]) BY <2>1, <2>2 DEF GoneOK
  <2> QED BY <2>3 DEF LeftBehind
<1>3. TmpHasOwner
  <2> SUFFICES ASSUME NEW r \in Recordings, tmpAt[r] # NoFile, ~(restarts > 0) PROVE \E q \in Reasons : HoldsSlot(r, q)
      BY DEF TmpHasOwner
  <2>1. TmpOwned(r, capturing, tmpAt[r], remux[r], restarts) BY DEF FilesOK, ShapeOK, Shape
  <2>2. tmpAt[r] \in Reasons BY OneType
  <2>3. HoldsSlot(r, tmpAt[r]) BY <2>1 DEF TmpOwned, HoldsSlot, Busy
  <2> QED BY <2>2, <2>3
<1> QED BY <1>1, <1>2, <1>3 DEF RecordingFilesSound

\* Rows and media files agree, through remuxes, deletions and restarts, for any number of
\* recordings, deletions, export slots and restarts.
THEOREM FilesAndRowsAgree == FilesSpec => []RecordingFilesSound
<1>1. FilesInit => FilesIInv BY FilesInitially
<1>2. FilesIInv /\ [FilesNext]_fileVars => FilesIInv' BY FilesStep
<1>3. FilesIInv => RecordingFilesSound BY FilesImplied
<1> QED BY <1>1, <1>2, <1>3, PTL DEF FilesSpec

--------------------------------------------------------------------------------
(* Export jobs and their files (RecordingExports).                           *)

JobRecord == [pc : {"none", "asked", "acquire", "convert", "converted", "cleanup", "ended"},
              state : {"none", "queued", "running", "completed", "failed", "cancelled"},
              output : BOOLEAN, cancelled : BOOLEAN]
DeleterRecord == [pc : {"idle", "cancel", "state", "remove", "forget"}, jobs : SUBSET Jobs,
                  now : Jobs \cup {"none"}, forgets : BOOLEAN]

ExportTypeOK ==
  /\ job \in [Jobs -> JobRecord]
  /\ listed \subseteq Jobs
  /\ artifact \in [Jobs -> {"none", "released"}]
  /\ deleter \in [Deleters -> DeleterRecord]

\* Where a job is tells what it has: an output only past its conversion, and the state its
\* goroutine last wrote unless it was cancelled.
JobOK(r, file) ==
  /\ r.output = TRUE => r.pc \in {"cleanup", "ended"}
  /\ r.pc \in {"none", "asked"} => r.cancelled = FALSE
  /\ r.cancelled = FALSE => (r.pc = "acquire" => r.state = "queued") /\ (r.pc = "convert" => r.state = "running")
  /\ file = "released" => r.pc = "converted" \/ r.output = TRUE
JobsOK == \A j \in Jobs : JobOK(job[j], artifact[j])

\* A listed job was enqueued, and its file is there once it converted.
ListedOK == \A j \in listed :
  /\ job[j].pc \notin {"none", "asked"}
  /\ job[j].pc = "converted" \/ job[j].output = TRUE => artifact[j] = "released"

\* A job that will produce no file any more.
Doomed(r) == r.pc # "converted" /\ (r.pc \in {"acquire", "convert"} => r.cancelled = TRUE)

\* What a deletion knows of the jobs it has.
DeleterOK(f) ==
  /\ f.jobs # {} => f.pc \in {"cancel", "state", "remove"}
  /\ \A j \in f.jobs : job[j].pc \notin {"none", "asked"} /\ (f.forgets = TRUE => j \notin listed)
  /\ f.pc = "state" => f.forgets = FALSE /\ f.now \in Jobs /\ job[f.now].cancelled = TRUE
  /\ f.pc = "remove" => f.forgets = TRUE /\ f.now \in f.jobs /\ (f.now \in late \/ Doomed(job[f.now]))
  /\ f.pc = "forget" => f.forgets = TRUE
DeletersOK == \A d \in Deleters : DeleterOK(deleter[d])

\* A job that nothing lists and no deletion has: its file is gone and will not come back.
Forgetting(j) == \E d \in Deleters : j \in deleter[d].jobs /\ deleter[d].forgets = TRUE
Gone == \A j \in Jobs : job[j].pc \notin {"none", "asked"} /\ j \notin listed /\ ~Forgetting(j) /\ j \notin late =>
          Doomed(job[j]) /\ artifact[j] = "none"

\* Two jobs that are both active are one.
Active(j) == j \in listed /\ job[j].state \in InProgress /\ job[j].cancelled = FALSE
ActiveOne == \A i, j \in Jobs : Active(i) /\ Active(j) => i = j

ExportIInv == ExportTypeOK /\ JobsOK /\ ListedOK /\ DeletersOK /\ Gone /\ ActiveOne

\* What every step leaves true of a job: it goes on, stays cancelled, and does not produce a
\* file again; only an asked one is listed anew.
Onward ==
  /\ \A j \in Jobs : /\ job[j].pc \notin {"none", "asked"} => job'[j].pc \notin {"none", "asked"}
                     /\ job[j].cancelled = TRUE => job'[j].cancelled = TRUE
                     /\ job[j].pc \notin {"none", "asked"} /\ Doomed(job[j]) => Doomed(job'[j])
  /\ late \subseteq late'
  /\ \A j \in listed' : j \in listed \/ job[j].pc = "asked"

\* A deletion that does not move knows what it knew.
LEMMA DeleterStays ==
  ASSUME Onward, NEW g \in DeleterRecord, DeleterOK(g)
  PROVE  DeleterOK(g)'
<1>1. g.jobs \subseteq Jobs BY DEF DeleterRecord
<1>2. \A j \in g.jobs : job'[j].pc \notin {"none", "asked"} /\ (g.forgets = TRUE => j \notin listed')
      BY <1>1 DEF DeleterOK, Onward
<1>3. g.pc = "state" => job'[g.now].cancelled = TRUE BY DEF DeleterOK, Onward
<1>4. g.pc = "remove" => g.now \in late' \/ Doomed(job'[g.now]) BY <1>1 DEF DeleterOK, Onward
<1> QED BY <1>2, <1>3, <1>4 DEF DeleterOK, Doomed

\* One deletion moves.
LEMMA DeletersMove ==
  ASSUME ExportTypeOK, DeletersOK, Onward, NEW d \in Deleters, NEW g \in DeleterRecord,
         deleter' = [deleter EXCEPT ![d] = g], DeleterOK(g)'
  PROVE  /\ deleter' \in [Deleters -> DeleterRecord] /\ deleter'[d] = g
         /\ \A x \in Deleters \ {d} : deleter'[x] = deleter[x]
         /\ DeletersOK'
<1>1. deleter \in [Deleters -> DeleterRecord] BY DEF ExportTypeOK
<1>2. /\ deleter' \in [Deleters -> DeleterRecord] /\ deleter'[d] = g
      /\ \A x \in Deleters \ {d} : deleter'[x] = deleter[x]
      BY <1>1
<1>3. ASSUME NEW x \in Deleters PROVE DeleterOK(deleter[x])'
  <2>1. CASE x = d
    <3>1. PICK h : h = deleter'[x] OBVIOUS
    <3>2. h = g BY <1>2, <2>1, <3>1
    <3>3. DeleterOK(h)' BY <3>2
    <3> QED BY <3>1, <3>3 DEF DeleterOK
  <2>2. CASE x # d
    <3>1. PICK h : h = deleter[x] OBVIOUS
    <3>2. h \in DeleterRecord /\ DeleterOK(h) BY <1>1, <3>1 DEF DeletersOK
    <3>3. DeleterOK(h)' BY <3>2, DeleterStays
    <3>4. deleter'[x] = h BY <1>2, <2>2, <3>1
    <3> QED BY <3>3, <3>4 DEF DeleterOK
  <2> QED BY <2>1, <2>2
<1>4. DeletersOK' BY <1>3 DEF DeletersOK
<1> QED BY <1>2, <1>4

\* None moves.
LEMMA DeletersStay ==
  ASSUME ExportTypeOK, DeletersOK, Onward, deleter' = deleter
  PROVE  DeletersOK' /\ \A j : Forgetting(j)' <=> Forgetting(j)
<1>1. ASSUME NEW x \in Deleters PROVE DeleterOK(deleter[x])'
  <2>1. PICK h : h = deleter[x] OBVIOUS
  <2>2. h \in DeleterRecord /\ DeleterOK(h) BY <2>1 DEF DeletersOK, ExportTypeOK
  <2>3. DeleterOK(h)' BY <2>2, DeleterStays
  <2> QED BY <2>1, <2>3 DEF DeleterOK
<1>2. DeletersOK' BY <1>1 DEF DeletersOK
<1> QED BY <1>2 DEF Forgetting

\* One job moves to f and its file to a; what is listed stays, and no deletion lets go of a job.
LEMMA JobWritten ==
  ASSUME ExportIInv, NEW j \in Jobs, NEW f \in JobRecord, NEW a \in {"none", "released"},
         job' = [job EXCEPT ![j] = f], artifact' = [artifact EXCEPT ![j] = a], JobOK(f, a),
         listed' = listed, late \subseteq late', deleter' \in [Deleters -> DeleterRecord], DeletersOK',
         \A i \in Jobs : Forgetting(i) => Forgetting(i)',
         job[j].pc \notin {"none", "asked"} <=> f.pc \notin {"none", "asked"},
         f.pc = "converted" \/ f.output = TRUE => a = "released" \/ j \notin listed,
         Doomed(job[j]) => Doomed(f) /\ a = artifact[j],
         f.state \in InProgress /\ f.cancelled = FALSE =>
           f.pc = "asked" \/ (job[j].state \in InProgress /\ job[j].cancelled = FALSE)
  PROVE  ExportIInv'
<1> USE DEF ExportIInv
<1>0. job \in [Jobs -> JobRecord] /\ artifact \in [Jobs -> {"none", "released"}] /\ listed \subseteq Jobs BY DEF ExportTypeOK
<1>1. job' \in [Jobs -> JobRecord] /\ job'[j] = f /\ \A i \in Jobs \ {j} : job'[i] = job[i] BY <1>0
<1>2. artifact' \in [Jobs -> {"none", "released"}] /\ artifact'[j] = a /\ \A i \in Jobs \ {j} : artifact'[i] = artifact[i]
      BY <1>0
<1>5. ExportTypeOK' BY <1>1, <1>2 DEF ExportTypeOK
<1>6. JobsOK'
  <2> SUFFICES ASSUME NEW i \in Jobs PROVE JobOK(job'[i], artifact'[i])
      BY DEF JobsOK, JobOK
  <2>1. CASE i = j BY <1>1, <1>2, <2>1
  <2>2. CASE i # j BY <1>1, <1>2, <2>2 DEF JobsOK
  <2> QED BY <2>1, <2>2
<1>7. ListedOK'
  <2> SUFFICES ASSUME NEW i \in listed
               PROVE  /\ job'[i].pc \notin {"none", "asked"}
                      /\ job'[i].pc = "converted" \/ job'[i].output = TRUE => artifact'[i] = "released"
      BY DEF ListedOK
  <2>1. CASE i = j BY <1>1, <1>2, <2>1 DEF ListedOK
  <2>2. CASE i # j BY <1>0, <1>1, <1>2, <2>2 DEF ListedOK
  <2> QED BY <2>1, <2>2
<1>8. Gone'
  <2> SUFFICES ASSUME NEW i \in Jobs, job'[i].pc \notin {"none", "asked"}, i \notin listed, ~Forgetting(i), i \notin late
               PROVE  Doomed(job'[i]) /\ artifact'[i] = "none"
      BY DEF Gone, Doomed
  <2>1. CASE i = j BY <1>1, <1>2, <2>1 DEF Gone
  <2>2. CASE i # j BY <1>1, <1>2, <2>2 DEF Gone
  <2> QED BY <2>1, <2>2
<1>9. ActiveOne'
  <2>1. ASSUME NEW i \in Jobs, Active(i)' PROVE Active(i)
    <3>1. CASE i = j BY <1>1, <2>1, <3>1 DEF Active, ListedOK
    <3>2. CASE i # j BY <1>1, <2>1, <3>2 DEF Active
    <3> QED BY <3>1, <3>2
  <2> QED BY <2>1 DEF ActiveOne
<1> QED BY <1>5, <1>6, <1>7, <1>8, <1>9

\* The same, no deletion moving.
LEMMA JobMoves ==
  ASSUME ExportIInv, NEW j \in Jobs, NEW f \in JobRecord, NEW a \in {"none", "released"},
         job' = [job EXCEPT ![j] = f], artifact' = [artifact EXCEPT ![j] = a], JobOK(f, a),
         UNCHANGED <<listed, deleter, late>>,
         job[j].pc \notin {"none", "asked"} <=> f.pc \notin {"none", "asked"},
         f.pc = "converted" \/ f.output = TRUE => a = "released" \/ j \notin listed,
         job[j].cancelled = TRUE => f.cancelled = TRUE,
         Doomed(job[j]) => Doomed(f) /\ a = artifact[j],
         f.state \in InProgress /\ f.cancelled = FALSE =>
           f.pc = "asked" \/ (job[j].state \in InProgress /\ job[j].cancelled = FALSE)
  PROVE  ExportIInv'
<1>0. ExportTypeOK /\ DeletersOK /\ job \in [Jobs -> JobRecord] BY DEF ExportIInv, ExportTypeOK
<1>1. job'[j] = f /\ \A i \in Jobs \ {j} : job'[i] = job[i] BY <1>0
<1>2. Onward BY <1>1 DEF Onward
<1>3. DeletersOK' /\ \A i : Forgetting(i)' <=> Forgetting(i) BY <1>0, <1>2, DeletersStay
<1>4. deleter' \in [Deleters -> DeleterRecord] BY <1>0 DEF ExportTypeOK
<1>5. \A i \in Jobs : Forgetting(i) => Forgetting(i)' BY <1>3
<1> QED BY <1>3, <1>4, <1>5, JobWritten

\* The same, the files staying as they are.
LEMMA JobGoesOn ==
  ASSUME ExportIInv, NEW j \in Jobs, NEW f \in JobRecord,
         job' = [job EXCEPT ![j] = f], artifact' = artifact, JobOK(f, artifact[j]),
         UNCHANGED <<listed, deleter, late>>,
         job[j].pc \notin {"none", "asked"} <=> f.pc \notin {"none", "asked"},
         f.pc = "converted" \/ f.output = TRUE => artifact[j] = "released" \/ j \notin listed,
         job[j].cancelled = TRUE => f.cancelled = TRUE,
         Doomed(job[j]) => Doomed(f),
         f.state \in InProgress /\ f.cancelled = FALSE =>
           f.pc = "asked" \/ (job[j].state \in InProgress /\ job[j].cancelled = FALSE)
  PROVE  ExportIInv'
<1>1. artifact \in [Jobs -> {"none", "released"}] BY DEF ExportIInv, ExportTypeOK
<1>2. PICK a \in {"none", "released"} : a = artifact[j] BY <1>1
<1>3. artifact' = [artifact EXCEPT ![j] = a] BY <1>1, <1>2
<1>4. JobOK(f, a) /\ (Doomed(job[j]) => Doomed(f) /\ a = artifact[j]) BY <1>2
<1>5. f.pc = "converted" \/ f.output = TRUE => a = "released" \/ j \notin listed BY <1>2
<1> QED BY <1>3, <1>4, <1>5, JobMoves

\* Nothing is asked for at first.
LEMMA ExportStart == ExportInit => ExportIInv
<1> SUFFICES ASSUME ExportInit PROVE ExportIInv
    OBVIOUS
<1>1. NoJob \in JobRecord /\ NoJob.pc = "none" /\ NoJob.output = FALSE /\ NoJob.cancelled = FALSE BY DEF NoJob, JobRecord
<1>2. NoDeleter \in DeleterRecord /\ NoDeleter.jobs = {} /\ NoDeleter.pc = "idle" BY DEF NoDeleter, DeleterRecord
<1>3. job \in [Jobs -> JobRecord] /\ \A j \in Jobs : job[j] = NoJob BY <1>1 DEF ExportInit
<1>4. deleter \in [Deleters -> DeleterRecord] /\ \A d \in Deleters : deleter[d] = NoDeleter BY <1>2 DEF ExportInit
<1>5. artifact \in [Jobs -> {"none", "released"}] /\ \A j \in Jobs : artifact[j] = "none" BY DEF ExportInit
<1>6. listed = {} BY DEF ExportInit
<1>7. ExportTypeOK BY <1>3, <1>4, <1>5, <1>6 DEF ExportTypeOK
<1>8. JobsOK BY <1>1, <1>3, <1>5 DEF JobsOK, JobOK
<1>9. DeletersOK BY <1>2, <1>4 DEF DeletersOK, DeleterOK
<1>10. ListedOK /\ ActiveOne BY <1>6 DEF ListedOK, ActiveOne, Active
<1>11. Gone BY <1>1, <1>3 DEF Gone
<1> QED BY <1>7, <1>8, <1>9, <1>10, <1>11 DEF ExportIInv

\* The goroutine of a job, and the sweep of one that hangs.
LEMMA JobStepsKeep ==
  ASSUME ExportIInv, NEW j \in Jobs,
         \/ AskExport(j) \/ JobAcquired(j) \/ JobNotAcquired(j)
         \/ Converted(j) \/ ConversionFails(j) \/ FinishJob(j) \/ Cleanup(j)
         \/ \E d \in Deleters : SweepStale(d, j)
  PROVE  ExportIInv'
<1> USE DEF ExportIInv
<1>0. /\ job \in [Jobs -> JobRecord] /\ job[j] \in JobRecord /\ artifact \in [Jobs -> {"none", "released"}]
      /\ artifact[j] \in {"none", "released"} /\ job[j].cancelled \in BOOLEAN /\ job[j].output \in BOOLEAN
      /\ JobOK(job[j], artifact[j])
      BY DEF ExportTypeOK, JobRecord, JobsOK
<1>1. UNCHANGED <<listed, deleter, late>>
      BY DEF AskExport, JobAcquired, JobNotAcquired, Converted, ConversionFails, FinishJob, Cleanup, SweepStale
<1>3. CASE AskExport(j)
  <2>1. PICK f : f = [job[j] EXCEPT !.pc = "asked"] OBVIOUS
  <2>2. job[j] = NoJob /\ job' = [job EXCEPT ![j] = f] /\ artifact' = artifact BY <1>0, <1>3, <2>1 DEF AskExport
  <2>3. /\ f \in JobRecord /\ f.pc = "asked" /\ f.state = job[j].state /\ f.output = job[j].output
        /\ f.cancelled = job[j].cancelled
        BY <1>0, <2>1 DEF JobRecord
  <2>4. job[j].pc = "none" /\ job[j].state = "none" /\ job[j].output = FALSE /\ job[j].cancelled = FALSE
        BY <2>2 DEF NoJob
  <2>5. f.state = "none" /\ f.output = FALSE /\ f.cancelled = FALSE BY <2>3, <2>4
  <2>6. JobOK(f, artifact[j]) /\ Doomed(f) BY <1>0, <2>3, <2>4, <2>5 DEF JobOK, Doomed
  <2>7. f.state \notin InProgress BY <2>5 DEF InProgress
  <2> QED BY <1>1, <2>2, <2>3, <2>4, <2>5, <2>6, <2>7, JobGoesOn
<1>4. CASE JobAcquired(j)
  <2>1. PICK f : f = [job[j] EXCEPT !.pc = "convert", !.state = "running"] OBVIOUS
  <2>2. job[j].pc = "acquire" /\ job' = [job EXCEPT ![j] = f] /\ artifact' = artifact
        BY <1>0, <1>4, <2>1 DEF JobAcquired, Field
  <2>3. /\ f \in JobRecord /\ f.pc = "convert" /\ f.state = "running" /\ f.output = job[j].output
        /\ f.cancelled = job[j].cancelled
        BY <1>0, <2>1 DEF JobRecord
  <2>4. JobOK(f, artifact[j]) /\ (Doomed(job[j]) => Doomed(f)) BY <1>0, <2>2, <2>3 DEF JobOK, Doomed
  <2>5. f.cancelled = FALSE => job[j].state \in InProgress BY <1>0, <2>2, <2>3 DEF JobOK, InProgress
  <2>6. f.output # TRUE BY <1>0, <2>2, <2>3 DEF JobOK
  <2> QED BY <1>1, <2>2, <2>3, <2>4, <2>5, <2>6, JobGoesOn
<1>5. ASSUME NEW f, f = [job[j] EXCEPT !.pc = "ended", !.state = IF job[j].cancelled THEN "cancelled" ELSE "failed"],
             job' = [job EXCEPT ![j] = f], artifact' = artifact, job[j].pc \in {"acquire", "convert"}
      PROVE  ExportIInv'
  <2>3. /\ f \in JobRecord /\ f.pc = "ended" /\ f.state \in {"cancelled", "failed"} /\ f.output = job[j].output
        /\ f.cancelled = job[j].cancelled
        BY <1>0, <1>5 DEF JobRecord
  <2>4. JobOK(f, artifact[j]) /\ Doomed(f) BY <1>0, <1>5, <2>3 DEF JobOK, Doomed
  <2>5. f.output # TRUE /\ f.state \notin InProgress BY <1>0, <1>5, <2>3 DEF JobOK, InProgress
  <2> QED BY <1>1, <1>5, <2>3, <2>4, <2>5, JobGoesOn
<1>6. CASE JobNotAcquired(j) BY <1>0, <1>5, <1>6 DEF JobNotAcquired, Field
<1>7. CASE ConversionFails(j) BY <1>0, <1>5, <1>7 DEF ConversionFails, Field
<1>8. CASE Converted(j)
  <2>1. PICK f : f = [job[j] EXCEPT !.pc = "converted"] OBVIOUS
  <2>2. /\ job[j].pc = "convert" /\ job[j].cancelled = FALSE /\ job' = [job EXCEPT ![j] = f]
        /\ artifact' = [artifact EXCEPT ![j] = "released"]
        BY <1>0, <1>8, <2>1 DEF Converted
  <2>3. /\ f \in JobRecord /\ f.pc = "converted" /\ f.state = job[j].state /\ f.output = job[j].output
        /\ f.cancelled = FALSE
        BY <1>0, <2>1, <2>2 DEF JobRecord
  <2>4. JobOK(f, "released") /\ ~Doomed(job[j]) BY <1>0, <2>2, <2>3 DEF JobOK, Doomed
  <2> QED BY <1>0, <1>1, <2>2, <2>3, <2>4, JobMoves
<1>9. CASE FinishJob(j)
  <2>1. PICK f : f = [job[j] EXCEPT !.pc = "cleanup", !.state = "completed", !.output = TRUE] OBVIOUS
  <2>2. job[j].pc = "converted" /\ job' = [job EXCEPT ![j] = f] /\ artifact' = artifact BY <1>0, <1>9, <2>1 DEF FinishJob
  <2>3. /\ f \in JobRecord /\ f.pc = "cleanup" /\ f.state = "completed" /\ f.output = TRUE
        /\ f.cancelled = job[j].cancelled
        BY <1>0, <2>1 DEF JobRecord
  <2>4. JobOK(f, artifact[j]) /\ ~Doomed(job[j]) BY <1>0, <2>2, <2>3 DEF JobOK, Doomed
  <2>5. j \in listed => artifact[j] = "released" BY <2>2 DEF ListedOK
  <2>6. f.state \notin InProgress BY <2>3 DEF InProgress
  <2> QED BY <1>1, <2>2, <2>3, <2>4, <2>5, <2>6, JobGoesOn
<1>10. CASE Cleanup(j)
  <2>1. PICK f : f = [job[j] EXCEPT !.pc = "ended"] OBVIOUS
  <2>2. job[j].pc = "cleanup" /\ job' = [job EXCEPT ![j] = f] /\ artifact' = artifact BY <1>0, <1>10, <2>1 DEF Cleanup
  <2>3. /\ f \in JobRecord /\ f.pc = "ended" /\ f.state = job[j].state /\ f.output = job[j].output
        /\ f.cancelled = job[j].cancelled
        BY <1>0, <2>1 DEF JobRecord
  <2>4. JobOK(f, artifact[j]) /\ Doomed(f) BY <1>0, <2>2, <2>3 DEF JobOK, Doomed
  <2>5. j \in listed /\ f.output = TRUE => artifact[j] = "released" BY <2>3 DEF ListedOK
  <2> QED BY <1>1, <2>2, <2>3, <2>4, <2>5, JobGoesOn
<1>11. ASSUME NEW d \in Deleters, SweepStale(d, j) PROVE ExportIInv'
  <2>1. PICK f : f = [job[j] EXCEPT !.cancelled = TRUE, !.state = "failed"] OBVIOUS
  <2>2. j \in listed /\ job' = [job EXCEPT ![j] = f] /\ artifact' = artifact BY <1>0, <1>11, <2>1 DEF SweepStale
  <2>3. /\ f \in JobRecord /\ f.pc = job[j].pc /\ f.state = "failed" /\ f.output = job[j].output
        /\ f.cancelled = TRUE
        BY <1>0, <2>1 DEF JobRecord
  <2>4. f.pc \notin {"none", "asked"} BY <2>2, <2>3 DEF ListedOK
  <2>5. JobOK(f, artifact[j]) /\ (Doomed(job[j]) => Doomed(f)) BY <1>0, <2>3, <2>4 DEF JobOK, Doomed
  <2>6. f.pc = "converted" \/ f.output = TRUE => artifact[j] = "released" BY <2>2, <2>3 DEF ListedOK
  <2> QED BY <1>1, <2>2, <2>3, <2>4, <2>5, <2>6, JobGoesOn
<1> QED BY <1>3, <1>4, <1>6, <1>7, <1>8, <1>9, <1>10, <1>11

\* A step on the registry, the files and the deletions: jobs leave the registry, files go, and
\* a job that nobody holds any more will produce no file and has none.
LEMMA RegistryMoves ==
  ASSUME ExportIInv, job' = job, artifact' \in [Jobs -> {"none", "released"}],
         \A i \in Jobs : artifact'[i] \in {artifact[i], "none"},
         listed' \subseteq listed, late \subseteq late', \A i \in listed' : artifact'[i] = artifact[i],
         deleter' \in [Deleters -> DeleterRecord], DeletersOK',
         \A i \in Jobs : (i \in listed \/ Forgetting(i)) /\ i \notin listed' /\ ~Forgetting(i)' /\ i \notin late' =>
           Doomed(job[i]) /\ artifact'[i] = "none"
  PROVE  ExportIInv'
<1> USE DEF ExportIInv
<1>1. ExportTypeOK' BY DEF ExportTypeOK
<1>2. JobsOK' 
  <2> SUFFICES ASSUME NEW i \in Jobs PROVE JobOK(job[i], artifact'[i])
      BY DEF JobsOK, JobOK
  <2>1. JobOK(job[i], artifact[i]) BY DEF JobsOK
  <2>2. artifact'[i] = artifact[i] \/ artifact'[i] = "none" OBVIOUS
  <2> QED BY <2>1, <2>2 DEF JobOK
<1>3. ListedOK' BY DEF ListedOK
<1>4. Gone'
  <2> SUFFICES ASSUME NEW i \in Jobs, job[i].pc \notin {"none", "asked"}, i \notin listed', ~Forgetting(i)', i \notin late'
               PROVE  Doomed(job[i]) /\ artifact'[i] = "none"
      BY DEF Gone, Doomed
  <2>1. CASE i \in listed \/ Forgetting(i) BY <2>1
  <2>2. CASE ~(i \in listed \/ Forgetting(i))
    <3>1. i \notin late OBVIOUS
    <3>2. Doomed(job[i]) /\ artifact[i] = "none" BY <2>2, <3>1 DEF Gone
    <3> QED BY <3>2
  <2> QED BY <2>1, <2>2
<1>5. ActiveOne' BY DEF ActiveOne, Active
<1> QED BY <1>1, <1>2, <1>3, <1>4, <1>5

\* A job that is asked for takes its place, when no other is active, or goes.
LEMMA EnqueueKeeps ==
  ASSUME ExportIInv, NEW j \in Jobs, Enqueue(j)
  PROVE  ExportIInv'
<1>0. /\ job \in [Jobs -> JobRecord] /\ job[j] \in JobRecord /\ artifact \in [Jobs -> {"none", "released"}]
      /\ artifact[j] \in {"none", "released"} /\ job[j].cancelled \in BOOLEAN /\ job[j].output \in BOOLEAN
      /\ JobOK(job[j], artifact[j]) /\ ExportTypeOK /\ DeletersOK /\ listed \subseteq Jobs
      BY DEF ExportIInv, ExportTypeOK, JobRecord, JobsOK
<1>1. job[j].pc = "asked" /\ UNCHANGED <<artifact, deleter, late>> BY DEF Enqueue
<1>2. job[j].cancelled = FALSE /\ job[j].output = FALSE /\ artifact[j] = "none" /\ j \notin listed
      BY <1>0, <1>1 DEF JobOK, ExportIInv, ListedOK
<1>3. CASE FindActive # {}
  <2>1. PICK f : f = NoJob OBVIOUS
  <2>2. f.pc = "none" /\ f.state = "none" /\ f.output = FALSE /\ f.cancelled = FALSE /\ f \in JobRecord
        BY <2>1 DEF NoJob, JobRecord
  <2>3. job' = [job EXCEPT ![j] = f] /\ listed' = listed BY <1>3, <2>1 DEF Enqueue
  <2>4. JobOK(f, artifact[j]) /\ Doomed(f) BY <1>2, <2>2 DEF JobOK, Doomed
  <2>5. f.state \notin InProgress BY <2>2 DEF InProgress
  <2> QED BY <1>1, <1>2, <2>2, <2>3, <2>4, <2>5, JobGoesOn
<1>4. CASE FindActive = {}
  <2>1. PICK f : f = [job[j] EXCEPT !.pc = "acquire", !.state = "queued"] OBVIOUS
  <2>2. /\ f \in JobRecord /\ f.pc = "acquire" /\ f.state = "queued" /\ f.output = FALSE /\ f.cancelled = FALSE
        BY <1>0, <1>2, <2>1 DEF JobRecord
  <2>3. job' = [job EXCEPT ![j] = f] /\ listed' = listed \cup {j} BY <1>0, <1>4, <2>1 DEF Enqueue, Field
  <2>4. job' \in [Jobs -> JobRecord] /\ job'[j] = f /\ \A i \in Jobs \ {j} : job'[i] = job[i] BY <1>0, <2>2, <2>3
  <2>5. JobOK(f, artifact[j]) /\ ~Doomed(f) BY <1>2, <2>2 DEF JobOK, Doomed
  <2>6. Onward
    <3>1. \A i \in Jobs : /\ job[i].pc \notin {"none", "asked"} => job'[i].pc \notin {"none", "asked"}
                          /\ job[i].cancelled = TRUE => job'[i].cancelled = TRUE
          BY <1>1, <1>2, <2>4
    <3>2. \A i \in Jobs : job[i].pc \notin {"none", "asked"} /\ Doomed(job[i]) => Doomed(job'[i])
          BY <1>1, <2>4
    <3>3. late \subseteq late' /\ \A i \in listed' : i \in listed \/ job[i].pc = "asked" BY <1>1, <2>3
    <3> QED BY <3>1, <3>2, <3>3 DEF Onward
  <2>7. DeletersOK' /\ \A i : Forgetting(i)' <=> Forgetting(i) BY <1>0, <1>1, <2>6, DeletersStay
  <2>8. ExportTypeOK' BY <1>0, <1>1, <2>3, <2>4 DEF ExportTypeOK
  <2>9. JobsOK'
    <3> SUFFICES ASSUME NEW i \in Jobs PROVE JobOK(job'[i], artifact[i])
        BY <1>1 DEF JobsOK, JobOK
    <3>1. CASE i = j BY <2>4, <2>5, <3>1
    <3>2. CASE i # j BY <2>4, <3>2 DEF JobsOK, ExportIInv
    <3> QED BY <3>1, <3>2
  <2>10. ListedOK'
    <3> SUFFICES ASSUME NEW i \in listed'
                 PROVE  /\ job'[i].pc \notin {"none", "asked"}
                        /\ job'[i].pc = "converted" \/ job'[i].output = TRUE => artifact[i] = "released"
        BY <1>1 DEF ListedOK
    <3>1. CASE i = j BY <2>2, <2>4, <3>1
    <3>2. CASE i # j
      <4>1. i \in listed /\ job'[i] = job[i] BY <1>0, <2>3, <2>4, <3>2
      <4> QED BY <4>1 DEF ListedOK, ExportIInv
    <3> QED BY <3>1, <3>2
  <2>11. Gone'
    <3> SUFFICES ASSUME NEW i \in Jobs, job'[i].pc \notin {"none", "asked"}, i \notin listed', ~Forgetting(i), i \notin late
                 PROVE  Doomed(job'[i]) /\ artifact[i] = "none"
        BY <1>1, <2>7 DEF Gone, Doomed
    <3>1. i # j /\ i \notin listed /\ job'[i] = job[i] BY <2>3, <2>4
    <3> QED BY <3>1 DEF Gone, ExportIInv
  <2>12. ActiveOne'
    <3>1. ASSUME NEW i \in Jobs, Active(i)' PROVE i = j
      <4>1. SUFFICES ASSUME i # j PROVE FALSE OBVIOUS
      <4>2. i \in listed /\ job[i].state \in InProgress BY <2>3, <2>4, <3>1, <4>1 DEF Active
      <4> QED BY <1>4, <4>2 DEF FindActive
    <3> QED BY <3>1 DEF ActiveOne
  <2> QED BY <2>7, <2>8, <2>9, <2>10, <2>11, <2>12 DEF ExportIInv
<1> QED BY <1>3, <1>4

\* A deletion that moves without touching the jobs and lets go of none it was to forget.
LEMMA DeleterSteps ==
  ASSUME ExportIInv, NEW d \in Deleters, NEW g \in DeleterRecord, deleter' = [deleter EXCEPT ![d] = g],
         UNCHANGED <<job, listed, artifact, late>>, DeleterOK(g),
         \A i \in deleter[d].jobs : deleter[d].forgets = FALSE
  PROVE  ExportIInv'
<1>0. /\ ExportTypeOK /\ DeletersOK /\ artifact \in [Jobs -> {"none", "released"}] /\ listed \subseteq Jobs
      /\ deleter \in [Deleters -> DeleterRecord]
      BY DEF ExportIInv, ExportTypeOK
<1>1. Onward BY DEF Onward, Doomed
<1>2. DeleterOK(g)' BY DEF DeleterOK, Doomed
<1>3. /\ deleter' \in [Deleters -> DeleterRecord] /\ deleter'[d] = g
      /\ \A x \in Deleters \ {d} : deleter'[x] = deleter[x]
      /\ DeletersOK'
      BY <1>0, <1>1, <1>2, DeletersMove
<1>4. ASSUME NEW i \in Jobs, Forgetting(i) PROVE Forgetting(i)'
  <2>1. PICK x \in Deleters : i \in deleter[x].jobs /\ deleter[x].forgets = TRUE BY <1>4 DEF Forgetting
  <2>2. x # d BY <2>1
  <2> QED BY <1>3, <2>1, <2>2 DEF Forgetting
<1> QED BY <1>0, <1>3, <1>4, RegistryMoves

\* The DELETE of an active job, of the recording's row, and the end of a deletion.
LEMMA DeleterStepsKeep ==
  ASSUME ExportIInv, NEW d \in Deleters,
         (\E j \in Jobs : DeleteActive(d, j)) \/ DeleteRow(d) \/ DeleterDone(d)
  PROVE  ExportIInv'
<1>0. listed \subseteq Jobs /\ deleter[d] \in DeleterRecord /\ DeleterOK(deleter[d])
      BY DEF ExportIInv, ExportTypeOK, DeletersOK
<1>1. NoDeleter \in DeleterRecord /\ NoDeleter.jobs = {} /\ NoDeleter.pc = "idle" BY DEF NoDeleter, DeleterRecord
<1>2. ASSUME NEW j \in Jobs, DeleteActive(d, j) PROVE ExportIInv'
  <2>1. PICK g : g = [pc |-> "cancel", jobs |-> {j}, now |-> j, forgets |-> FALSE] OBVIOUS
  <2>2. g \in DeleterRecord /\ g.pc = "cancel" /\ g.jobs = {j} /\ g.now = j /\ g.forgets = FALSE
        BY <2>1 DEF DeleterRecord
  <2>3. /\ deleter' = [deleter EXCEPT ![d] = g] /\ UNCHANGED <<job, listed, artifact, late>>
        /\ j \in listed /\ deleter[d].jobs = {}
        BY <1>1, <1>2, <2>1 DEF DeleteActive
  <2>4. job[j].pc \notin {"none", "asked"} BY <2>3 DEF ExportIInv, ListedOK
  <2>5. DeleterOK(g) BY <2>2, <2>4 DEF DeleterOK
  <2> QED BY <2>2, <2>3, <2>5, DeleterSteps
<1>3. CASE DeleteRow(d)
  <2>1. PICK g : g = [pc |-> "forget", jobs |-> {}, now |-> "none", forgets |-> TRUE] OBVIOUS
  <2>2. g \in DeleterRecord /\ g.pc = "forget" /\ g.jobs = {} /\ g.forgets = TRUE
        BY <2>1 DEF DeleterRecord
  <2>3. /\ deleter' = [deleter EXCEPT ![d] = g] /\ UNCHANGED <<job, listed, artifact, late>>
        /\ deleter[d].jobs = {}
        BY <1>1, <1>3, <2>1 DEF DeleteRow
  <2>5. DeleterOK(g) BY <2>2 DEF DeleterOK
  <2> QED BY <2>2, <2>3, <2>5, DeleterSteps
<1>4. CASE DeleterDone(d)
  <2>1. PICK g : g = NoDeleter OBVIOUS
  <2>2. g \in DeleterRecord /\ DeleterOK(g) BY <1>1, <2>1 DEF DeleterOK
  <2>3. /\ deleter' = [deleter EXCEPT ![d] = g] /\ UNCHANGED <<job, listed, artifact, late>>
        /\ deleter[d].jobs = {}
        BY <1>4, <2>1 DEF DeleterDone
  <2> QED BY <2>2, <2>3, DeleterSteps
<1> QED BY <1>2, <1>3, <1>4

\* A finished job leaves the registry, and its file is to go.
LEMMA DeleteFinishedKeeps ==
  ASSUME ExportIInv, NEW d \in Deleters, NEW j \in Jobs, DeleteFinished(d, j)
  PROVE  ExportIInv'
<1>0. /\ ExportTypeOK /\ DeletersOK /\ artifact \in [Jobs -> {"none", "released"}] /\ listed \subseteq Jobs
      /\ JobOK(job[j], artifact[j]) /\ job[j].cancelled \in BOOLEAN /\ job[j] \in JobRecord
      BY DEF ExportIInv, ExportTypeOK, JobsOK, JobRecord
<1>1. NoDeleter.jobs = {} BY DEF NoDeleter
<1>2. PICK g : g = [pc |-> "remove", jobs |-> {j}, now |-> j, forgets |-> TRUE] OBVIOUS
<1>3. g \in DeleterRecord /\ g.pc = "remove" /\ g.jobs = {j} /\ g.now = j /\ g.forgets = TRUE
      BY <1>2 DEF DeleterRecord
<1>4. /\ deleter' = [deleter EXCEPT ![d] = g] /\ job' = job /\ artifact' = artifact
      /\ j \in listed /\ listed' = listed \ {j} /\ late \subseteq late' /\ deleter[d].jobs = {}
      /\ job[j].pc = "converted" => j \in late'
      BY <1>1, <1>2 DEF DeleteFinished
<1>5. job[j].pc \notin {"none", "asked"} BY <1>4 DEF ExportIInv, ListedOK
<1>6. j \in late' \/ Doomed(job[j])
  <2>1. job[j].state \notin InProgress BY DEF DeleteFinished
  <2>2. job[j].pc \in {"acquire", "convert"} => job[j].cancelled = TRUE BY <1>0, <2>1 DEF JobOK, InProgress
  <2> QED BY <1>4, <2>2 DEF Doomed
<1>7. Onward BY <1>4 DEF Onward, Doomed
<1>8. DeleterOK(g)' BY <1>3, <1>4, <1>5, <1>6 DEF DeleterOK, Doomed
<1>9. /\ deleter' \in [Deleters -> DeleterRecord] /\ deleter'[d] = g
      /\ \A x \in Deleters \ {d} : deleter'[x] = deleter[x]
      /\ DeletersOK'
      BY <1>0, <1>3, <1>4, <1>7, <1>8, DeletersMove
<1>10. ASSUME NEW i \in Jobs, Forgetting(i) \/ i = j PROVE Forgetting(i)'
  <2>1. CASE i = j BY <1>3, <1>9, <2>1 DEF Forgetting
  <2>2. CASE Forgetting(i)
    <3>1. PICK x \in Deleters : i \in deleter[x].jobs /\ deleter[x].forgets = TRUE BY <2>2 DEF Forgetting
    <3>2. x # d BY <1>4, <3>1
    <3> QED BY <1>9, <3>1, <3>2 DEF Forgetting
  <2> QED BY <1>10, <2>1, <2>2
<1> QED BY <1>0, <1>4, <1>9, <1>10, RegistryMoves

\* Every listed job is to go.
LEMMA ForgetKeeps ==
  ASSUME ExportIInv, NEW d \in Deleters, RemoveForRecording(d)
  PROVE  ExportIInv'
<1>0. /\ ExportTypeOK /\ DeletersOK /\ artifact \in [Jobs -> {"none", "released"}] /\ listed \subseteq Jobs
      /\ deleter \in [Deleters -> DeleterRecord] /\ DeleterOK(deleter[d])
      BY DEF ExportIInv, ExportTypeOK, DeletersOK
<1>1. PICK g : g = [deleter[d] EXCEPT !.pc = "cancel", !.jobs = listed] OBVIOUS
<1>2. g \in DeleterRecord /\ g.pc = "cancel" /\ g.jobs = listed /\ g.forgets = deleter[d].forgets
      BY <1>0, <1>1 DEF DeleterRecord
<1>3. /\ deleter' = [deleter EXCEPT ![d] = g] /\ UNCHANGED <<job, artifact, late>> /\ listed' = {}
      /\ deleter[d].pc = "forget"
      BY <1>0, <1>1 DEF RemoveForRecording
<1>4. g.forgets = TRUE /\ deleter[d].jobs = {} BY <1>0, <1>2, <1>3 DEF DeleterOK
<1>5. Onward BY <1>3 DEF Onward, Doomed
<1>6. \A i \in listed : job[i].pc \notin {"none", "asked"} BY DEF ExportIInv, ListedOK
<1>7. DeleterOK(g)' BY <1>2, <1>3, <1>4, <1>6 DEF DeleterOK
<1>8. /\ deleter' \in [Deleters -> DeleterRecord] /\ deleter'[d] = g
      /\ \A x \in Deleters \ {d} : deleter'[x] = deleter[x]
      /\ DeletersOK'
      BY <1>0, <1>2, <1>3, <1>5, <1>7, DeletersMove
<1>9. ASSUME NEW i \in Jobs, Forgetting(i) \/ i \in listed PROVE Forgetting(i)'
  <2>1. CASE i \in listed BY <1>2, <1>4, <1>8, <2>1 DEF Forgetting
  <2>2. CASE Forgetting(i)
    <3>1. PICK x \in Deleters : i \in deleter[x].jobs /\ deleter[x].forgets = TRUE BY <2>2 DEF Forgetting
    <3>2. x # d BY <1>4, <3>1
    <3> QED BY <1>8, <3>1, <3>2 DEF Forgetting
  <2> QED BY <1>9, <2>1, <2>2
<1> QED BY <1>0, <1>3, <1>8, <1>9, RegistryMoves

\* The file of a dropped job goes, if there is one.
LEMMA RemoveOutputKeeps ==
  ASSUME ExportIInv, NEW d \in Deleters, RemoveOutput(d)
  PROVE  ExportIInv'
<1>0. /\ ExportTypeOK /\ DeletersOK /\ artifact \in [Jobs -> {"none", "released"}] /\ listed \subseteq Jobs
      /\ deleter \in [Deleters -> DeleterRecord] /\ DeleterOK(deleter[d]) /\ deleter[d].jobs \subseteq Jobs
      BY DEF ExportIInv, ExportTypeOK, DeletersOK, DeleterRecord
<1>1. deleter[d].pc = "remove" BY DEF RemoveOutput
<1>2. PICK j : j = deleter[d].now OBVIOUS
<1>3. /\ j \in deleter[d].jobs /\ deleter[d].forgets = TRUE /\ j \in Jobs /\ j \notin listed
      /\ j \in late \/ Doomed(job[j])
      BY <1>0, <1>1, <1>2 DEF DeleterOK
<1>4. PICK g : g = [deleter[d] EXCEPT !.jobs = deleter[d].jobs \ {j}, !.pc = "cancel", !.now = "none"] OBVIOUS
<1>5. g \in DeleterRecord /\ g.pc = "cancel" /\ g.jobs = deleter[d].jobs \ {j} /\ g.forgets = TRUE
      BY <1>0, <1>3, <1>4 DEF DeleterRecord
<1>6. deleter' = [deleter EXCEPT ![d] = g] /\ UNCHANGED <<job, listed, late>> BY <1>0, <1>2, <1>4 DEF RemoveOutput
<1>7. PICK a : a = IF job[j].output THEN "none" ELSE artifact[j] OBVIOUS
<1>8. artifact' = [artifact EXCEPT ![j] = a] BY <1>0, <1>2, <1>3, <1>7 DEF RemoveOutput
<1>9. job[j].output \in BOOLEAN /\ JobOK(job[j], artifact[j]) /\ artifact[j] \in {"none", "released"}
      BY <1>0, <1>3 DEF ExportIInv, ExportTypeOK, JobRecord, JobsOK
<1>10. a \in {artifact[j], "none"} /\ (Doomed(job[j]) => a = "none")
  <2>1. CASE job[j].output = TRUE BY <1>7, <2>1
  <2>2. CASE job[j].output = FALSE BY <1>7, <1>9, <2>2 DEF JobOK, Doomed
  <2> QED BY <1>9, <2>1, <2>2
<1>11. Onward BY <1>6 DEF Onward, Doomed
<1>12. DeleterOK(g)'
  <2>1. \A i \in g.jobs : job[i].pc \notin {"none", "asked"} /\ i \notin listed BY <1>0, <1>3, <1>5 DEF DeleterOK
  <2> QED BY <1>5, <1>6, <2>1 DEF DeleterOK
<1>13. /\ deleter' \in [Deleters -> DeleterRecord] /\ deleter'[d] = g
       /\ \A x \in Deleters \ {d} : deleter'[x] = deleter[x]
       /\ DeletersOK'
       BY <1>0, <1>5, <1>6, <1>11, <1>12, DeletersMove
<1>14. /\ artifact' \in [Jobs -> {"none", "released"}] /\ artifact'[j] = a
       /\ \A i \in Jobs \ {j} : artifact'[i] = artifact[i]
  <2>1. a \in {"none", "released"} BY <1>9, <1>10
  <2> QED BY <1>0, <1>3, <1>8, <2>1
<1>15. ASSUME NEW i \in Jobs, Forgetting(i), i # j PROVE Forgetting(i)'
  <2>1. PICK x \in Deleters : i \in deleter[x].jobs /\ deleter[x].forgets = TRUE BY <1>15 DEF Forgetting
  <2>2. CASE x = d BY <1>5, <1>13, <1>15, <2>1, <2>2 DEF Forgetting
  <2>3. CASE x # d BY <1>13, <2>1, <2>3 DEF Forgetting
  <2> QED BY <2>2, <2>3
<1>16. \A i \in Jobs : artifact'[i] \in {artifact[i], "none"} BY <1>10, <1>14
<1>17. \A i \in listed' : artifact'[i] = artifact[i] BY <1>0, <1>3, <1>6, <1>14
<1>18. \A i \in Jobs : (i \in listed \/ Forgetting(i)) /\ i \notin listed' /\ ~Forgetting(i)' /\ i \notin late' =>
           Doomed(job[i]) /\ artifact'[i] = "none"
       BY <1>3, <1>6, <1>10, <1>14, <1>15
<1> QED BY <1>6, <1>13, <1>14, <1>16, <1>17, <1>18, RegistryMoves

\* The sweep drops a finished job with its file.
LEMMA SweepCompletedKeeps ==
  ASSUME ExportIInv, NEW j \in Jobs, SweepCompleted(j)
  PROVE  ExportIInv'
<1>0. /\ ExportTypeOK /\ DeletersOK /\ artifact \in [Jobs -> {"none", "released"}] /\ listed \subseteq Jobs
      /\ deleter \in [Deleters -> DeleterRecord] /\ job[j] \in JobRecord
      BY DEF ExportIInv, ExportTypeOK
<1>1. PICK a : a = IF job[j].output THEN "none" ELSE artifact[j] OBVIOUS
<1>2. /\ artifact' = [artifact EXCEPT ![j] = a] /\ j \in listed /\ listed' = listed \ {j} /\ late \subseteq late'
      /\ job[j].pc = "converted" => j \in late'
      /\ job' = job /\ deleter' = deleter
      BY <1>0, <1>1 DEF SweepCompleted
<1>3. /\ job[j].output \in BOOLEAN /\ job[j].cancelled \in BOOLEAN /\ JobOK(job[j], artifact[j])
      /\ artifact[j] \in {"none", "released"}
      BY <1>0 DEF ExportIInv, JobRecord, JobsOK
<1>4. job[j].state \notin InProgress BY DEF SweepCompleted, InProgress
<1>5. j \in late' \/ Doomed(job[j])
  <2>1. job[j].pc \in {"acquire", "convert"} => job[j].cancelled = TRUE BY <1>3, <1>4 DEF JobOK, InProgress
  <2> QED BY <1>2, <2>1 DEF Doomed
<1>6. a \in {artifact[j], "none"} /\ (Doomed(job[j]) => a = "none")
  <2>1. CASE job[j].output = TRUE BY <1>1, <2>1
  <2>2. CASE job[j].output = FALSE BY <1>1, <1>3, <2>2 DEF JobOK, Doomed
  <2> QED BY <1>3, <2>1, <2>2
<1>7. Onward BY <1>2 DEF Onward, Doomed
<1>8. DeletersOK' /\ \A i : Forgetting(i)' <=> Forgetting(i) BY <1>0, <1>2, <1>7, DeletersStay
<1>9. /\ artifact' \in [Jobs -> {"none", "released"}] /\ artifact'[j] = a
      /\ \A i \in Jobs \ {j} : artifact'[i] = artifact[i]
  <2>1. a \in {"none", "released"} BY <1>3, <1>6
  <2> QED BY <1>0, <1>2, <2>1
<1>10. deleter' \in [Deleters -> DeleterRecord] BY <1>0, <1>2
<1>11. \A i \in Jobs : artifact'[i] \in {artifact[i], "none"} BY <1>6, <1>9
<1>12. \A i \in listed' : artifact'[i] = artifact[i] BY <1>0, <1>2, <1>9
<1>13. \A i \in Jobs : (i \in listed \/ Forgetting(i)) /\ i \notin listed' /\ ~Forgetting(i)' /\ i \notin late' =>
           Doomed(job[i]) /\ artifact'[i] = "none"
       BY <1>2, <1>5, <1>6, <1>8, <1>9
<1>14. listed' \subseteq listed BY <1>2
<1> QED BY <1>2, <1>8, <1>9, <1>10, <1>11, <1>12, <1>13, <1>14, RegistryMoves

\* A deletion cancels a job, and the state it writes after that.
LEMMA CancelKeeps ==
  ASSUME ExportIInv, NEW d \in Deleters, NEW j \in Jobs, NEW f \in JobRecord, NEW g \in DeleterRecord,
         job' = [job EXCEPT ![j] = f], deleter' = [deleter EXCEPT ![d] = g], UNCHANGED <<listed, artifact>>,
         late \subseteq late', job[j].pc \notin {"none", "asked"}, f.pc = job[j].pc, f.output = job[j].output,
         f.cancelled = TRUE \/ f.cancelled = job[j].cancelled,
         f.state = job[j].state \/ (f.state = "cancelled" /\ f.cancelled = TRUE),
         DeleterOK(g)',
         \A i \in deleter[d].jobs : deleter[d].forgets = TRUE => i \in g.jobs /\ g.forgets = TRUE
  PROVE  ExportIInv'
<1>0. /\ ExportTypeOK /\ DeletersOK /\ job \in [Jobs -> JobRecord] /\ artifact \in [Jobs -> {"none", "released"}]
      /\ deleter \in [Deleters -> DeleterRecord] /\ JobOK(job[j], artifact[j]) /\ job[j] \in JobRecord
      /\ job[j].cancelled \in BOOLEAN /\ f.cancelled \in BOOLEAN
      BY DEF ExportIInv, ExportTypeOK, JobsOK, JobRecord
<1>1. job'[j] = f /\ \A i \in Jobs \ {j} : job'[i] = job[i] BY <1>0
<1>2. Doomed(job[j]) => Doomed(f) BY DEF Doomed
<1>3. Onward BY <1>1, <1>2 DEF Onward
<1>4. /\ deleter' \in [Deleters -> DeleterRecord] /\ deleter'[d] = g
      /\ \A x \in Deleters \ {d} : deleter'[x] = deleter[x]
      /\ DeletersOK'
      BY <1>0, <1>3, DeletersMove
<1>5. ASSUME NEW i \in Jobs, Forgetting(i) PROVE Forgetting(i)'
  <2>1. PICK x \in Deleters : i \in deleter[x].jobs /\ deleter[x].forgets = TRUE BY <1>5 DEF Forgetting
  <2>2. CASE x = d BY <1>4, <2>1, <2>2 DEF Forgetting
  <2>3. CASE x # d BY <1>4, <2>1, <2>3 DEF Forgetting
  <2> QED BY <2>2, <2>3
<1>6. PICK a \in {"none", "released"} : a = artifact[j] BY <1>0
<1>7. artifact' = [artifact EXCEPT ![j] = a] BY <1>0, <1>6
<1>8. JobOK(f, a) BY <1>0, <1>6 DEF JobOK
<1>9. f.pc = "converted" \/ f.output = TRUE => a = "released" \/ j \notin listed
      BY <1>6 DEF ExportIInv, ListedOK
<1>10. f.state \in InProgress /\ f.cancelled = FALSE =>
           f.pc = "asked" \/ (job[j].state \in InProgress /\ job[j].cancelled = FALSE)
       BY <1>0 DEF InProgress
<1>11. Doomed(job[j]) => Doomed(f) /\ a = artifact[j] BY <1>2, <1>6
<1>12. listed' = listed /\ (job[j].pc \notin {"none", "asked"} <=> f.pc \notin {"none", "asked"}) OBVIOUS
<1> QED BY <1>4, <1>5, <1>7, <1>8, <1>9, <1>10, <1>11, <1>12, JobWritten

\* requestCancelRecordingExport, and the state handleDeleteRecordingExport writes after it.
LEMMA CancelStepsKeep ==
  ASSUME ExportIInv, NEW d \in Deleters, (\E j \in Jobs : RequestCancel(d, j)) \/ MarkCancelled(d)
  PROVE  ExportIInv'
<1>0. /\ job \in [Jobs -> JobRecord] /\ deleter \in [Deleters -> DeleterRecord] /\ deleter[d] \in DeleterRecord
      /\ DeleterOK(deleter[d]) /\ deleter[d].forgets \in BOOLEAN
      BY DEF ExportIInv, ExportTypeOK, DeletersOK, DeleterRecord
<1>1. ASSUME NEW j \in Jobs, RequestCancel(d, j) PROVE ExportIInv'
  <2>0. job[j] \in JobRecord /\ job[j].cancelled \in BOOLEAN /\ JobOK(job[j], artifact[j])
        BY <1>0 DEF JobRecord, ExportIInv, JobsOK
  <2>1. PICK c \in BOOLEAN : c = (job[j].cancelled \/ ~deleter[d].forgets \/ job[j].state \in InProgress)
        OBVIOUS
  <2>2. PICK f : f = [job[j] EXCEPT !.cancelled = c] OBVIOUS
  <2>3. job' = [job EXCEPT ![j] = f] /\ UNCHANGED <<listed, artifact>> /\ late \subseteq late'
        BY <1>0, <1>1, <2>1, <2>2 DEF RequestCancel
  <2>4. /\ f \in JobRecord /\ f.pc = job[j].pc /\ f.state = job[j].state /\ f.output = job[j].output
        /\ f.cancelled = c
        BY <2>0, <2>2 DEF JobRecord
  <2>5. PICK g : g = [deleter[d] EXCEPT !.pc = IF deleter[d].forgets THEN "remove" ELSE "state", !.now = j]
        OBVIOUS
  <2>6. deleter' = [deleter EXCEPT ![d] = g] BY <1>0, <1>1, <2>5 DEF RequestCancel
  <2>7. /\ g \in DeleterRecord /\ g.jobs = deleter[d].jobs /\ g.forgets = deleter[d].forgets /\ g.now = j
        /\ g.pc = IF deleter[d].forgets THEN "remove" ELSE "state"
        BY <1>0, <2>5 DEF DeleterRecord
  <2>8. deleter[d].pc = "cancel" /\ j \in deleter[d].jobs BY <1>1 DEF RequestCancel
  <2>9. job[j].pc \notin {"none", "asked"} BY <1>0, <2>8 DEF DeleterOK
  <2>10. c = TRUE \/ c = job[j].cancelled BY <2>0, <2>1
  <2>11. ASSUME deleter[d].forgets = TRUE PROVE j \in late' \/ Doomed(f)
    <3>1. job[j].pc = "converted" => j \in late' BY <1>1, <2>11 DEF RequestCancel
    <3>2. job[j].pc \in {"acquire", "convert"} => c = TRUE BY <2>0, <2>1 DEF JobOK, InProgress
    <3> QED BY <2>4, <3>1, <3>2 DEF Doomed
  <2>12. deleter[d].forgets = FALSE => c = TRUE BY <2>1
  <2>13. job'[j] = f /\ \A i \in Jobs \ {j} : job'[i] = job[i] BY <1>0, <2>3
  <2>14. g.jobs \subseteq Jobs BY <2>7 DEF DeleterRecord
  <2>15. \A i \in g.jobs : job'[i].pc \notin {"none", "asked"} /\ (g.forgets = TRUE => i \notin listed')
    <3>1. \A i \in Jobs : job'[i].pc = job[i].pc BY <2>4, <2>13
    <3> QED BY <1>0, <2>3, <2>7, <2>14, <3>1 DEF DeleterOK
  <2>16. DeleterOK(g)'
    <3>1. CASE deleter[d].forgets = TRUE
      <4>1. g.pc = "remove" BY <2>7, <3>1
      <4>2. g.now \in late' \/ Doomed(job'[g.now]) BY <2>7, <2>11, <2>13, <3>1
      <4> QED BY <2>7, <2>8, <2>15, <3>1, <4>1, <4>2 DEF DeleterOK, Doomed
    <3>2. CASE deleter[d].forgets = FALSE
      <4>1. g.pc = "state" BY <2>7, <3>2
      <4>2. job'[g.now].cancelled = TRUE BY <2>4, <2>7, <2>12, <2>13, <3>2
      <4> QED BY <2>7, <2>15, <3>2, <4>1, <4>2 DEF DeleterOK
    <3> QED BY <1>0, <3>1, <3>2
  <2>17. f.cancelled = TRUE \/ f.cancelled = job[j].cancelled BY <2>4, <2>10
  <2>18. \A i \in deleter[d].jobs : deleter[d].forgets = TRUE => i \in g.jobs /\ g.forgets = TRUE BY <2>7
  <2> QED BY <2>3, <2>4, <2>6, <2>7, <2>9, <2>16, <2>17, <2>18, CancelKeeps
<1>2. CASE MarkCancelled(d)
  <2>1. PICK j : j = deleter[d].now OBVIOUS
  <2>2. deleter[d].pc = "state" BY <1>2 DEF MarkCancelled
  <2>3. j \in Jobs /\ deleter[d].forgets = FALSE /\ job[j].cancelled = TRUE BY <1>0, <2>1, <2>2 DEF DeleterOK
  <2>4. PICK f : f = [job[j] EXCEPT !.state = "cancelled"] OBVIOUS
  <2>5. /\ f \in JobRecord /\ f.pc = job[j].pc /\ f.state = "cancelled" /\ f.output = job[j].output
        /\ f.cancelled = TRUE
        BY <1>0, <2>3, <2>4 DEF JobRecord
  <2>6. PICK g : g = NoDeleter OBVIOUS
  <2>7. g \in DeleterRecord /\ g.jobs = {} /\ g.pc = "idle" BY <2>6 DEF NoDeleter, DeleterRecord
  <2>8. /\ job' = [job EXCEPT ![j] = f] /\ deleter' = [deleter EXCEPT ![d] = g]
        /\ UNCHANGED <<listed, artifact>> /\ late \subseteq late'
        BY <1>0, <1>2, <2>1, <2>4, <2>6 DEF MarkCancelled
  <2>9. DeleterOK(g)' BY <2>7 DEF DeleterOK
  <2>10. job[j].pc \notin {"none", "asked"} BY <2>3 DEF ExportIInv, JobsOK, JobOK
  <2> QED BY <2>3, <2>5, <2>7, <2>8, <2>9, <2>10, CancelKeeps
<1> QED BY <1>1, <1>2

\* What the invariant says of the exports.
LEMMA ExportsAgree == ASSUME ExportIInv PROVE ExportsConsistent
<1> USE DEF ExportIInv
<1>0. /\ listed \subseteq Jobs
      /\ \A j \in Jobs : job[j].output \in BOOLEAN /\ job[j].cancelled \in BOOLEAN
      BY DEF ExportTypeOK, JobRecord
<1>1. FileHasJob
  <2> SUFFICES ASSUME NEW j \in Jobs, artifact[j] = "released", job[j].pc = "ended", j \notin listed,
                      ~BeingDropped(j), j \notin late
               PROVE  FALSE
      BY DEF FileHasJob
  <2>1. ~Forgetting(j) BY DEF Forgetting, BeingDropped
  <2> QED BY <2>1 DEF Gone
<1>2. OutputExists BY <1>0 DEF OutputExists, ListedOK
<1>3. OneExport
  <2>1. PICK S : S = {j \in listed : job[j].state \in InProgress /\ ~job[j].cancelled} OBVIOUS
  <2>2. \A i, j \in S : i = j
    <3>1. \A i \in S : i \in Jobs /\ Active(i) BY <1>0, <2>1 DEF Active
    <3> QED BY <3>1 DEF ActiveOne
  <2>3. CASE S = {} BY <2>1, <2>3, FS_EmptySet DEF OneExport
  <2>4. CASE S # {}
    <3>1. PICK i : S = {i} BY <2>2, <2>4
    <3>2. Cardinality(S) = 1 BY <3>1, FS_Singleton
    <3> QED BY <2>1, <3>2 DEF OneExport
  <2> QED BY <2>3, <2>4
<1> QED BY <1>1, <1>2, <1>3 DEF ExportsConsistent

\* Exports of a recording (recording_export.go, recordings.go): however the goroutines of the jobs,
\* the DELETE requests, the sweeps and the deletion of the recording interleave, a finished file
\* lies on disk only while its job is listed, a deletion has it in hand, or the job was dropped in
\* the window after its conversion; a listed job that names an output has it; and a user has at
\* most one export of the recording that is neither over nor cancelled.
THEOREM ExportsAreConsistent == ExportSpec => []ExportsConsistent
<1>1. ExportInit => ExportIInv BY ExportStart
<1>2. ExportIInv /\ [ExportNext]_exportVars => ExportIInv'
  <2> SUFFICES ASSUME ExportIInv, [ExportNext]_exportVars PROVE ExportIInv'
      OBVIOUS
  <2>1. CASE UNCHANGED exportVars
    <3>1. DeletersOK' BY <2>1 DEF exportVars, ExportIInv, DeletersOK, DeleterOK, Doomed
    <3> QED BY <2>1, <3>1 DEF exportVars, ExportIInv, ExportTypeOK, JobsOK, JobOK, ListedOK, Gone, Forgetting, Doomed, ActiveOne, Active
  <2>2. ASSUME NEW j \in Jobs,
               \/ AskExport(j) \/ JobAcquired(j) \/ JobNotAcquired(j)
               \/ Converted(j) \/ ConversionFails(j) \/ FinishJob(j) \/ Cleanup(j)
               \/ \E d \in Deleters : SweepStale(d, j)
        PROVE ExportIInv'
        BY <2>2, JobStepsKeep
  <2>3. ASSUME NEW j \in Jobs, Enqueue(j) \/ SweepCompleted(j) PROVE ExportIInv'
        BY <2>3, EnqueueKeeps, SweepCompletedKeeps
  <2>4. ASSUME NEW j \in Jobs, NEW d \in Deleters, DeleteActive(d, j) \/ DeleteFinished(d, j) \/ RequestCancel(d, j)
        PROVE ExportIInv'
        BY <2>4, DeleterStepsKeep, DeleteFinishedKeeps, CancelStepsKeep
  <2>5. ASSUME NEW d \in Deleters,
               MarkCancelled(d) \/ RemoveOutput(d) \/ DeleteRow(d) \/ RemoveForRecording(d) \/ DeleterDone(d)
        PROVE ExportIInv'
        BY <2>5, CancelStepsKeep, RemoveOutputKeeps, DeleterStepsKeep, ForgetKeeps
  <2> QED BY <2>1, <2>2, <2>3, <2>4, <2>5 DEF ExportNext
<1>3. ExportIInv => ExportsConsistent BY ExportsAgree
<1> QED BY <1>1, <1>2, <1>3, PTL DEF ExportSpec

--------------------------------------------------------------------------------
(* Backups (Backup).                                                         *)

FileRecord == [kind : {"absent", "torn", "db", "empty"}, tx : Nat, sess : BOOLEAN]
MakingRecord == [pc : {"idle", "vacuum", "scrub", "verify"}, slot : 0..MaxBackups]

BackupTypeOK ==
  /\ backups \in [Slots -> FileRecord]
  /\ making \in MakingRecord
  /\ kept \in BOOLEAN

\* A backup is made under the name that sorts last, and once scrubbed it holds no sessions.
MakesNewest ==
  /\ making.pc = "idle" <=> making.slot = 0
  /\ making.pc # "idle" => \A c \in Slots : backups[c] # Absent => c <= making.slot
  /\ making.pc = "verify" => backups[making.slot].sess = FALSE

\* The good snapshot is not the file being made.
OtherGood == kept = TRUE => \E b \in Slots : b # making.slot /\ Good(backups[b])

BackupIInv == BackupTypeOK /\ MakesNewest /\ OtherGood

\* The kinds of file are distinct.
LEMMA FileKinds ==
  /\ Absent \in FileRecord /\ Torn \in FileRecord /\ Empty \in FileRecord /\ Database(1, TRUE) \in FileRecord
  /\ Empty.sess = FALSE /\ Absent.sess = FALSE /\ Absent.kind = "absent"
  /\ \A f \in FileRecord : /\ scrubSnapshot(f) \in FileRecord /\ scrubSnapshot(f).sess = FALSE
                           /\ Good(f) => f # Absent
<1>1. Absent \in FileRecord /\ Absent.sess = FALSE /\ Absent.kind = "absent" BY DEF FileRecord, Absent
<1>2. PICK a : a = Absent OBVIOUS
<1>3. a \in FileRecord /\ a.sess = FALSE BY <1>1, <1>2
<1>4. [a EXCEPT !.kind = "torn"] \in FileRecord BY <1>3 DEF FileRecord
<1>5. [a EXCEPT !.kind = "empty"] \in FileRecord /\ [a EXCEPT !.kind = "empty"].sess = FALSE BY <1>3 DEF FileRecord
<1>6. Torn \in FileRecord /\ Empty \in FileRecord /\ Empty.sess = FALSE BY <1>2, <1>4, <1>5 DEF Torn, Empty
<1>7. Database(1, TRUE) \in FileRecord BY DEF FileRecord, Database
<1>8. \A f \in FileRecord : scrubSnapshot(f) \in FileRecord /\ scrubSnapshot(f).sess = FALSE
      BY DEF FileRecord, scrubSnapshot
<1>9. \A f \in FileRecord : Good(f) => f # Absent BY <1>1 DEF Good, verifySQLiteFile
<1> QED BY <1>1, <1>6, <1>7, <1>8, <1>9

\* NewestBackups is a name at or above every file's.
LEMMA NewestExists ==
  ASSUME BackupTypeOK
  PROVE  /\ NewestBackups \in Slots \cup {0}
         /\ \A c \in Slots : backups[c] # Absent => c <= NewestBackups
<1>0. MaxBackups \in Nat BY BackupAssumption
<1>1. PICK T : T = {n \in 0..MaxBackups : \A c \in Slots : backups[c] # Absent => c <= n} OBVIOUS
<1>2. T \subseteq Nat BY <1>1
<1>3. MaxBackups \in T BY <1>0, <1>1 DEF Slots
<1>4. PICK n \in T : \A m \in T : ~(<<m, n>> \in OpToRel(<, Nat))
      BY <1>2, <1>3, NatLessThanWellFounded, WFMin
<1>5. \A m \in T : ~(m < n) BY <1>2, <1>4 DEF OpToRel
<1>6. n \in 0..MaxBackups /\ \A c \in Slots : backups[c] # Absent => c <= n BY <1>1, <1>4
<1>7. n # 0 => backups[n] # Absent
  <2> SUFFICES ASSUME n # 0, backups[n] = Absent PROVE FALSE
      OBVIOUS
  <2>1. n - 1 \in 0..MaxBackups /\ n - 1 < n BY <1>0, <1>6
  <2>2. \A c \in Slots : backups[c] # Absent => c <= n - 1 BY <1>0, <1>6 DEF Slots
  <2>3. n - 1 \in T BY <1>1, <2>1, <2>2
  <2> QED BY <1>5, <2>1, <2>3
<1>8. n \in Slots \cup {0} BY <1>0, <1>6 DEF Slots
<1> QED BY <1>6, <1>7, <1>8 DEF NewestBackups

\* No file at first.
LEMMA BackupStart == BackupInit => BackupIInv
<1> SUFFICES ASSUME BackupInit PROVE BackupIInv
    OBVIOUS
<1>1. NotMaking \in MakingRecord /\ NotMaking.pc = "idle" /\ NotMaking.slot = 0
      BY BackupAssumption DEF NotMaking, MakingRecord
<1>2. backups \in [Slots -> FileRecord] BY FileKinds DEF BackupInit
<1>3. BackupTypeOK BY <1>1, <1>2 DEF BackupInit, BackupTypeOK
<1>4. MakesNewest BY <1>1 DEF BackupInit, MakesNewest
<1>5. OtherGood BY DEF BackupInit, OtherGood
<1> QED BY <1>3, <1>4, <1>5 DEF BackupIInv

\* A step on the file being made only.
LEMMA MakingKeeps ==
  ASSUME BackupIInv, making.pc # "idle", NEW f \in FileRecord, NEW m \in MakingRecord,
         backups' = [backups EXCEPT ![making.slot] = f], making' = m, kept' = kept,
         m = NotMaking \/ (m.pc # "idle" /\ m.slot = making.slot /\ (m.pc = "verify" => f.sess = FALSE))
  PROVE  BackupIInv'
<1> USE DEF BackupIInv
<1>0. MaxBackups \in Nat BY BackupAssumption
<1>1. /\ backups \in [Slots -> FileRecord] /\ making.slot \in Slots
      BY <1>0 DEF BackupTypeOK, MakingRecord, MakesNewest, Slots
<1>2. /\ backups' \in [Slots -> FileRecord] /\ backups'[making.slot] = f
      /\ \A c \in Slots : c # making.slot => backups'[c] = backups[c]
      BY <1>1
<1>3. BackupTypeOK' BY <1>2 DEF BackupTypeOK
<1>4. m.slot = 0 \/ m.slot = making.slot BY DEF NotMaking
<1>5. OtherGood'
  <2> SUFFICES ASSUME kept = TRUE PROVE \E b \in Slots : b # m.slot /\ Good(backups'[b])
      BY DEF OtherGood, Good, verifySQLiteFile
  <2>1. PICK b \in Slots : b # making.slot /\ Good(backups[b]) BY DEF OtherGood
  <2>2. b # m.slot /\ backups'[b] = backups[b] BY <1>0, <1>2, <1>4, <2>1 DEF Slots
  <2> QED BY <2>1, <2>2
<1>6. MakesNewest'
  <2>1. CASE m = NotMaking
    <3>1. making'.pc = "idle" /\ making'.slot = 0 BY <2>1 DEF NotMaking
    <3> QED BY <3>1 DEF MakesNewest
  <2>2. CASE m.pc # "idle" /\ m.slot = making.slot /\ (m.pc = "verify" => f.sess = FALSE)
    <3>1. \A c \in Slots : backups'[c] # Absent => c <= m.slot
          BY <1>0, <1>1, <1>2, <2>2 DEF MakesNewest, Slots
    <3>2. m.slot # 0 BY <1>0, <1>1, <2>2 DEF Slots
    <3> QED BY <1>2, <2>2, <3>1, <3>2 DEF MakesNewest
  <2> QED BY <2>1, <2>2
<1> QED BY <1>3, <1>5, <1>6

\* The whole of a step of createBackup, of the administrator, and of a restart.
LEMMA BackupStep == BackupIInv /\ BackupNext => BackupIInv'
<1> SUFFICES ASSUME BackupIInv, BackupNext PROVE BackupIInv'
    OBVIOUS
<1> USE DEF BackupIInv
<1>0. MaxBackups \in Nat /\ Keep \in Nat /\ Keep >= 1 BY BackupAssumption
<1>1. backups \in [Slots -> FileRecord] /\ making \in MakingRecord /\ kept \in BOOLEAN BY DEF BackupTypeOK
<1>2. NotMaking \in MakingRecord /\ NotMaking.pc = "idle" /\ NotMaking.slot = 0 BY <1>0 DEF NotMaking, MakingRecord
<1>3. making.pc # "idle" => making.slot \in Slots BY <1>0, <1>1 DEF MakingRecord, MakesNewest, Slots
<1>4. \A b \in Slots : b # 0 BY <1>0 DEF Slots
<1>5. CASE StartBackup
  <2>1. PICK n : n = NewestBackups OBVIOUS
  <2>2. n \in Slots \cup {0} /\ \A c \in Slots : backups[c] # Absent => c <= n BY <2>1, NewestExists
  <2>3. n + 1 \in Slots /\ n \in Nat /\ n + 1 \in 0..MaxBackups BY <1>0, <1>5, <2>1, <2>2 DEF StartBackup, Slots
  <2>4. PICK m : m = [pc |-> "vacuum", slot |-> n + 1] OBVIOUS
  <2>5. m \in MakingRecord /\ m.pc = "vacuum" /\ m.slot = n + 1 BY <2>3, <2>4 DEF MakingRecord
  <2>6. backups' = [backups EXCEPT ![n + 1] = Torn] /\ making' = m /\ kept' = kept
        BY <1>5, <2>1, <2>4 DEF StartBackup
  <2>7. backups' \in [Slots -> FileRecord] /\ \A c \in Slots : c # n + 1 => backups'[c] = backups[c]
        BY <1>1, <2>3, <2>6, FileKinds
  <2>8. BackupTypeOK' BY <1>1, <2>5, <2>6, <2>7 DEF BackupTypeOK
  <2>9. MakesNewest'
    <3>1. \A c \in Slots : backups'[c] # Absent => c <= n + 1
      <4> SUFFICES ASSUME NEW c \in Slots, backups'[c] # Absent PROVE c <= n + 1
          OBVIOUS
      <4>1. c \in Nat BY <1>0 DEF Slots
      <4>2. CASE c = n + 1 BY <2>3, <4>2
      <4>3. CASE c # n + 1
        <5>1. c <= n BY <2>2, <2>7, <4>3
        <5> QED BY <2>3, <4>1, <5>1
      <4> QED BY <4>2, <4>3
    <3>2. m.slot # 0 BY <2>3, <2>5
    <3> QED BY <2>5, <2>6, <3>1, <3>2 DEF MakesNewest
  <2>10. OtherGood'
    <3> SUFFICES ASSUME kept = TRUE PROVE \E b \in Slots : b # m.slot /\ Good(backups'[b])
        BY <2>6 DEF OtherGood, Good, verifySQLiteFile
    <3>1. PICK b \in Slots : Good(backups[b]) BY DEF OtherGood
    <3>2. backups[b] # Absent BY <1>1, <3>1, FileKinds
    <3>3. b <= n /\ b \in Nat BY <1>0, <2>2, <3>2 DEF Slots
    <3>4. b # n + 1 BY <2>3, <3>3
    <3>5. b # m.slot /\ backups'[b] = backups[b] BY <2>5, <2>7, <3>4
    <3> QED BY <3>1, <3>5
  <2> QED BY <2>8, <2>9, <2>10
<1>6. CASE Vacuumed
  <2>1. PICK m : m = [making EXCEPT !.pc = "scrub"] OBVIOUS
  <2>2. m \in MakingRecord /\ m.pc = "scrub" /\ m.slot = making.slot BY <1>1, <2>1 DEF MakingRecord
  <2>3. making' = m /\ kept' = kept /\ making.pc = "vacuum" BY <1>6, <2>1 DEF Vacuumed
  <2>4. PICK f \in FileRecord : f = IF backups[making.slot] = Absent THEN Absent ELSE Database(1, TRUE) BY FileKinds
  <2>5. backups' = [backups EXCEPT ![making.slot] = f]
    <3>1. CASE backups[making.slot] = Absent BY <1>1, <1>6, <2>4, <3>1 DEF Vacuumed
    <3>2. CASE backups[making.slot] # Absent BY <1>1, <1>6, <2>4, <3>2 DEF Vacuumed
    <3> QED BY <3>1, <3>2
  <2> QED BY <2>2, <2>3, <2>5, MakingKeeps
<1>7. CASE Scrubbed
  <2>1. PICK m : m = [making EXCEPT !.pc = "verify"] OBVIOUS
  <2>2. m \in MakingRecord /\ m.pc = "verify" /\ m.slot = making.slot BY <1>1, <2>1 DEF MakingRecord
  <2>3. making' = m /\ kept' = kept /\ making.pc = "scrub" BY <1>7, <2>1 DEF Scrubbed
  <2>4. PICK f : f = IF backups[making.slot] = Absent THEN Empty ELSE scrubSnapshot(backups[making.slot])
        OBVIOUS
  <2>5. f \in FileRecord /\ f.sess = FALSE BY <1>1, <1>3, <2>3, <2>4, FileKinds
  <2>6. backups' = [backups EXCEPT ![making.slot] = f] BY <1>1, <1>3, <1>7, <2>3, <2>4 DEF Scrubbed
  <2> QED BY <2>2, <2>3, <2>5, <2>6, MakingKeeps
<1>8. CASE Verified
  <2>1. PICK f : f = backups[making.slot] OBVIOUS
  <2>2. making.pc = "verify" /\ making.slot \in Slots /\ making' = NotMaking BY <1>3, <1>8 DEF Verified
  <2>3. CASE ~verifySQLiteFile(f)
    <3>1. backups' = [backups EXCEPT ![making.slot] = Absent] /\ kept' = kept BY <1>8, <2>1, <2>3 DEF Verified
    <3> QED BY <1>2, <2>2, <3>1, FileKinds, MakingKeeps
  <2>4. CASE verifySQLiteFile(f)
    <3>1. backups' = Pruned(backups) /\ kept' = TRUE BY <1>8, <2>1, <2>4 DEF Verified
    <3>2. backups' \in [Slots -> FileRecord] BY <1>1, <3>1, FileKinds DEF Pruned
    <3>3. Good(f) BY <2>1, <2>2, <2>4 DEF Good, MakesNewest
    <3>4. f # Absent /\ f \in FileRecord BY <1>1, <2>1, <2>2, <3>3, FileKinds
    <3>5. {c \in Slots : c >= making.slot /\ backups[c] # Absent} = {making.slot}
      <4>1. \A c \in Slots : backups[c] # Absent => c <= making.slot BY <2>2 DEF MakesNewest
      <4>2. \A c \in Slots : c >= making.slot /\ backups[c] # Absent => c = making.slot
            BY <1>0, <2>2, <4>1 DEF Slots
      <4>3. making.slot >= making.slot BY <1>0, <2>2 DEF Slots
      <4> QED BY <2>1, <2>2, <3>4, <4>2, <4>3
    <3>6. Cardinality({c \in Slots : c >= making.slot /\ backups[c] # Absent}) = 1 BY <3>5, FS_Singleton
    <3>7. backups'[making.slot] = f BY <1>0, <2>1, <2>2, <3>1, <3>6 DEF Pruned
    <3>8. BackupTypeOK' BY <1>2, <2>2, <3>1, <3>2 DEF BackupTypeOK
    <3>9. MakesNewest' BY <1>2, <2>2 DEF MakesNewest
    <3>10. making.slot # making'.slot BY <1>2, <1>4, <2>2
    <3>11. Good(backups'[making.slot]) BY <3>3, <3>7
    <3>12. \E b \in Slots : b # making'.slot /\ Good(backups'[b]) BY <2>2, <3>10, <3>11
    <3>13. OtherGood' BY <3>12 DEF OtherGood, Good, verifySQLiteFile
    <3> QED BY <3>8, <3>9, <3>13
  <2> QED BY <2>3, <2>4
<1>9. CASE BackupFailed
      BY <1>2, <1>9, FileKinds, MakingKeeps DEF BackupFailed
<1>10. CASE Interrupted
  <2>1. making' = NotMaking /\ backups' = backups /\ kept' = kept BY <1>10 DEF Interrupted
  <2>2. BackupTypeOK' BY <1>1, <1>2, <2>1 DEF BackupTypeOK
  <2>3. MakesNewest' BY <1>2, <2>1 DEF MakesNewest
  <2>4. OtherGood' BY <1>2, <1>4, <2>1 DEF OtherGood, Good, verifySQLiteFile
  <2> QED BY <2>2, <2>3, <2>4
<1>11. ASSUME NEW b \in Slots, DeleteBackup(b) PROVE BackupIInv'
  <2>1. backups' = [backups EXCEPT ![b] = Absent] /\ making' = making BY <1>11 DEF DeleteBackup
  <2>2. /\ backups' \in [Slots -> FileRecord] /\ backups'[b] = Absent
        /\ \A c \in Slots : c # b => backups'[c] = backups[c]
        BY <1>1, <2>1, FileKinds
  <2>3. kept' \in BOOLEAN BY <1>1, <1>11 DEF DeleteBackup
  <2>4. BackupTypeOK' BY <1>1, <2>1, <2>2, <2>3 DEF BackupTypeOK
  <2>5. MakesNewest'
    <3>1. making.pc # "idle" => \A c \in Slots : backups'[c] # Absent => c <= making.slot
          BY <2>2 DEF MakesNewest
    <3>2. making.pc = "verify" => backups'[making.slot].sess = FALSE
          BY <1>3, <2>2, FileKinds DEF MakesNewest
    <3> QED BY <2>1, <3>1, <3>2 DEF MakesNewest
  <2>6. OtherGood'
    <3>1. CASE b # making.slot
      <4>1. kept' = FALSE BY <1>11, <3>1 DEF DeleteBackup
      <4> QED BY <4>1 DEF OtherGood
    <3>2. CASE b = making.slot
      <4>1. kept' = kept BY <1>11, <3>2 DEF DeleteBackup
      <4> SUFFICES ASSUME kept = TRUE PROVE \E c \in Slots : c # making.slot /\ Good(backups'[c])
          BY <2>1, <4>1 DEF OtherGood, Good, verifySQLiteFile
      <4>2. PICK c \in Slots : c # making.slot /\ Good(backups[c]) BY DEF OtherGood
      <4>3. backups'[c] = backups[c] BY <2>2, <3>2, <4>2
      <4> QED BY <4>2, <4>3
    <3> QED BY <3>1, <3>2
  <2> QED BY <2>4, <2>5, <2>6
<1> QED BY <1>5, <1>6, <1>7, <1>8, <1>9, <1>10, <1>11 DEF BackupNext

\* Backups (backup.go): once createBackup has succeeded, a whole snapshot without sessions in it
\* remains until an administrator deletes one, whatever the retention count, whatever a failed,
\* interrupted or deleted backup leaves, and however long this goes on: the prune counts from the
\* name that sorts last, and the one being verified is the last.
THEOREM BackupsRemain == BackupSpec => []GoodBackupRemains
<1>1. BackupInit => BackupIInv BY BackupStart
<1>2. BackupIInv /\ [BackupNext]_backupVars => BackupIInv'
  <2>1. ASSUME BackupIInv, UNCHANGED backupVars PROVE BackupIInv'
        BY <2>1 DEF backupVars, BackupIInv, BackupTypeOK, MakesNewest, OtherGood, Good, verifySQLiteFile
  <2> QED BY <2>1, BackupStep
<1>3. BackupIInv => GoodBackupRemains
  <2> SUFFICES ASSUME BackupIInv, kept PROVE \E b \in Slots : Good(backups[b])
      BY DEF GoodBackupRemains
  <2>1. kept = TRUE BY DEF BackupIInv, BackupTypeOK
  <2> QED BY <2>1 DEF BackupIInv, OtherGood
<1> QED BY <1>1, <1>2, <1>3, PTL DEF BackupSpec

--------------------------------------------------------------------------------
(* Restores (Restore).                                                       *)

StagerRecord == [pc : {"idle", "copy", "scrub", "rename"}, src : FileRecord, fd : Inodes \cup {"none"}]
Applying == {"verify", "scrub", "moveAside", "dropWal", "place"}

RestoreTypeOK ==
  /\ phase \in Applying \cup {"up", "down", "open"}
  /\ db \in FileRecord /\ wal \in Nat
  /\ inode \in [Inodes -> FileRecord]
  /\ tmp \in Inodes \cup {"none"} /\ pending \in Inodes \cup {"none"}
  /\ stager \in [Stagers -> StagerRecord]
  /\ applied \in BOOLEAN /\ misplaced \in BOOLEAN

\* A whole database has a transaction in it: what is staged does, and what is copied.
WholeHasData ==
  /\ \A i \in Inodes : inode[i].kind = "db" => inode[i].tx > 0
  /\ \A s \in Stagers : stager[s].pc = "copy" =>
       stager[s].fd \in Inodes /\ (stager[s].src.kind = "db" => stager[s].src.tx > 0)

\* Nothing is staged while the server does not run.
StagedWhileUp == phase # "up" => \A s \in Stagers : stager[s].pc = "idle"

\* The database is whole or was moved aside, and then there is one to put in its place.
DatabaseOK ==
  /\ db = Absent \/ (db.kind = "db" /\ (db.tx > 0 \/ misplaced = TRUE))
  /\ phase = "up" => db # Absent
  /\ db = Absent => misplaced = TRUE \/ (phase # "open" /\ pending # "none" /\ inode[pending].kind = "db")

\* Step by step, what ApplyPendingRestore has established of the pending file.
PendingOK ==
  /\ phase \in Applying => pending # "none"
  /\ phase \in Applying \ {"verify"} => inode[pending].kind = "db"
  /\ phase \in {"moveAside", "dropWal", "place"} => inode[pending].sess = FALSE
  /\ applied = TRUE => phase \in {"open", "up"} /\ (phase = "open" => db.sess = FALSE)

RestoreIInv == RestoreTypeOK /\ WholeHasData /\ StagedWhileUp /\ DatabaseOK /\ PendingOK

\* The forms a file takes.
LEMMA FileForms ==
  /\ Absent \in FileRecord /\ Absent.kind = "absent" /\ Absent.sess = FALSE
  /\ Torn \in FileRecord /\ Torn.kind = "torn" /\ Empty \in FileRecord /\ Empty.kind = "empty"
  /\ \A n \in Nat, b \in BOOLEAN : /\ Database(n, b) \in FileRecord /\ Database(n, b).kind = "db"
                                   /\ Database(n, b).tx = n /\ Database(n, b).sess = b
  /\ \A f \in FileRecord : /\ scrubSnapshot(f) \in FileRecord /\ scrubSnapshot(f).sess = FALSE
                           /\ scrubSnapshot(f).kind = f.kind /\ scrubSnapshot(f).tx = f.tx
<1>1. Absent \in FileRecord /\ Absent.sess = FALSE /\ Absent.kind = "absent" BY DEF FileRecord, Absent
<1>2. PICK a : a = Absent OBVIOUS
<1>3. a \in FileRecord BY <1>1, <1>2
<1>4. [a EXCEPT !.kind = "torn"] \in FileRecord /\ [a EXCEPT !.kind = "torn"].kind = "torn" BY <1>3 DEF FileRecord
<1>5. [a EXCEPT !.kind = "empty"] \in FileRecord /\ [a EXCEPT !.kind = "empty"].kind = "empty" BY <1>3 DEF FileRecord
<1>6. Torn \in FileRecord /\ Torn.kind = "torn" /\ Empty \in FileRecord /\ Empty.kind = "empty"
      BY <1>2, <1>4, <1>5 DEF Torn, Empty
<1>7. \A n \in Nat, b \in BOOLEAN : /\ Database(n, b) \in FileRecord /\ Database(n, b).kind = "db"
                                    /\ Database(n, b).tx = n /\ Database(n, b).sess = b
      BY DEF FileRecord, Database
<1>8. \A f \in FileRecord : /\ scrubSnapshot(f) \in FileRecord /\ scrubSnapshot(f).sess = FALSE
                            /\ scrubSnapshot(f).kind = f.kind /\ scrubSnapshot(f).tx = f.tx
      BY DEF FileRecord, scrubSnapshot
<1> QED BY <1>1, <1>6, <1>7, <1>8

\* There is a file left for the temporary name: the pending one and one per request are in use.
LEMMA InodeLeft ==
  ASSUME RestoreTypeOK, tmp = "none"
  PROVE  (CHOOSE j \in FreeInodes : TRUE) \in Inodes
<1>1. PICK g : g = [s \in Stagers |-> stager[s].fd] OBVIOUS
<1>2. PICK R : R = {g[s] : s \in Stagers} OBVIOUS
<1>3. R = {stager[s].fd : s \in Stagers} BY <1>1, <1>2
<1>4. IsFiniteSet(R) /\ Cardinality(R) <= Cardinality(Stagers)
  <2>1. g \in [Stagers -> R] BY <1>1, <1>2
  <2>2. \A y \in R : \E s \in Stagers : g[s] = y BY <1>2
  <2>3. g \in Surjection(Stagers, R) BY <2>1, <2>2 DEF Surjection
  <2> QED BY <2>3, RestoreAssumption, FS_Surjection
<1>5. PICK U : U = R \cup {pending} OBVIOUS
<1>6. PICK n \in Nat : n = Cardinality(R) BY <1>4, FS_CardinalityType
<1>7. IsFiniteSet(U) /\ Cardinality(U) \in {n, n + 1} BY <1>4, <1>5, <1>6, FS_AddElement
<1>8. PICK m \in Nat : m = Cardinality(Stagers) BY RestoreAssumption, FS_CardinalityType
<1>9. PICK k \in Nat : k = Cardinality(Inodes) BY RestoreAssumption, FS_CardinalityType
<1>10. FreeInodes # {}
  <2> SUFFICES ASSUME FreeInodes = {} PROVE FALSE
      OBVIOUS
  <2>1. Inodes \subseteq U BY <1>3, <1>5, RestoreAssumption DEF FreeInodes
  <2>2. Cardinality(Inodes) <= Cardinality(U) BY <1>7, <2>1, FS_Subset
  <2>3. n <= m /\ k > m + 1 BY <1>4, <1>6, <1>8, <1>9, RestoreAssumption
  <2>4. k <= n + 1 BY <1>7, <1>9, <2>2
  <2> QED BY <2>3, <2>4
<1> QED BY <1>10 DEF FreeInodes

\* The server is up on a whole database at first, and nothing is staged.
LEMMA RestoreStart == RestoreInit => RestoreIInv
<1> SUFFICES ASSUME RestoreInit PROVE RestoreIInv
    OBVIOUS
<1>1. NoStager \in StagerRecord /\ NoStager.pc = "idle" BY FileForms DEF NoStager, StagerRecord
<1>2. stager \in [Stagers -> StagerRecord] /\ \A s \in Stagers : stager[s].pc = "idle" BY <1>1 DEF RestoreInit
<1>3. inode \in [Inodes -> FileRecord] /\ \A i \in Inodes : inode[i].kind = "absent" BY FileForms DEF RestoreInit
<1>4. db = Database(1, TRUE) /\ phase = "up" /\ applied = FALSE BY DEF RestoreInit
<1>5. db \in FileRecord /\ db.kind = "db" /\ db.tx = 1 BY <1>4, FileForms
<1>6. RestoreTypeOK BY <1>2, <1>3, <1>5 DEF RestoreInit, RestoreTypeOK
<1>7. WholeHasData BY <1>2, <1>3 DEF WholeHasData
<1>8. db # Absent BY <1>5, FileForms
<1>9. DatabaseOK BY <1>5, <1>8 DEF DatabaseOK
<1>10. StagedWhileUp /\ PendingOK BY <1>4 DEF StagedWhileUp, PendingOK, Applying
<1> QED BY <1>6, <1>7, <1>9, <1>10 DEF RestoreIInv

\* A step on the staged files while the server runs.
LEMMA StagingKeeps ==
  ASSUME RestoreIInv, phase = "up", UNCHANGED <<phase, db, wal, applied, misplaced>>,
         inode' \in [Inodes -> FileRecord], tmp' \in Inodes \cup {"none"}, pending' \in Inodes \cup {"none"},
         stager' \in [Stagers -> StagerRecord], WholeHasData'
  PROVE  RestoreIInv'
<1>1. RestoreTypeOK' BY DEF RestoreIInv, RestoreTypeOK
<1>2. StagedWhileUp' BY DEF StagedWhileUp
<1>3. DatabaseOK' BY DEF RestoreIInv, DatabaseOK
<1>4. PendingOK' BY DEF RestoreIInv, PendingOK, Applying
<1> QED BY <1>1, <1>2, <1>3, <1>4 DEF RestoreIInv

\* A request moves to g, and writes f to a file.
LEMMA StagerMoves ==
  ASSUME RestoreIInv, NEW s \in Stagers, NEW g \in StagerRecord, stager' = [stager EXCEPT ![s] = g],
         g.pc = "copy" => g.fd \in Inodes /\ (g.src.kind = "db" => g.src.tx > 0),
         \/ inode' = inode
         \/ \E i \in Inodes, f \in FileRecord : inode' = [inode EXCEPT ![i] = f] /\ (f.kind = "db" => f.tx > 0)
  PROVE  inode' \in [Inodes -> FileRecord] /\ stager' \in [Stagers -> StagerRecord] /\ WholeHasData'
<1>0. inode \in [Inodes -> FileRecord] /\ stager \in [Stagers -> StagerRecord] /\ WholeHasData
      BY DEF RestoreIInv, RestoreTypeOK
<1>1. /\ stager' \in [Stagers -> StagerRecord] /\ stager'[s] = g
      /\ \A x \in Stagers : x # s => stager'[x] = stager[x]
      BY <1>0
<1>2. inode' \in [Inodes -> FileRecord] /\ \A i \in Inodes : inode'[i].kind = "db" => inode'[i].tx > 0
  <2>1. CASE inode' = inode BY <1>0, <2>1 DEF WholeHasData
  <2>2. ASSUME NEW i \in Inodes, NEW f \in FileRecord, inode' = [inode EXCEPT ![i] = f], f.kind = "db" => f.tx > 0
        PROVE  inode' \in [Inodes -> FileRecord] /\ \A x \in Inodes : inode'[x].kind = "db" => inode'[x].tx > 0
        BY <1>0, <2>2 DEF WholeHasData
  <2> QED BY <2>1, <2>2
<1>3. \A x \in Stagers : stager'[x].pc = "copy" =>
        stager'[x].fd \in Inodes /\ (stager'[x].src.kind = "db" => stager'[x].src.tx > 0)
      BY <1>0, <1>1 DEF WholeHasData
<1> QED BY <1>1, <1>2, <1>3 DEF WholeHasData

\* The restore requests, and the cancellation of a staged restore.
LEMMA StagingStepsKeep ==
  ASSUME RestoreIInv,
         \/ \E s \in Stagers : \/ \E src \in Sources : StageRestore(s, src)
                              \/ CopyDone(s) \/ StageScrub(s) \/ StageRename(s) \/ StageFails(s)
         \/ CancelRestore
  PROVE  RestoreIInv'
<1>0. /\ inode \in [Inodes -> FileRecord] /\ tmp \in Inodes \cup {"none"} /\ pending \in Inodes \cup {"none"}
      /\ stager \in [Stagers -> StagerRecord] /\ RestoreTypeOK /\ WholeHasData /\ StagedWhileUp
      BY DEF RestoreIInv, RestoreTypeOK
<1>1. NoStager \in StagerRecord /\ NoStager.pc = "idle" BY FileForms DEF NoStager, StagerRecord
<1>2. ASSUME NEW s \in Stagers, NEW src \in Sources, StageRestore(s, src) PROVE RestoreIInv'
  <2>1. PICK i : i = IF tmp = "none" THEN CHOOSE j \in FreeInodes : TRUE ELSE tmp OBVIOUS
  <2>2. i \in Inodes BY <1>0, <2>1, InodeLeft
  <2>3. PICK g : g = [pc |-> "copy", src |-> src, fd |-> i] OBVIOUS
  <2>4. src \in FileRecord /\ src.tx = 1
    <3>1. src = Database(1, TRUE) \/ src = Database(1, FALSE) BY DEF Sources
    <3>2. \A b \in BOOLEAN : Database(1, b) \in FileRecord /\ Database(1, b).tx = 1 BY FileForms
    <3> QED BY <3>1, <3>2
  <2>5. g \in StagerRecord /\ g.pc = "copy" /\ g.src = src /\ g.fd = i BY <2>2, <2>3, <2>4 DEF StagerRecord
  <2>6. /\ phase = "up" /\ tmp' = i /\ inode' = [inode EXCEPT ![i] = Torn] /\ stager' = [stager EXCEPT ![s] = g]
        /\ pending' = pending /\ UNCHANGED <<phase, db, wal, applied, misplaced>>
        BY <1>2, <2>1, <2>3 DEF StageRestore, flags
  <2>7. \E x \in Inodes, f \in FileRecord : inode' = [inode EXCEPT ![x] = f] /\ (f.kind = "db" => f.tx > 0)
        BY <2>2, <2>6, FileForms
  <2>8. g.src.tx > 0 BY <2>4, <2>5
  <2>9. inode' \in [Inodes -> FileRecord] /\ stager' \in [Stagers -> StagerRecord] /\ WholeHasData'
        BY <2>2, <2>5, <2>6, <2>7, <2>8, StagerMoves
  <2> QED BY <1>0, <2>2, <2>6, <2>9, StagingKeeps
<1>3. ASSUME NEW s \in Stagers, CopyDone(s) PROVE RestoreIInv'
  <2>1. stager[s].pc = "copy" /\ phase = "up" BY <1>0, <1>3 DEF CopyDone, StagedWhileUp
  <2>2. stager[s].fd \in Inodes /\ stager[s].src \in FileRecord /\ (stager[s].src.kind = "db" => stager[s].src.tx > 0)
        BY <1>0, <2>1 DEF WholeHasData, StagerRecord
  <2>3. PICK g : g = [pc |-> "scrub", src |-> Absent, fd |-> "none"] OBVIOUS
  <2>4. g \in StagerRecord /\ g.pc = "scrub" BY <2>3, FileForms DEF StagerRecord
  <2>5. stager' = [stager EXCEPT ![s] = g] /\ UNCHANGED <<phase, db, wal, tmp, pending, applied, misplaced>>
        BY <1>3, <2>3 DEF CopyDone, flags
  <2>6. PICK f \in {stager[s].src} \cup (IF Shared(s) THEN {Torn} ELSE {}) : inode' = [inode EXCEPT ![stager[s].fd] = f]
        BY <1>3 DEF CopyDone
  <2>7. f \in FileRecord /\ (f.kind = "db" => f.tx > 0) BY <2>2, <2>6, FileForms
  <2>8. \E x \in Inodes, h \in FileRecord : inode' = [inode EXCEPT ![x] = h] /\ (h.kind = "db" => h.tx > 0)
        BY <2>2, <2>6, <2>7
  <2>9. inode' \in [Inodes -> FileRecord] /\ stager' \in [Stagers -> StagerRecord] /\ WholeHasData'
        BY <2>4, <2>5, <2>8, StagerMoves
  <2> QED BY <1>0, <2>1, <2>5, <2>9, StagingKeeps
<1>4. ASSUME NEW s \in Stagers, StageScrub(s) PROVE RestoreIInv'
  <2>1. /\ stager[s].pc = "scrub" /\ phase = "up" /\ stager[s] \in StagerRecord
        /\ UNCHANGED <<phase, db, wal, pending, applied, misplaced>>
        BY <1>0, <1>4 DEF StageScrub, StagedWhileUp, flags
  <2>2. PICK g : g = [stager[s] EXCEPT !.pc = "rename"] OBVIOUS
  <2>3. g \in StagerRecord /\ g.pc = "rename" BY <2>1, <2>2 DEF StagerRecord
  <2>4. CASE tmp = "none"
    <3>1. PICK i : i = CHOOSE j \in FreeInodes : TRUE OBVIOUS
    <3>2. i \in Inodes BY <1>0, <2>4, <3>1, InodeLeft
    <3>3. tmp' = i /\ inode' = [inode EXCEPT ![i] = Empty] /\ stager' = [stager EXCEPT ![s] = g]
          BY <1>0, <1>4, <2>2, <2>4, <3>1 DEF StageScrub
    <3>4. \E x \in Inodes, h \in FileRecord : inode' = [inode EXCEPT ![x] = h] /\ (h.kind = "db" => h.tx > 0)
          BY <3>2, <3>3, FileForms
    <3>5. inode' \in [Inodes -> FileRecord] /\ stager' \in [Stagers -> StagerRecord] /\ WholeHasData'
          BY <2>3, <3>3, <3>4, StagerMoves
    <3> QED BY <1>0, <2>1, <3>2, <3>3, <3>5, StagingKeeps
  <2>5. CASE tmp # "none" /\ inode[tmp].kind = "torn"
    <3>1. tmp' = "none" /\ stager' = [stager EXCEPT ![s] = NoStager] /\ inode' = inode
          BY <1>4, <2>5 DEF StageScrub
    <3>2. inode' \in [Inodes -> FileRecord] /\ stager' \in [Stagers -> StagerRecord] /\ WholeHasData'
          BY <1>1, <3>1, StagerMoves
    <3> QED BY <1>0, <2>1, <3>1, <3>2, StagingKeeps
  <2>6. CASE tmp # "none" /\ inode[tmp].kind # "torn"
    <3>1. tmp \in Inodes /\ inode[tmp] \in FileRecord BY <1>0, <2>6
    <3>2. PICK f : f = scrubSnapshot(inode[tmp]) OBVIOUS
    <3>3. f \in FileRecord /\ (f.kind = "db" => f.tx > 0) BY <1>0, <3>1, <3>2, FileForms DEF WholeHasData
    <3>4. inode' = [inode EXCEPT ![tmp] = f] /\ stager' = [stager EXCEPT ![s] = g] /\ tmp' = tmp
          BY <1>0, <1>4, <2>2, <2>6, <3>1, <3>2 DEF StageScrub
    <3>5. \E x \in Inodes, h \in FileRecord : inode' = [inode EXCEPT ![x] = h] /\ (h.kind = "db" => h.tx > 0)
          BY <3>1, <3>3, <3>4
    <3>6. inode' \in [Inodes -> FileRecord] /\ stager' \in [Stagers -> StagerRecord] /\ WholeHasData'
          BY <2>3, <3>4, <3>5, StagerMoves
    <3> QED BY <1>0, <2>1, <3>4, <3>6, StagingKeeps
  <2> QED BY <2>4, <2>5, <2>6
<1>5. ASSUME NEW s \in Stagers, StageRename(s) PROVE RestoreIInv'
  <2>1. /\ phase = "up" /\ UNCHANGED <<phase, db, wal, inode, applied, misplaced>>
        /\ tmp' = "none" /\ stager' = [stager EXCEPT ![s] = NoStager] /\ pending' \in {pending, tmp}
        BY <1>0, <1>5 DEF StageRename, StagedWhileUp, flags
  <2>2. inode' \in [Inodes -> FileRecord] /\ stager' \in [Stagers -> StagerRecord] /\ WholeHasData'
        BY <1>1, <2>1, StagerMoves
  <2> QED BY <1>0, <2>1, <2>2, StagingKeeps
<1>6. CASE CancelRestore
  <2>1. /\ phase = "up" /\ UNCHANGED <<phase, db, wal, tmp, stager, applied, misplaced>>
        /\ pending \in Inodes /\ pending' = "none" /\ inode' = [inode EXCEPT ![pending] = Absent]
        BY <1>0, <1>6 DEF CancelRestore, Unlink, flags
  <2>2. inode' \in [Inodes -> FileRecord] BY <1>0, <2>1, FileForms
  <2>3. WholeHasData' BY <1>0, <2>1, FileForms DEF WholeHasData
  <2> QED BY <1>0, <2>1, <2>2, <2>3, StagingKeeps
<1>7. ASSUME NEW s \in Stagers, StageFails(s) PROVE RestoreIInv'
  <2>1. /\ stager' = [stager EXCEPT ![s] = NoStager] /\ stager[s].pc # "idle"
        /\ UNCHANGED <<phase, db, wal, pending, applied, misplaced>> /\ tmp' \in {tmp, "none"}
        BY <1>7 DEF StageFails, flags
  <2>2. phase = "up" BY <1>0, <2>1 DEF StagedWhileUp
  <2>3. \/ inode' = inode
        \/ \E i \in Inodes, f \in FileRecord : inode' = [inode EXCEPT ![i] = f] /\ (f.kind = "db" => f.tx > 0)
    <3>1. CASE stager[s].pc = "copy"
      <4>1. stager[s].fd \in Inodes BY <1>0, <3>1 DEF WholeHasData
      <4>2. PICK f \in {Torn, inode[stager[s].fd]} : inode' = [inode EXCEPT ![stager[s].fd] = f]
            BY <1>7, <3>1 DEF StageFails
      <4>3. f \in FileRecord /\ (f.kind = "db" => f.tx > 0) BY <1>0, <4>1, FileForms DEF WholeHasData
      <4> QED BY <4>1, <4>2, <4>3
    <3>2. CASE stager[s].pc # "copy" BY <1>7, <3>2 DEF StageFails
    <3> QED BY <3>1, <3>2
  <2>4. inode' \in [Inodes -> FileRecord] /\ stager' \in [Stagers -> StagerRecord] /\ WholeHasData'
        BY <1>1, <2>1, <2>3, StagerMoves
  <2> QED BY <1>0, <2>1, <2>2, <2>4, StagingKeeps
<1> QED BY <1>2, <1>3, <1>4, <1>5, <1>6, <1>7

\* Transactions, the end of the process, and its start.
LEMMA ServerStepsKeep ==
  ASSUME RestoreIInv,
         \/ Commit \/ Checkpoint
         \/ Stop \/ Boot \/ BootVerify \/ BootReject \/ BootScrub \/ MoveAside \/ DropWal \/ Place \/ RenameFails \/ Open
  PROVE  RestoreIInv'
<1>0. /\ inode \in [Inodes -> FileRecord] /\ tmp \in Inodes \cup {"none"} /\ pending \in Inodes \cup {"none"}
      /\ stager \in [Stagers -> StagerRecord] /\ db \in FileRecord /\ wal \in Nat
      /\ applied \in BOOLEAN /\ misplaced \in BOOLEAN /\ db.tx \in Nat
      BY DEF RestoreIInv, RestoreTypeOK, FileRecord
<1>1. WholeHasData /\ StagedWhileUp /\ DatabaseOK /\ PendingOK BY DEF RestoreIInv
<1>2. CASE Commit
  <2>1. PICK f : f = [db EXCEPT !.sess = TRUE] OBVIOUS
  <2>2. f \in FileRecord /\ f.kind = db.kind /\ f.tx = db.tx BY <1>0, <2>1 DEF FileRecord
  <2>3. phase = "up" /\ db' = f /\ wal' = Live + 1 /\ UNCHANGED <<phase, inode, tmp, pending, stager, applied, misplaced>>
        BY <1>2, <2>1 DEF Commit, files, flags
  <2>4. wal' \in Nat BY <1>0, <2>3 DEF Live
  <2>5. f # Absent /\ f.kind = "db" BY <1>1, <2>2, <2>3, FileForms DEF DatabaseOK
  <2>6. RestoreTypeOK' BY <2>2, <2>3, <2>4 DEF RestoreIInv, RestoreTypeOK
  <2>7. WholeHasData' /\ StagedWhileUp' BY <1>1, <2>3 DEF WholeHasData, StagedWhileUp
  <2>8. DatabaseOK' BY <1>1, <2>2, <2>3, <2>5 DEF DatabaseOK
  <2>9. PendingOK' BY <1>1, <2>3 DEF PendingOK, Applying
  <2> QED BY <2>6, <2>7, <2>8, <2>9 DEF RestoreIInv
<1>3. CASE Checkpoint
  <2>1. PICK f : f = [db EXCEPT !.tx = wal] OBVIOUS
  <2>2. f \in FileRecord /\ f.kind = db.kind /\ f.tx = wal BY <1>0, <2>1 DEF FileRecord
  <2>3. /\ phase = "up" /\ db' = f /\ wal' = 0 /\ UNCHANGED <<phase, inode, tmp, pending, stager, applied, misplaced>>
        /\ wal > db.tx
        BY <1>3, <2>1 DEF Checkpoint, files, flags
  <2>4. f.tx > 0 BY <1>0, <2>2, <2>3
  <2>5. f # Absent /\ f.kind = "db" BY <1>1, <2>2, <2>3, FileForms DEF DatabaseOK
  <2>6. RestoreTypeOK' BY <2>2, <2>3 DEF RestoreIInv, RestoreTypeOK
  <2>7. WholeHasData' /\ StagedWhileUp' BY <1>1, <2>3 DEF WholeHasData, StagedWhileUp
  <2>8. DatabaseOK' BY <2>3, <2>4, <2>5 DEF DatabaseOK
  <2>9. PendingOK' BY <1>1, <2>3 DEF PendingOK, Applying
  <2> QED BY <2>6, <2>7, <2>8, <2>9 DEF RestoreIInv
<1>4. CASE Stop
  <2>1. NoStager \in StagerRecord /\ NoStager.pc = "idle" BY FileForms DEF NoStager, StagerRecord
  <2>2. /\ phase' = "down" /\ applied' = FALSE /\ stager' = [s \in Stagers |-> NoStager]
        /\ UNCHANGED <<db, wal, inode, tmp, pending, misplaced>>
        BY <1>4 DEF Stop, files
  <2>3. stager' \in [Stagers -> StagerRecord] /\ \A s \in Stagers : stager'[s].pc = "idle" BY <2>1, <2>2
  <2>4. RestoreTypeOK' BY <1>0, <2>2, <2>3 DEF RestoreTypeOK
  <2>5. WholeHasData' /\ StagedWhileUp' BY <1>1, <2>2, <2>3 DEF WholeHasData, StagedWhileUp
  <2>6. DatabaseOK' BY <1>1, <2>2 DEF DatabaseOK
  <2>7. PendingOK' BY <2>2 DEF PendingOK, Applying
  <2> QED BY <2>4, <2>5, <2>6, <2>7 DEF RestoreIInv
<1>5. CASE Boot
  <2>1. /\ phase = "down" /\ phase' = IF pending = "none" THEN "open" ELSE "verify"
        /\ UNCHANGED <<db, wal, inode, tmp, pending, stager, applied, misplaced>>
        BY <1>5 DEF Boot, files, flags
  <2>2. applied = FALSE BY <1>0, <1>1, <2>1 DEF PendingOK
  <2>3. RestoreTypeOK' BY <1>0, <2>1 DEF RestoreTypeOK, Applying
  <2>4. WholeHasData' /\ StagedWhileUp' BY <1>1, <2>1 DEF WholeHasData, StagedWhileUp
  <2>5. DatabaseOK' BY <1>1, <2>1 DEF DatabaseOK
  <2>6. PendingOK' BY <1>1, <2>1, <2>2 DEF PendingOK, Applying
  <2> QED BY <2>3, <2>4, <2>5, <2>6 DEF RestoreIInv
<1>6. CASE BootVerify
  <2>1. /\ phase = "verify" /\ phase' = "scrub" /\ UNCHANGED <<db, wal, inode, pending, tmp, stager, applied, misplaced>>
        /\ pending \in Inodes /\ inode[pending].kind = "db"
        BY <1>0, <1>1, <1>6 DEF BootVerify, verifySQLiteFile, files, flags, PendingOK, Applying
  <2>2. applied = FALSE BY <1>0, <1>1, <2>1 DEF PendingOK
  <2>3. RestoreTypeOK' BY <1>0, <2>1 DEF RestoreTypeOK, Applying
  <2>4. WholeHasData' /\ StagedWhileUp' BY <1>1, <2>1 DEF WholeHasData, StagedWhileUp
  <2>5. DatabaseOK' BY <1>1, <2>1 DEF DatabaseOK
  <2>6. PendingOK' BY <1>1, <2>1, <2>2 DEF PendingOK, Applying
  <2> QED BY <2>3, <2>4, <2>5, <2>6 DEF RestoreIInv
<1>13. CASE BootReject
  <2>1. /\ phase \in {"verify", "scrub"} /\ phase' = "open" /\ UNCHANGED <<db, wal, tmp, stager, applied>>
        /\ pending \in Inodes
        BY <1>0, <1>1, <1>13 DEF BootReject, PendingOK, Applying
  <2>2. applied = FALSE BY <1>0, <1>1, <2>1 DEF PendingOK
  <2>3. misplaced' \in BOOLEAN /\ (misplaced = TRUE => misplaced' = TRUE) /\ (db = Absent => misplaced' = TRUE)
        BY <1>0, <1>13 DEF BootReject
  <2>4. /\ inode' \in [Inodes -> FileRecord] /\ pending' \in Inodes \cup {"none"}
        /\ \A i \in Inodes : inode'[i].kind = "db" => inode'[i].tx > 0
    <3>1. CASE pending' = pending /\ inode' = inode BY <1>0, <1>1, <3>1 DEF WholeHasData
    <3>2. CASE pending' = "none" /\ inode' = [inode EXCEPT ![pending] = Absent]
          BY <1>0, <1>1, <2>1, <3>2, FileForms DEF WholeHasData
    <3> QED BY <1>13, <3>1, <3>2 DEF BootReject, Unlink
  <2>5. RestoreTypeOK' BY <1>0, <2>1, <2>3, <2>4 DEF RestoreTypeOK
  <2>6. WholeHasData' BY <1>1, <2>1, <2>4 DEF WholeHasData
  <2>7. StagedWhileUp' BY <1>1, <2>1 DEF StagedWhileUp
  <2>8. DatabaseOK' BY <1>1, <2>1, <2>3 DEF DatabaseOK
  <2>9. PendingOK' BY <2>1, <2>2 DEF PendingOK, Applying
  <2> QED BY <2>5, <2>6, <2>7, <2>8, <2>9 DEF RestoreIInv
<1>7. CASE BootScrub
  <2>1. /\ phase = "scrub" /\ phase' = "moveAside" /\ UNCHANGED <<db, wal, tmp, pending, stager, applied, misplaced>>
        /\ pending \in Inodes /\ inode[pending].kind = "db" /\ inode[pending] \in FileRecord
        BY <1>0, <1>1, <1>7 DEF BootScrub, flags, PendingOK, Applying
  <2>2. applied = FALSE BY <1>0, <1>1, <2>1 DEF PendingOK
  <2>3. PICK f : f = scrubSnapshot(inode[pending]) OBVIOUS
  <2>4. f \in FileRecord /\ f.kind = "db" /\ f.sess = FALSE /\ f.tx = inode[pending].tx BY <2>1, <2>3, FileForms
  <2>5. inode' = [inode EXCEPT ![pending] = f] BY <1>0, <1>7, <2>1, <2>3 DEF BootScrub
  <2>6. /\ inode' \in [Inodes -> FileRecord] /\ inode'[pending] = f
        /\ \A i \in Inodes : i # pending => inode'[i] = inode[i]
        BY <1>0, <2>1, <2>4, <2>5
  <2>7. RestoreTypeOK' BY <1>0, <2>1, <2>6 DEF RestoreTypeOK, Applying
  <2>8. WholeHasData' BY <1>1, <2>1, <2>4, <2>6 DEF WholeHasData
  <2>9. StagedWhileUp' BY <1>1, <2>1 DEF StagedWhileUp
  <2>10. DatabaseOK' BY <1>1, <2>1, <2>4, <2>6 DEF DatabaseOK
  <2>11. PendingOK' BY <1>1, <2>1, <2>2, <2>4, <2>6 DEF PendingOK, Applying
  <2> QED BY <2>7, <2>8, <2>9, <2>10, <2>11 DEF RestoreIInv
<1>8. CASE MoveAside
  <2>1. /\ phase = "moveAside" /\ phase' = "dropWal" /\ db' = Absent
        /\ UNCHANGED <<wal, inode, tmp, pending, stager, applied, misplaced>>
        BY <1>8 DEF MoveAside, files, flags
  <2>2. applied = FALSE BY <1>0, <1>1, <2>1 DEF PendingOK
  <2>3. RestoreTypeOK' BY <1>0, <2>1, FileForms DEF RestoreTypeOK, Applying
  <2>4. WholeHasData' /\ StagedWhileUp' BY <1>1, <2>1 DEF WholeHasData, StagedWhileUp
  <2>5. DatabaseOK' BY <1>1, <2>1 DEF DatabaseOK, PendingOK, Applying
  <2>6. PendingOK' BY <1>1, <2>1, <2>2 DEF PendingOK, Applying
  <2> QED BY <2>3, <2>4, <2>5, <2>6 DEF RestoreIInv
<1>9. CASE DropWal
  <2>1. /\ phase = "dropWal" /\ phase' = "place" /\ wal' = 0
        /\ UNCHANGED <<db, inode, tmp, pending, stager, applied, misplaced>>
        BY <1>9 DEF DropWal, files, flags
  <2>2. applied = FALSE BY <1>0, <1>1, <2>1 DEF PendingOK
  <2>3. RestoreTypeOK' BY <1>0, <2>1 DEF RestoreTypeOK, Applying
  <2>4. WholeHasData' /\ StagedWhileUp' BY <1>1, <2>1 DEF WholeHasData, StagedWhileUp
  <2>5. DatabaseOK' BY <1>1, <2>1 DEF DatabaseOK
  <2>6. PendingOK' BY <1>1, <2>1, <2>2 DEF PendingOK, Applying
  <2> QED BY <2>3, <2>4, <2>5, <2>6 DEF RestoreIInv
<1>10. CASE Place
  <2>1. /\ phase = "place" /\ phase' = "open" /\ applied' = TRUE /\ db' = inode[pending] /\ pending' = "none"
        /\ inode' = [inode EXCEPT ![pending] = Absent] /\ misplaced' = FALSE /\ UNCHANGED <<wal, tmp, stager>>
        BY <1>10 DEF Place, Unlink
  <2>2. pending \in Inodes /\ inode[pending].kind = "db" /\ inode[pending].sess = FALSE /\ inode[pending] \in FileRecord
        BY <1>0, <1>1, <2>1 DEF PendingOK, Applying
  <2>3. db'.tx > 0 /\ db'.kind = "db" /\ db' # Absent BY <1>1, <2>1, <2>2, FileForms DEF WholeHasData
  <2>4. inode' \in [Inodes -> FileRecord] BY <1>0, <2>1, <2>2, FileForms
  <2>5. RestoreTypeOK' BY <1>0, <2>1, <2>2, <2>4 DEF RestoreTypeOK
  <2>6. WholeHasData' BY <1>0, <1>1, <2>1, <2>2, FileForms DEF WholeHasData
  <2>7. StagedWhileUp' BY <1>1, <2>1 DEF StagedWhileUp
  <2>8. DatabaseOK' BY <2>1, <2>3 DEF DatabaseOK
  <2>9. PendingOK' BY <2>1, <2>2 DEF PendingOK, Applying
  <2> QED BY <2>5, <2>6, <2>7, <2>8, <2>9 DEF RestoreIInv
<1>11. CASE RenameFails
  <2>1. /\ phase = "place" \/ (phase = "moveAside" /\ db # Absent)
        /\ phase' = "open" /\ UNCHANGED <<db, wal, inode, tmp, pending, stager, applied>>
        BY <1>11 DEF RenameFails, files
  <2>2. misplaced' \in BOOLEAN /\ (misplaced = TRUE => misplaced' = TRUE) /\ (phase = "place" => misplaced' = TRUE)
        BY <1>0, <1>11 DEF RenameFails
  <2>3. applied = FALSE BY <1>0, <1>1, <2>1 DEF PendingOK
  <2>4. RestoreTypeOK' BY <1>0, <2>1, <2>2 DEF RestoreTypeOK
  <2>5. WholeHasData' /\ StagedWhileUp' BY <1>1, <2>1 DEF WholeHasData, StagedWhileUp
  <2>6. DatabaseOK' BY <1>1, <2>1, <2>2 DEF DatabaseOK
  <2>7. PendingOK' BY <2>1, <2>3 DEF PendingOK, Applying
  <2> QED BY <2>4, <2>5, <2>6, <2>7 DEF RestoreIInv
<1>12. CASE Open
  <2>1. /\ phase = "open" /\ phase' = "up" /\ UNCHANGED <<wal, inode, tmp, pending, stager, applied, misplaced>>
        /\ db' = IF db = Absent THEN Database(0, FALSE) ELSE db
        BY <1>12 DEF Open, files, flags
  <2>2. Database(0, FALSE) \in FileRecord /\ Database(0, FALSE).kind = "db" /\ Database(0, FALSE) # Absent
        BY FileForms
  <2>3. db' \in FileRecord /\ db' # Absent /\ db'.kind = "db" /\ (db'.tx > 0 \/ misplaced = TRUE)
        BY <1>0, <1>1, <2>1, <2>2 DEF DatabaseOK
  <2>4. RestoreTypeOK' BY <1>0, <2>1, <2>3 DEF RestoreTypeOK
  <2>5. WholeHasData' /\ StagedWhileUp' BY <1>1, <2>1 DEF WholeHasData, StagedWhileUp
  <2>6. DatabaseOK' BY <2>1, <2>3 DEF DatabaseOK
  <2>7. PendingOK' BY <2>1 DEF PendingOK, Applying
  <2> QED BY <2>4, <2>5, <2>6, <2>7 DEF RestoreIInv
<1> QED BY <1>2, <1>3, <1>4, <1>5, <1>6, <1>7, <1>8, <1>9, <1>10, <1>11, <1>12, <1>13

\* Restoring a backup (backup.go): whatever was staged, by however many requests writing to the same
\* temporary name, and wherever the process ended between the renames of ApplyPendingRestore, the
\* server comes up on the database it had or on a whole snapshot, unless a start could not put the
\* staged file in place, or refused it, with the database already moved aside;
\* and what a restore put in place holds no session when it is opened.
THEOREM RestoresAreSound == RestoreSpec => []RestoreSound
<1>1. RestoreInit => RestoreIInv BY RestoreStart
<1>2. RestoreIInv /\ [RestoreNext]_restoreVars => RestoreIInv'
  <2>1. ASSUME RestoreIInv, UNCHANGED restoreVars PROVE RestoreIInv'
        BY <2>1 DEF restoreVars, RestoreIInv, RestoreTypeOK, WholeHasData, StagedWhileUp, DatabaseOK, PendingOK
  <2>2. ASSUME RestoreIInv, RestoreNext PROVE RestoreIInv'
        BY <2>2, StagingStepsKeep, ServerStepsKeep DEF RestoreNext
  <2> QED BY <2>1, <2>2
<1>3. RestoreIInv => RestoreSound
  <2> SUFFICES ASSUME RestoreIInv PROVE RestoreSound
      OBVIOUS
  <2>1. misplaced \in BOOLEAN /\ applied \in BOOLEAN BY DEF RestoreIInv, RestoreTypeOK
  <2>2. ServesWholeDatabase BY <2>1 DEF RestoreIInv, DatabaseOK, ServesWholeDatabase
  <2>3. RestoreBringsNoSessions BY <2>1 DEF RestoreIInv, PendingOK, RestoreBringsNoSessions
  <2> QED BY <2>2, <2>3 DEF RestoreSound
<1> QED BY <1>1, <1>2, <1>3, PTL DEF RestoreSpec

--------------------------------------------------------------------------------
(* The command log (CommandLog).                                             *)

\* Induction over the naturals, for a set.
LEMMA UpFromZero ==
  ASSUME NEW T, 0 \in T, \A n \in Nat : n \in T => n + 1 \in T
  PROVE  Nat \subseteq T
<1> SUFFICES ASSUME Nat \ T # {} PROVE FALSE
    OBVIOUS
<1>1. PICK n \in Nat \ T : \A m \in Nat \ T : ~(<<m, n>> \in OpToRel(<, Nat))
      BY NatLessThanWellFounded, WFMin
<1>2. n # 0 /\ n - 1 \in Nat /\ (n - 1) + 1 = n
      OBVIOUS
<1>3. <<n - 1, n>> \in OpToRel(<, Nat)
      BY <1>2 DEF OpToRel
<1> QED BY <1>1, <1>2, <1>3

\* The first of some places.
LEMMA FirstPlace ==
  ASSUME NEW E \in SUBSET Nat, NEW n
  PROVE  /\ E = {} => FirstOf(E, n) = n
         /\ E # {} => FirstOf(E, n) \in E /\ \A k \in E : FirstOf(E, n) <= k
<1>1. ASSUME E # {} PROVE FirstOf(E, n) \in E /\ \A k \in E : FirstOf(E, n) <= k
  <2>1. PICK e \in E : \A k \in E : ~(<<k, e>> \in OpToRel(<, Nat))
        BY <1>1, NatLessThanWellFounded, WFMin
  <2>2. \A k \in E : e <= k
    <3> SUFFICES ASSUME NEW k \in E, k < e PROVE FALSE
        OBVIOUS
    <3>1. <<k, e>> \in OpToRel(<, Nat) BY DEF OpToRel
    <3> QED BY <2>1, <3>1
  <2> DEFINE Q(k) == k \in E /\ \A x \in E : k =< x
  <2>3. \E k : Q(k) BY <2>2
  <2>4. FirstOf(E, n) = CHOOSE k : Q(k) BY <1>1 DEF FirstOf
  <2> HIDE DEF Q
  <2>5. Q(FirstOf(E, n)) BY <2>3, <2>4
  <2> QED BY <2>5 DEF Q
<1>2. E = {} => FirstOf(E, n) = n BY DEF FirstOf
<1> QED BY <1>1, <1>2

NumberBody(d, f, k) == IF k = 0 THEN 0 ELSE 10 * f[k - 1] + Value(d[k])

\* Digits make a number.
LEMMA DigitsMakeNumber ==
  ASSUME NEW d, Len(d) \in Nat, \A k \in 1 .. Len(d) : d[k] \in Digits
  PROVE  NumberUpTo(d)[Len(d)] \in Nat
<1> DEFINE T == {m \in Nat : \E f : f = [n \in 0..m |-> NumberBody(d, f, n)]}
<1>1. 0 \in T
  <2>1. [n \in 0..0 |-> 0] = [n \in 0..0 |-> NumberBody(d, [k \in 0..0 |-> 0], n)]
        BY DEF NumberBody
  <2> QED BY <2>1
<1>2. ASSUME NEW m \in Nat, m \in T PROVE m + 1 \in T
  <2>1. PICK f : f = [n \in 0..m |-> NumberBody(d, f, n)] BY <1>2
  <2> DEFINE g == [n \in 0..(m + 1) |-> IF n = m + 1 THEN NumberBody(d, f, n) ELSE f[n]]
  <2>2. \A n \in 0..m : g[n] = f[n] OBVIOUS
  <2>3. ASSUME NEW n \in 0..(m + 1) PROVE g[n] = NumberBody(d, g, n)
    <3>1. NumberBody(d, g, n) = NumberBody(d, f, n)
      <4>1. CASE n = 0 BY <4>1 DEF NumberBody
      <4>2. CASE n # 0
        <5>1. n - 1 \in 0..m BY <4>2
        <5>2. g[n - 1] = f[n - 1] BY <5>1, <2>2
        <5> HIDE DEF g
        <5> QED BY <5>2 DEF NumberBody
      <4> QED BY <4>1, <4>2
    <3>2. n # m + 1 => f[n] = NumberBody(d, f, n)
      <4> SUFFICES ASSUME n # m + 1 PROVE f[n] = NumberBody(d, f, n)
          OBVIOUS
      <4>1. n \in 0..m OBVIOUS
      <4> QED BY <4>1, <2>1
    <3> QED BY <3>1, <3>2
  <2>4. g = [n \in 0..(m + 1) |-> NumberBody(d, g, n)]
    <3>1. g = [n \in 0..(m + 1) |-> g[n]] OBVIOUS
    <3> HIDE DEF g
    <3> QED BY <3>1, <2>3
  <2> HIDE DEF g
  <2> QED BY <2>4
<1>3. Len(d) \in T
  <2> HIDE DEF T
  <2> QED BY <1>1, <1>2, UpFromZero
<1>4. \E f : f = [n \in 0..Len(d) |-> NumberBody(d, f, n)] BY <1>3
<1> DEFINE h == NumberUpTo(d)
<1>5. h = [n \in 0..Len(d) |-> NumberBody(d, h, n)] BY <1>4, Zenon DEF NumberUpTo, NumberBody
<1> HIDE DEF h
<1> DEFINE U == {m \in Nat : m <= Len(d) => h[m] \in Nat}
<1>6. 0 \in U
  <2>1. 0 \in 0..Len(d) OBVIOUS
  <2>2. h[0] = NumberBody(d, h, 0) BY <1>5, <2>1
  <2> QED BY <2>2 DEF NumberBody
<1>7. ASSUME NEW m \in Nat, m \in U PROVE m + 1 \in U
  <2> SUFFICES ASSUME m + 1 <= Len(d) PROVE h[m + 1] \in Nat
      OBVIOUS
  <2>1. h[m] \in Nat /\ m + 1 \in 0..Len(d) /\ m + 1 # 0 /\ (m + 1) - 1 = m /\ d[m + 1] \in Digits BY <1>7
  <2>2. h[m + 1] = 10 * h[m] + Value(d[m + 1]) BY <1>5, <2>1 DEF NumberBody
  <2>3. Value(d[m + 1]) \in Nat BY <2>1 DEF Value, Digits
  <2> QED BY <2>1, <2>2, <2>3
<1>8. Len(d) \in U
  <2> HIDE DEF U
  <2> QED BY <1>6, <1>7, UpFromZero
<1>9. h[Len(d)] \in Nat BY <1>8
<1> QED BY <1>9 DEF h

\* A parameter that is not there or not a number is 1.
LEMMA ParameterPositive ==
  ASSUME NEW S, NEW params \in Seq(S)
  PROVE  csiParam(params, 1) \in Nat /\ csiParam(params, 1) >= 1
<1> DEFINE E == {k \in 1 .. Len(params) : params[k] = "SEMICOLON"}
           m == FirstOf(E, Len(params) + 1) - 1
           head == SubSeq(params, 1, m)
           n == NumberUpTo(head)[Len(head)]
<1>1. E \in SUBSET Nat BY DEF E
<1>2. m \in 0 .. Len(params)
  <2> HIDE DEF E
  <2>1. CASE E = {}
    <3>1. m = (Len(params) + 1) - 1 BY <1>1, <2>1, FirstPlace
    <3> HIDE DEF m
    <3> QED BY <3>1
  <2>2. CASE E # {}
    <3>1. FirstOf(E, Len(params) + 1) \in E BY <1>1, <2>2, FirstPlace
    <3> QED BY <3>1 DEF E
  <2> QED BY <2>1, <2>2
<1> HIDE DEF m
<1>3. Len(head) \in Nat BY <1>2
<1> HIDE DEF head
<1>4. (\A k \in 1 .. Len(head) : head[k] \in Digits) => n \in Nat BY <1>3, DigitsMakeNumber
<1>5. csiParam(params, 1) = IF (\A k \in 1 .. Len(head) : head[k] \in Digits) /\ n > 0 THEN n ELSE 1
      BY DEF csiParam, head, m
<1> HIDE DEF n
<1> QED BY <1>4, <1>5

\* The bytes seen, and a tracker with its cursor in the line.
Seen == Printed \cup Shown \cup {"x", "ESC", "[", "D", "NUL"}
Trackers == {t \in [line : Seq(Seen), col : Nat, escBuf : {<< >>}] : t.col <= Len(t.line)}

\* The line before a place and from it on.
LEMMA LineCut ==
  ASSUME NEW S, NEW l \in Seq(S), NEW c \in 0 .. Len(l)
  PROVE  /\ SubSeq(l, 1, c) \in Seq(S) /\ Len(SubSeq(l, 1, c)) = c
         /\ SubSeq(l, c + 1, Len(l)) \in Seq(S) /\ Len(SubSeq(l, c + 1, Len(l))) = Len(l) - c
<1>1. c \in Nat /\ c + 1 \in Nat /\ Len(l) \in Nat /\ c <= Len(l) OBVIOUS
<1>2. SubSeq(l, 1, c) \in Seq(S) /\ Len(SubSeq(l, 1, c)) = c BY <1>1
<1>3. SubSeq(l, c + 1, Len(l)) \in Seq(S) /\ Len(SubSeq(l, c + 1, Len(l))) = Len(l) - c BY <1>1
<1> QED BY <1>2, <1>3

\* Lines joined.
LEMMA LinesJoin ==
  ASSUME NEW x \in Seq(Seen), NEW y \in Seq(Seen)
  PROVE  x \o y \in Seq(Seen) /\ Len(x \o y) = Len(x) + Len(y) /\ Len(y) \in Nat
BY ConcatProperties

\* Three of them, in either order.
LEMMA LinesJoinThree ==
  ASSUME NEW x \in Seq(Seen), NEW y \in Seq(Seen), NEW z \in Seq(Seen)
  PROVE  (x \o y) \o z = x \o (y \o z)
BY ConcatAssociative

\* A tracker with another line and cursor.
LEMMA TrackerMade ==
  ASSUME NEW t \in Trackers
  PROVE  /\ \A m \in Seq(Seen) : t.col <= Len(m) => [t EXCEPT !.line = m] \in Trackers
         /\ \A k \in Nat : k <= Len(t.line) => [t EXCEPT !.col = k] \in Trackers
         /\ \A m \in Seq(Seen), k \in Nat : k <= Len(m) => [t EXCEPT !.line = m, !.col = k] \in Trackers
<1> DEFINE R == [line : Seq(Seen), col : Nat, escBuf : {<< >>}]
<1>1. t \in R /\ t.col <= Len(t.line) BY DEF Trackers
<1>2. ASSUME NEW m \in Seq(Seen), t.col <= Len(m) PROVE [t EXCEPT !.line = m] \in Trackers
  <2> DEFINE z == [t EXCEPT !.line = m]
  <2>1. z \in R /\ z.col = t.col /\ z.line = m BY <1>1
  <2> HIDE DEF z
  <2> QED BY <1>2, <2>1 DEF Trackers, z
<1>3. ASSUME NEW k \in Nat, k <= Len(t.line) PROVE [t EXCEPT !.col = k] \in Trackers
  <2> DEFINE z == [t EXCEPT !.col = k]
  <2>1. z \in R /\ z.col = k /\ z.line = t.line BY <1>1
  <2> HIDE DEF z
  <2> QED BY <1>3, <2>1 DEF Trackers, z
<1>4. ASSUME NEW m \in Seq(Seen), NEW k \in Nat, k <= Len(m) PROVE [t EXCEPT !.line = m, !.col = k] \in Trackers
  <2> DEFINE z == [t EXCEPT !.line = m, !.col = k]
  <2>1. z \in R /\ z.col = k /\ z.line = m BY <1>1
  <2> HIDE DEF z
  <2> QED BY <1>4, <2>1 DEF Trackers, z
<1> QED BY <1>2, <1>3, <1>4

\* A byte leaves the cursor in the line.
LEMMA FeedByteTyped ==
  ASSUME NEW t \in Trackers, NEW b \in Seen
  PROVE  feedByte(t, b) \in Trackers
<1> DEFINE l == t.line
           c == t.col
<1>1. l \in Seq(Seen) /\ c \in 0 .. Len(l) /\ Len(l) \in Nat BY DEF Trackers
<1>2. CASE b = "CR"
  <2>1. feedByte(t, b) = [t EXCEPT !.line = << >>, !.col = 0] BY <1>2 DEF feedByte
  <2>2. << >> \in Seq(Seen) /\ 0 <= Len(<< >>) OBVIOUS
  <2>3. [t EXCEPT !.line = << >>, !.col = 0] \in Trackers BY <2>2, TrackerMade
  <2> QED BY <2>1, <2>3
<1>3. CASE b = "BEL" BY <1>3 DEF feedByte
<1>4. CASE b = "BS"
  <2>1. CASE c = 0 BY <1>4, <2>1 DEF feedByte
  <2>2. CASE c # 0
    <3> DEFINE u == SubSeq(l, 1, c - 1)
               v == SubSeq(l, c + 1, Len(l))
    <3>1. feedByte(t, b) = [t EXCEPT !.line = u \o v, !.col = c - 1] BY <1>4, <2>2 DEF feedByte, From
    <3>2. c - 1 \in 0 .. Len(l) BY <1>1, <2>2
    <3>3. u \in Seq(Seen) /\ Len(u) = c - 1 /\ v \in Seq(Seen) BY <1>1, <3>2, LineCut
    <3> HIDE DEF u, v, l, c
    <3>4. u \o v \in Seq(Seen) /\ Len(u \o v) = Len(u) + Len(v) /\ Len(v) \in Nat BY <3>3
    <3>5. c - 1 \in Nat /\ c - 1 <= Len(u \o v) BY <3>2, <3>3, <3>4
    <3> DEFINE w == u \o v
    <3> HIDE DEF w
    <3>6. [t EXCEPT !.line = w, !.col = c - 1] \in Trackers BY <3>4, <3>5, TrackerMade DEF w
    <3> QED BY <3>1, <3>6 DEF w
  <2> QED BY <2>1, <2>2
<1>5. CASE b \notin {"CR", "BEL", "BS"}
  <2>1. feedByte(t, b) = insertByte(t, b) BY <1>5 DEF feedByte
  <2>2. CASE c >= Len(l)
    <3> DEFINE m == Append(l, b)
    <3>1. insertByte(t, b) = [t EXCEPT !.line = m, !.col = Len(l) + 1] BY <2>2 DEF insertByte
    <3>2. m \in Seq(Seen) /\ Len(m) = Len(l) + 1 BY <1>1
    <3> HIDE DEF l, c, m
    <3> DEFINE k == Len(l) + 1
    <3>3. k \in Nat /\ k <= Len(m) BY <1>1, <3>2
    <3> HIDE DEF k
    <3>4. [t EXCEPT !.line = m, !.col = k] \in Trackers BY <3>2, <3>3, TrackerMade
    <3> QED BY <2>1, <3>1, <3>4 DEF k
  <2>3. CASE ~(c >= Len(l))
    <3> DEFINE m == [l EXCEPT ![c + 1] = b]
    <3>1. insertByte(t, b) = [t EXCEPT !.line = m, !.col = c + 1] BY <2>3 DEF insertByte
    <3> HIDE DEF l, c
    <3>2. m \in Seq(Seen) /\ Len(m) = Len(l)
      <4>1. c + 1 \in 1 .. Len(l) BY <1>1, <2>3
      <4> QED BY <1>1, <4>1, ExceptSeq
    <3> DEFINE k == c + 1
    <3>3. k \in Nat /\ k <= Len(m) BY <1>1, <2>3, <3>2
    <3> HIDE DEF m, k
    <3>4. [t EXCEPT !.line = m, !.col = k] \in Trackers BY <3>2, <3>3, TrackerMade
    <3> QED BY <2>1, <3>1, <3>4 DEF k
  <2> QED BY <2>2, <2>3
<1> QED BY <1>2, <1>3, <1>4, <1>5

\* So does a control sequence.
LEMMA ApplyCSITyped ==
  ASSUME NEW t \in Trackers, NEW cmd, NEW params \in Seq(Seen)
  PROVE  applyCSI(t, cmd, params) \in Trackers
<1> DEFINE l == t.line
           c == t.col
           n == csiParam(params, 1)
           r == applyCSI(t, cmd, params)
           u == SubSeq(l, 1, c)
           v == SubSeq(l, c + 1, Len(l))
<1>1. l \in Seq(Seen) /\ c \in 0 .. Len(l) /\ Len(l) \in Nat /\ t.escBuf = << >> BY DEF Trackers
<1>4. n \in Nat /\ n >= 1 BY ParameterPositive
<1>5. u \in Seq(Seen) /\ Len(u) = c /\ v \in Seq(Seen) /\ Len(v) = Len(l) - c BY <1>1, LineCut
<1>6. \A k \in Nat : Least(k, Len(l)) \in 0 .. Len(l) BY <1>1 DEF Least
<1>7. Before(t) = u /\ From(t, t.col) = v BY DEF Before, From
<1>8. Blank \in Trackers
  <2>1. << >> \in Seq(Seen) /\ Len(<< >>) = 0 OBVIOUS
  <2> QED BY <2>1 DEF Blank, Trackers
<1> HIDE DEF n, u, v, l, c
<1>9. CASE cmd = "K"
  <2> DEFINE q == csiParam(params, 0)
             A == [t EXCEPT !.line = v, !.col = 0]
             B == [t EXCEPT !.line = u]
  <2>1. r = CASE q = 1 -> A [] q = 2 -> Blank [] OTHER -> B BY <1>7, <1>9 DEF applyCSI
  <2>2. [t EXCEPT !.line = v, !.col = 0] \in Trackers
    <3>1. 0 <= Len(v) BY <1>1, <1>5
    <3> QED BY <1>5, <3>1, TrackerMade
  <2>3. [t EXCEPT !.line = u] \in Trackers
    <3>1. t.col <= Len(u) BY <1>1, <1>5 DEF c
    <3> QED BY <1>5, <3>1, TrackerMade
  <2> HIDE DEF r, q, A, B
  <2>4. r \in {A, B, Blank} BY <2>1
  <2>5. A \in Trackers BY <2>2 DEF A
  <2>6. B \in Trackers BY <2>3 DEF B
  <2> QED BY <1>8, <2>4, <2>5, <2>6 DEF r
<1>10. ASSUME NEW k \in 0 .. Len(l) PROVE [t EXCEPT !.col = k] \in Trackers
  <2>1. k \in Nat /\ k <= Len(t.line) BY <1>1 DEF l
  <2> QED BY <2>1, TrackerMade
<1>11. CASE cmd = "G"
  <2>1. r = [t EXCEPT !.col = Least(n - 1, Len(l))] BY <1>11 DEF applyCSI, n, l
  <2>2. Least(n - 1, Len(l)) \in 0 .. Len(l) BY <1>4, <1>6
  <2> QED BY <1>10, <2>1, <2>2
<1>12. CASE cmd = "C"
  <2>1. r = [t EXCEPT !.col = Least(c + n, Len(l))] BY <1>12 DEF applyCSI, n, l, c
  <2>2. c + n \in Nat BY <1>1, <1>4
  <2>3. Least(c + n, Len(l)) \in 0 .. Len(l) BY <1>6, <2>2
  <2> QED BY <1>10, <2>1, <2>3
<1>13. CASE cmd = "D"
  <2> DEFINE k == IF c > n THEN c - n ELSE 0
  <2>1. r = [t EXCEPT !.col = k] BY <1>13 DEF applyCSI, n, c
  <2>2. k \in 0 .. Len(l) BY <1>1, <1>4
  <2> HIDE DEF k
  <2> QED BY <1>10, <2>1, <2>2
<1>14. ASSUME NEW w \in Seq(Seen) PROVE [t EXCEPT !.line = u \o w] \in Trackers
  <2> DEFINE z == u \o w
  <2>1. z \in Seq(Seen) /\ Len(z) = Len(u) + Len(w) /\ Len(w) \in Nat
    <3>1. u \in Seq(Seen) BY <1>5
    <3> QED BY <3>1, LinesJoin
  <2> HIDE DEF z
  <2>2. t.col <= Len(z) BY <1>1, <1>5, <2>1 DEF c
  <2>3. [t EXCEPT !.line = z] \in Trackers BY <2>1, <2>2, TrackerMade
  <2> QED BY <2>3 DEF z
<1>15. CASE cmd = "P"
  <2> DEFINE k == Least(c + n, Len(l))
             w == SubSeq(l, k + 1, Len(l))
  <2>1. r = [t EXCEPT !.line = u \o w] BY <1>7, <1>15 DEF applyCSI, n, From, l, c
  <2>2. k \in 0 .. Len(l)
    <3>1. c + n \in Nat BY <1>1, <1>4
    <3> QED BY <1>6, <3>1
  <2> HIDE DEF k
  <2>3. w \in Seq(Seen) BY <1>1, <2>2, LineCut
  <2> HIDE DEF w
  <2> QED BY <1>14, <2>1, <2>3
<1>16. CASE cmd = "@"
  <2> DEFINE p == [i \in 1 .. n |-> "NUL"]
             w == p \o v
  <2>1. r = [t EXCEPT !.line = u \o p \o v] BY <1>7, <1>16 DEF applyCSI, n
  <2>2. p \in Seq(Seen) BY <1>4 DEF Seen
  <2> HIDE DEF p
  <2>3. (u \o p) \o v = u \o w
    <3>1. u \in Seq(Seen) /\ v \in Seq(Seen) BY <1>5
    <3> QED BY <2>2, <3>1, LinesJoinThree
  <2>4. w \in Seq(Seen) BY <1>5, <2>2, ConcatProperties, Zenon
  <2> HIDE DEF w
  <2>5. [t EXCEPT !.line = u \o w] \in Trackers BY <1>14, <2>4
  <2> QED BY <2>1, <2>3, <2>5
<1>17. CASE cmd \notin {"K", "G", "C", "D", "P", "@"}
  <2>1. r = t BY <1>17 DEF applyCSI
  <2> QED BY <2>1
<1> QED BY <1>9, <1>11, <1>12, <1>13, <1>15, <1>16, <1>17

TerminalModes == {"text", "ESC", "CSI", "OSC", "OSC_ESC", "stuck"}
TerminalRecord == [mode : TerminalModes, params : Seq(Seen), t : Trackers]
Unfed == [mode |-> "text", params |-> << >>, t |-> Blank]
TerminalBody(s, f, n) == IF n = 0 THEN Unfed ELSE TerminalStep(f[n - 1], s[n])

\* The terminal is well defined on any output.
LEMMA TerminalRuns ==
  ASSUME NEW s, Len(s) \in Nat
  PROVE  /\ TerminalUpTo(s)[0] = Unfed
         /\ \A n \in 1 .. Len(s) : TerminalUpTo(s)[n] = TerminalStep(TerminalUpTo(s)[n - 1], s[n])
<1> DEFINE T == {m \in Nat : \E f : f = [n \in 0..m |-> TerminalBody(s, f, n)]}
<1>1. 0 \in T
  <2>1. [n \in 0..0 |-> Unfed] = [n \in 0..0 |-> TerminalBody(s, [k \in 0..0 |-> Unfed], n)]
        BY DEF TerminalBody
  <2> QED BY <2>1
<1>2. ASSUME NEW m \in Nat, m \in T PROVE m + 1 \in T
  <2>1. PICK f : f = [n \in 0..m |-> TerminalBody(s, f, n)] BY <1>2
  <2> DEFINE g == [n \in 0..(m + 1) |-> IF n = m + 1 THEN TerminalBody(s, f, n) ELSE f[n]]
  <2>2. \A n \in 0..m : g[n] = f[n] OBVIOUS
  <2>3. ASSUME NEW n \in 0..(m + 1) PROVE g[n] = TerminalBody(s, g, n)
    <3>1. TerminalBody(s, g, n) = TerminalBody(s, f, n)
      <4>1. CASE n = 0 BY <4>1 DEF TerminalBody
      <4>2. CASE n # 0
        <5>1. n - 1 \in 0..m BY <4>2
        <5>2. g[n - 1] = f[n - 1] BY <5>1, <2>2
        <5> HIDE DEF g
        <5> QED BY <5>2 DEF TerminalBody
      <4> QED BY <4>1, <4>2
    <3>2. n # m + 1 => f[n] = TerminalBody(s, f, n)
      <4> SUFFICES ASSUME n # m + 1 PROVE f[n] = TerminalBody(s, f, n)
          OBVIOUS
      <4>1. n \in 0..m OBVIOUS
      <4> QED BY <4>1, <2>1
    <3> QED BY <3>1, <3>2
  <2>4. g = [n \in 0..(m + 1) |-> TerminalBody(s, g, n)]
    <3>1. g = [n \in 0..(m + 1) |-> g[n]] OBVIOUS
    <3> HIDE DEF g
    <3> QED BY <3>1, <2>3
  <2> HIDE DEF g
  <2> QED BY <2>4
<1>3. Len(s) \in T
  <2> HIDE DEF T
  <2> QED BY <1>1, <1>2, UpFromZero
<1>4. \E f : f = [n \in 0..Len(s) |-> TerminalBody(s, f, n)] BY <1>3
<1> DEFINE d == TerminalUpTo(s)
<1>5. d = [n \in 0..Len(s) |-> TerminalBody(s, d, n)] BY <1>4, Zenon DEF TerminalUpTo, TerminalBody, Unfed
<1> HIDE DEF d
<1>6. d[0] = Unfed BY <1>5 DEF TerminalBody
<1>7. ASSUME NEW n \in 1 .. Len(s) PROVE d[n] = TerminalStep(d[n - 1], s[n])
  <2>1. n \in 0..Len(s) /\ n # 0 OBVIOUS
  <2>2. d[n] = TerminalBody(s, d, n) BY <1>5, <2>1
  <2> QED BY <2>1, <2>2 DEF TerminalBody
<1> QED BY <1>6, <1>7 DEF d

\* The terminal in its text.
LEMMA FromText ==
  ASSUME NEW d \in TerminalRecord, NEW b \in Seen, d.mode = "text"
  PROVE  /\ TerminalStep(d, b) \in TerminalRecord
         /\ b = "ESC" => TerminalStep(d, b).mode = "ESC" /\ TerminalStep(d, b).t = d.t
         /\ b # "ESC" => TerminalStep(d, b).mode = "text" /\ TerminalStep(d, b).t = feedByte(d.t, b)
<1> DEFINE e == TerminalStep(d, b)
           u == feedByte(d.t, b)
<1>1. e = IF b = "ESC" THEN [d EXCEPT !.mode = "ESC"] ELSE [d EXCEPT !.t = u] BY DEF TerminalStep
<1>2. d.t \in Trackers BY DEF TerminalRecord
<1>3. u \in Trackers BY <1>2, FeedByteTyped
<1> HIDE DEF u, e
<1>4. e \in TerminalRecord /\ (b = "ESC" => e.mode = "ESC" /\ e.t = d.t) /\ (b # "ESC" => e.mode = "text" /\ e.t = u)
      BY <1>1, <1>3 DEF TerminalRecord, TerminalModes
<1> QED BY <1>4 DEF e, u

\* After ESC.
LEMMA FromEsc ==
  ASSUME NEW d \in TerminalRecord, NEW b \in Seen, d.mode = "ESC"
  PROVE  /\ TerminalStep(d, b) \in TerminalRecord
         /\ TerminalStep(d, b).t = d.t
         /\ b = "[" => TerminalStep(d, b).mode = "CSI" /\ TerminalStep(d, b).params = << >>
         /\ b = "]" => TerminalStep(d, b).mode = "OSC"
         /\ b \notin {"[", "]"} => TerminalStep(d, b).mode = IF isCSIFinal(b) THEN "text" ELSE "stuck"
<1> DEFINE e == TerminalStep(d, b)
<1>1. CASE b = "["
  <2>1. e = [d EXCEPT !.mode = "CSI", !.params = << >>] BY <1>1 DEF TerminalStep
  <2>2. << >> \in Seq(Seen) OBVIOUS
  <2> HIDE DEF e
  <2>3. e \in TerminalRecord /\ e.t = d.t /\ e.mode = "CSI" /\ e.params = << >>
        BY <2>1, <2>2 DEF TerminalRecord, TerminalModes
  <2> QED BY <1>1, <2>3 DEF e
<1>2. CASE b = "]"
  <2>1. e = [d EXCEPT !.mode = "OSC"] BY <1>2 DEF TerminalStep
  <2> HIDE DEF e
  <2>2. e \in TerminalRecord /\ e.t = d.t /\ e.mode = "OSC" BY <2>1 DEF TerminalRecord, TerminalModes
  <2> QED BY <1>2, <2>2 DEF e
<1>3. CASE b \notin {"[", "]"}
  <2> DEFINE m == IF isCSIFinal(b) THEN "text" ELSE "stuck"
  <2>1. e = [d EXCEPT !.mode = m] BY <1>3 DEF TerminalStep
  <2>2. m \in TerminalModes BY DEF TerminalModes
  <2> HIDE DEF e, m
  <2>3. e \in TerminalRecord /\ e.t = d.t /\ e.mode = m BY <2>1, <2>2 DEF TerminalRecord
  <2> QED BY <1>3, <2>3 DEF e, m
<1> QED BY <1>1, <1>2, <1>3

\* In a control sequence.
LEMMA FromCSI ==
  ASSUME NEW d \in TerminalRecord, NEW b \in Seen, d.mode = "CSI"
  PROVE  /\ TerminalStep(d, b) \in TerminalRecord
         /\ isCSIFinal(b) => TerminalStep(d, b).mode = "text" /\ TerminalStep(d, b).t = applyCSI(d.t, b, d.params)
         /\ ~isCSIFinal(b) => /\ TerminalStep(d, b).mode = "CSI" /\ TerminalStep(d, b).t = d.t
                              /\ TerminalStep(d, b).params = Append(d.params, b)
<1> DEFINE e == TerminalStep(d, b)
           u == applyCSI(d.t, b, d.params)
           p == Append(d.params, b)
<1>1. e = IF isCSIFinal(b) THEN [d EXCEPT !.mode = "text", !.t = u] ELSE [d EXCEPT !.params = p] BY DEF TerminalStep
<1>2. d.t \in Trackers /\ d.params \in Seq(Seen) BY DEF TerminalRecord
<1>3. u \in Trackers BY <1>2, ApplyCSITyped
<1>4. p \in Seq(Seen) BY <1>2
<1> HIDE DEF u, e, p
<1>5. CASE isCSIFinal(b)
  <2>1. e = [d EXCEPT !.mode = "text", !.t = u] BY <1>1, <1>5
  <2>2. e \in TerminalRecord /\ e.mode = "text" /\ e.t = u BY <1>3, <2>1 DEF TerminalRecord, TerminalModes
  <2> QED BY <1>5, <2>2 DEF e, u
<1>6. CASE ~isCSIFinal(b)
  <2>1. e = [d EXCEPT !.params = p] BY <1>1, <1>6
  <2>2. e \in TerminalRecord /\ e.mode = "CSI" /\ e.t = d.t /\ e.params = p BY <1>4, <2>1 DEF TerminalRecord
  <2> QED BY <1>6, <2>2 DEF e, p
<1> QED BY <1>5, <1>6

\* In an operating system command, and stuck.
LEMMA FromOSC ==
  ASSUME NEW d \in TerminalRecord, NEW b \in Seen, d.mode \in {"OSC", "OSC_ESC", "stuck"}
  PROVE  /\ TerminalStep(d, b) \in TerminalRecord
         /\ TerminalStep(d, b).t = d.t
         /\ d.mode = "stuck" => TerminalStep(d, b).mode = "stuck"
         /\ d.mode # "stuck" => TerminalStep(d, b).mode =
              IF b = "BEL" \/ (b = "BACKSLASH" /\ d.mode = "OSC_ESC") THEN "text"
              ELSE IF b = "ESC" THEN "OSC_ESC" ELSE "OSC"
<1> DEFINE e == TerminalStep(d, b)
<1>1. CASE d.mode = "stuck" BY <1>1 DEF TerminalStep
<1>2. CASE d.mode # "stuck"
  <2> DEFINE m == IF b = "BEL" \/ (b = "BACKSLASH" /\ d.mode = "OSC_ESC") THEN "text"
                  ELSE IF b = "ESC" THEN "OSC_ESC" ELSE "OSC"
  <2>1. e = [d EXCEPT !.mode = CASE b = "BEL" \/ (b = "BACKSLASH" /\ d.mode = "OSC_ESC") -> "text"
                                 [] b = "ESC" -> "OSC_ESC"
                                 [] OTHER -> "OSC"]
        BY <1>2 DEF TerminalStep
  <2>2. m = CASE b = "BEL" \/ (b = "BACKSLASH" /\ d.mode = "OSC_ESC") -> "text"
              [] b = "ESC" -> "OSC_ESC"
              [] OTHER -> "OSC"
        OBVIOUS
  <2>3. m \in TerminalModes BY DEF TerminalModes
  <2> HIDE DEF e, m
  <2>4. e = [d EXCEPT !.mode = m] BY <2>1, <2>2
  <2>5. e \in TerminalRecord /\ e.t = d.t /\ e.mode = m BY <2>3, <2>4 DEF TerminalRecord
  <2> QED BY <1>2, <2>5 DEF e, m
<1> QED BY <1>1, <1>2

\* A step of the terminal keeps its types.
LEMMA TerminalTyped ==
  ASSUME NEW d \in TerminalRecord, NEW b \in Seen
  PROVE  TerminalStep(d, b) \in TerminalRecord
<1>1. d.mode \in TerminalModes BY DEF TerminalRecord
<1> QED BY <1>1, FromText, FromEsc, FromCSI, FromOSC DEF TerminalModes

\* g is the terminal after each byte of data.
Follows(g, data) ==
  /\ \A n \in 0 .. Len(data) : g[n] \in TerminalRecord
  /\ \A n \in 1 .. Len(data) : g[n] = TerminalStep(g[n - 1], data[n])

\* Inside a control sequence the terminal collects the parameters.
LEMMA CSIRuns ==
  ASSUME NEW data \in Seq(Seen), NEW g, Follows(g, data), NEW p \in 1 .. Len(data),
         g[p].mode = "CSI", g[p].params = << >>, NEW q \in p .. Len(data),
         \A k \in (p + 1) .. q : ~isCSIFinal(data[k])
  PROVE  g[q].mode = "CSI" /\ g[q].t = g[p].t /\ g[q].params = SubSeq(data, p + 1, q)
<1> DEFINE Inside(k) == g[k].mode = "CSI" /\ g[k].t = g[p].t /\ g[k].params = SubSeq(data, p + 1, k)
           T == {n \in Nat : p + n <= q => Inside(p + n)}
<1>1. 0 \in T
  <2>1. p + 0 = p OBVIOUS
  <2>2. SubSeq(data, p + 1, p) = << >> OBVIOUS
  <2>3. Inside(p) BY <2>2
  <2> HIDE DEF Inside
  <2> QED BY <2>1, <2>3
<1>2. ASSUME NEW n \in Nat, n \in T PROVE n + 1 \in T
  <2> HIDE DEF Inside
  <2> SUFFICES ASSUME p + (n + 1) <= q PROVE Inside(p + (n + 1))
      OBVIOUS
  <2> DEFINE k == p + n
  <2>1. /\ k \in p .. q /\ k \in 0 .. Len(data) /\ k + 1 \in 1 .. Len(data) /\ p + (n + 1) = k + 1 /\ (k + 1) - 1 = k
        /\ k + 1 \in (p + 1) .. q
        OBVIOUS
  <2>2. Inside(k) BY <1>2, <2>1
  <2> HIDE DEF k
  <2>3. g[k] \in TerminalRecord /\ data[k + 1] \in Seen /\ g[k + 1] = TerminalStep(g[k], data[k + 1])
        BY <2>1 DEF Follows
  <2>4. ~isCSIFinal(data[k + 1]) BY <2>1
  <2>5. g[k].mode = "CSI" BY <2>2 DEF Inside
  <2>6. /\ TerminalStep(g[k], data[k + 1]).mode = "CSI" /\ TerminalStep(g[k], data[k + 1]).t = g[k].t
        /\ TerminalStep(g[k], data[k + 1]).params = Append(g[k].params, data[k + 1])
        BY <2>3, <2>4, <2>5, FromCSI
  <2>7. SubSeq(data, p + 1, k + 1) = Append(SubSeq(data, p + 1, k), data[k + 1])
    <3>1. p + 1 \in 1 .. k + 1 /\ k + 1 \in 1 .. Len(data) /\ k \in Nat BY <2>1
    <3>2. p \in Nat /\ p >= 1 /\ p <= k /\ k + 1 <= Len(data) BY <2>1
    <3> QED BY <3>1, <3>2
  <2>8. Inside(k + 1) BY <2>2, <2>3, <2>6, <2>7 DEF Inside
  <2> QED BY <2>1, <2>8
<1>3. Nat \subseteq T
  <2> HIDE DEF T
  <2> QED BY <1>1, <1>2, UpFromZero
<1>4. q - p \in Nat /\ p + (q - p) = q OBVIOUS
<1>5. Inside(q)
  <2>1. q - p \in T
    <3> HIDE DEF T
    <3> QED BY <1>3, <1>4
  <2> HIDE DEF Inside
  <2>2. p + (q - p) <= q BY <1>4
  <2>3. Inside(p + (q - p)) BY <2>1, <2>2
  <2> QED BY <1>4, <2>3
<1> QED BY <1>5

\* Inside an operating system command it waits for BEL or ESC and a backslash.
LEMMA OSCRuns ==
  ASSUME NEW data \in Seq(Seen), NEW g, Follows(g, data), NEW p \in 1 .. Len(data),
         g[p].mode = "OSC", NEW q \in p .. Len(data),
         \A k \in (p + 1) .. q :
           data[k] # "BEL" /\ ~(k > p + 1 /\ data[k] = "BACKSLASH" /\ data[k - 1] = "ESC")
  PROVE  g[q].mode = (IF q > p /\ data[q] = "ESC" THEN "OSC_ESC" ELSE "OSC") /\ g[q].t = g[p].t
<1> DEFINE Inside(k) == g[k].mode = (IF k > p /\ data[k] = "ESC" THEN "OSC_ESC" ELSE "OSC") /\ g[k].t = g[p].t
           T == {n \in Nat : p + n <= q => Inside(p + n)}
<1>1. 0 \in T
  <2>1. p + 0 = p OBVIOUS
  <2>2. Inside(p) OBVIOUS
  <2> HIDE DEF Inside
  <2> QED BY <2>1, <2>2
<1>2. ASSUME NEW n \in Nat, n \in T PROVE n + 1 \in T
  <2> HIDE DEF Inside
  <2> SUFFICES ASSUME p + (n + 1) <= q PROVE Inside(p + (n + 1))
      OBVIOUS
  <2> DEFINE k == p + n
  <2>1. /\ k \in p .. q /\ k \in 0 .. Len(data) /\ k + 1 \in 1 .. Len(data) /\ p + (n + 1) = k + 1 /\ (k + 1) - 1 = k
        /\ k + 1 \in (p + 1) .. q /\ (k > p => k + 1 > p + 1) /\ k + 1 > p
        OBVIOUS
  <2>2. Inside(k) BY <1>2, <2>1
  <2> HIDE DEF k
  <2>3. g[k] \in TerminalRecord /\ data[k + 1] \in Seen /\ g[k + 1] = TerminalStep(g[k], data[k + 1])
        BY <2>1 DEF Follows
  <2>4. data[k + 1] # "BEL" /\ ~(k > p /\ data[k + 1] = "BACKSLASH" /\ data[k] = "ESC") BY <2>1
  <2>5. g[k].mode = (IF k > p /\ data[k] = "ESC" THEN "OSC_ESC" ELSE "OSC") BY <2>2 DEF Inside
  <2>6. g[k].mode \in {"OSC", "OSC_ESC"} BY <2>5
  <2>7. /\ TerminalStep(g[k], data[k + 1]).t = g[k].t
        /\ TerminalStep(g[k], data[k + 1]).mode =
             IF data[k + 1] = "BEL" \/ (data[k + 1] = "BACKSLASH" /\ g[k].mode = "OSC_ESC") THEN "text"
             ELSE IF data[k + 1] = "ESC" THEN "OSC_ESC" ELSE "OSC"
        BY <2>3, <2>6, FromOSC
  <2>8. ~(data[k + 1] = "BEL" \/ (data[k + 1] = "BACKSLASH" /\ g[k].mode = "OSC_ESC")) BY <2>4, <2>5
  <2>9. g[k + 1].mode = (IF data[k + 1] = "ESC" THEN "OSC_ESC" ELSE "OSC") BY <2>3, <2>7, <2>8
  <2>10. Inside(k + 1) BY <2>1, <2>2, <2>3, <2>7, <2>9 DEF Inside
  <2> QED BY <2>1, <2>10
<1>3. Nat \subseteq T
  <2> HIDE DEF T
  <2> QED BY <1>1, <1>2, UpFromZero
<1>4. q - p \in Nat /\ p + (q - p) = q OBVIOUS
<1>5. Inside(q)
  <2>1. q - p \in T
    <3> HIDE DEF T
    <3> QED BY <1>3, <1>4
  <2> HIDE DEF Inside
  <2>2. p + (q - p) <= q BY <1>4
  <2>3. Inside(p + (q - p)) BY <2>1, <2>2
  <2> QED BY <1>4, <2>3
<1> QED BY <1>5

\* A sequence that is none of those never ends.
LEMMA StuckRuns ==
  ASSUME NEW data \in Seq(Seen), NEW g, Follows(g, data), NEW p \in 1 .. Len(data), g[p].mode = "stuck",
         NEW q \in p .. Len(data)
  PROVE  g[q].t = g[p].t
<1> DEFINE Inside(k) == g[k].mode = "stuck" /\ g[k].t = g[p].t
           T == {n \in Nat : p + n <= q => Inside(p + n)}
<1>1. 0 \in T
  <2>1. p + 0 = p OBVIOUS
  <2>2. Inside(p) OBVIOUS
  <2> HIDE DEF Inside
  <2> QED BY <2>1, <2>2
<1>2. ASSUME NEW n \in Nat, n \in T PROVE n + 1 \in T
  <2> HIDE DEF Inside
  <2> SUFFICES ASSUME p + (n + 1) <= q PROVE Inside(p + (n + 1))
      OBVIOUS
  <2> DEFINE k == p + n
  <2>1. k \in p .. q /\ k \in 0 .. Len(data) /\ k + 1 \in 1 .. Len(data) /\ p + (n + 1) = k + 1 /\ (k + 1) - 1 = k
        OBVIOUS
  <2>2. Inside(k) BY <1>2, <2>1
  <2> HIDE DEF k
  <2>3. g[k] \in TerminalRecord /\ data[k + 1] \in Seen /\ g[k + 1] = TerminalStep(g[k], data[k + 1])
        BY <2>1 DEF Follows
  <2>4. g[k].mode = "stuck" BY <2>2 DEF Inside
  <2>5. TerminalStep(g[k], data[k + 1]).t = g[k].t /\ TerminalStep(g[k], data[k + 1]).mode = "stuck"
        BY <2>3, <2>4, FromOSC
  <2>6. Inside(k + 1) BY <2>2, <2>3, <2>5 DEF Inside
  <2> QED BY <2>1, <2>6
<1>3. Nat \subseteq T
  <2> HIDE DEF T
  <2> QED BY <1>1, <1>2, UpFromZero
<1>4. q - p \in Nat /\ p + (q - p) = q OBVIOUS
<1>5. Inside(q)
  <2>1. q - p \in T
    <3> HIDE DEF T
    <3> QED BY <1>3, <1>4
  <2> HIDE DEF Inside
  <2>2. p + (q - p) <= q BY <1>4
  <2>3. Inside(p + (q - p)) BY <2>1, <2>2
  <2> QED BY <1>4, <2>3
<1> QED BY <1>5

\* A piece of the data.
LEMMA PieceFacts ==
  ASSUME NEW S, NEW data \in Seq(S), NEW i \in 1 .. Len(data), NEW e \in i .. Len(data)
  PROVE  /\ Len(SubSeq(data, i, e)) = e - i + 1
         /\ SubSeq(data, i, e)[1] = data[i]
         /\ e > i => SubSeq(data, i, e)[2] = data[i + 1]
         /\ SubSeq(data, i, e)[e - i + 1] = data[e]
         /\ e >= i + 2 => SubSeq(SubSeq(data, i, e), 3, e - i) = SubSeq(data, i + 2, e - 1)
<1> DEFINE x == SubSeq(data, i, e)
<1>1. i \in Nat /\ e \in Nat /\ i >= 1 /\ e <= Len(data) /\ i <= e OBVIOUS
<1>2. x \in Seq(S) /\ Len(x) = e - i + 1 BY <1>1
<1>3. \A k \in 1 .. (e - i + 1) : x[k] = data[i + k - 1] BY <1>1
<1> HIDE DEF x
<1>4. x[1] = data[i]
  <2>1. 1 \in 1 .. (e - i + 1) /\ i + 1 - 1 = i BY <1>1
  <2> QED BY <1>3, <2>1
<1>5. e > i => x[2] = data[i + 1]
  <2> SUFFICES ASSUME e > i PROVE x[2] = data[i + 1]
      OBVIOUS
  <2>1. 2 \in 1 .. (e - i + 1) /\ i + 2 - 1 = i + 1 BY <1>1
  <2> QED BY <1>3, <2>1
<1>6. x[e - i + 1] = data[e]
  <2>1. e - i + 1 \in 1 .. (e - i + 1) /\ i + (e - i + 1) - 1 = e BY <1>1
  <2> QED BY <1>3, <2>1
<1>7. ASSUME e >= i + 2 PROVE SubSeq(x, 3, e - i) = SubSeq(data, i + 2, e - 1)
  <2> DEFINE y == SubSeq(x, 3, e - i)
             z == SubSeq(data, i + 2, e - 1)
  <2>1. y \in Seq(S) /\ z \in Seq(S) BY <1>1, <1>2, <1>7
  <2>2. Len(y) = e - i - 2 /\ Len(z) = e - i - 2 BY <1>1, <1>2, <1>7
  <2>3. ASSUME NEW k \in 1 .. (e - i - 2) PROVE y[k] = z[k]
    <3>1. y[k] = x[k + 2] BY <1>1, <1>2, <1>7
    <3>2. z[k] = data[i + k + 1] BY <1>1, <1>7
    <3>3. k + 2 \in 1 .. (e - i + 1) /\ i + (k + 2) - 1 = i + k + 1 BY <1>1
    <3>4. x[k + 2] = data[i + (k + 2) - 1] BY <1>3, <3>3
    <3> QED BY <3>1, <3>2, <3>3, <3>4
  <2> HIDE DEF y, z
  <2>4. y = z BY <2>1, <2>2, <2>3, SeqEqual
  <2> QED BY <2>4 DEF y, z
<1> QED BY <1>2, <1>4, <1>5, <1>6, <1>7 DEF x

\* Where an element ends.
LEMMA ElementCases ==
  ASSUME NEW data, Len(data) \in Nat, NEW i \in 1 .. Len(data)
  PROVE  /\ data[i] # "ESC" => elementEnd(data, i) = i
         /\ data[i] = "ESC" /\ i = Len(data) => elementEnd(data, i) = i + 1
         /\ data[i] = "ESC" /\ i < Len(data) /\ data[i + 1] = "]" =>
              elementEnd(data, i) = FirstOf(OSCEnds(data, i), Len(data) + 1)
         /\ data[i] = "ESC" /\ i < Len(data) /\ data[i + 1] = "[" =>
              elementEnd(data, i) = FirstOf(CSIFinals(data, i), Len(data) + 1)
         /\ data[i] = "ESC" /\ i < Len(data) /\ data[i + 1] \notin {"[", "]"} =>
              elementEnd(data, i) = IF isCSIFinal(data[i + 1]) THEN i + 1 ELSE Len(data) + 1
<1> DEFINE N == Len(data)
<1>1. data[i] # "ESC" => elementEnd(data, i) = i BY DEF elementEnd
<1>2. ASSUME data[i] = "ESC" PROVE elementEnd(data, i) = escapeEnd(data, i) BY <1>2 DEF elementEnd
<1>3. ASSUME i = N PROVE escapeEnd(data, i) = i + 1
  <2>1. ~(i < N) BY <1>3
  <2> QED BY <1>3, <2>1 DEF escapeEnd
<1>4. ASSUME i < N, data[i + 1] = "]" PROVE escapeEnd(data, i) = FirstOf(OSCEnds(data, i), N + 1)
  <2>1. i # N BY <1>4
  <2> QED BY <1>4, <2>1 DEF escapeEnd
<1>5. ASSUME i < N, data[i + 1] = "[" PROVE escapeEnd(data, i) = FirstOf(CSIFinals(data, i), N + 1)
  <2>1. i # N BY <1>5
  <2> QED BY <1>5, <2>1 DEF escapeEnd
<1>6. ASSUME i < N, data[i + 1] \notin {"[", "]"}
      PROVE  escapeEnd(data, i) = IF isCSIFinal(data[i + 1]) THEN i + 1 ELSE N + 1
  <2>1. i # N BY <1>6
  <2> QED BY <1>6, <2>1 DEF escapeEnd
<1> QED BY <1>1, <1>2, <1>3, <1>4, <1>5, <1>6

\* One element after which the terminal is in the text again has done to its tracker what
\* apply does; one that is not complete has done nothing.
LEMMA ElementFollowed ==
  ASSUME NEW data \in Seq(Seen), NEW g, Follows(g, data), NEW i \in 1 .. Len(data), g[i - 1].mode = "text"
  PROVE  /\ elementEnd(data, i) \in i .. Len(data) + 1
         /\ elementEnd(data, i) > Len(data) => g[Len(data)].t = g[i - 1].t
         /\ elementEnd(data, i) <= Len(data) =>
              /\ g[elementEnd(data, i)].mode = "text"
              /\ g[elementEnd(data, i)].t = apply(g[i - 1].t, SubSeq(data, i, elementEnd(data, i)))
<1> DEFINE N == Len(data)
           e == elementEnd(data, i)
           x == SubSeq(data, i, e)
           d == g[i - 1]
<1>1. N \in Nat /\ i \in Nat /\ i >= 1 /\ i <= N OBVIOUS
<1>2. \A n \in 0 .. N : g[n] \in TerminalRecord BY DEF Follows
<1>3. \A n \in 1 .. N : data[n] \in Seen /\ g[n] = TerminalStep(g[n - 1], data[n]) BY DEF Follows
<1>4. d \in TerminalRecord
  <2>1. i - 1 \in 0 .. N BY <1>1
  <2> QED BY <1>2, <2>1
<1>5. g[i] = TerminalStep(d, data[i]) /\ data[i] \in Seen /\ g[i] \in TerminalRecord BY <1>1, <1>2, <1>3
<1>6. d.mode = "text" OBVIOUS
<1>7. CASE data[i] # "ESC"
  <2>1. e = i BY <1>7, ElementCases
  <2> HIDE DEF e
  <2>2. x[1] = data[i]
    <3>1. e \in i .. Len(data) BY <1>1, <2>1
    <3> QED BY <3>1, PieceFacts
  <2>3. g[i].mode = "text" /\ g[i].t = feedByte(d.t, data[i])
    <3> HIDE DEF d
    <3>1. TerminalStep(d, data[i]).mode = "text" /\ TerminalStep(d, data[i]).t = feedByte(d.t, data[i])
          BY <1>4, <1>5, <1>6, <1>7, FromText
    <3> QED BY <1>5, <3>1
  <2>4. apply(d.t, x) = feedByte(d.t, data[i])
    <3> HIDE DEF x, d
    <3> QED BY <1>7, <2>2 DEF apply
  <2>5. e \in i .. N + 1 /\ ~(e > N) BY <1>1, <2>1
  <2>6. g[e].mode = "text" /\ g[e].t = apply(d.t, x) BY <2>1, <2>3, <2>4
  <2> QED BY <2>5, <2>6 DEF e
<1>8. ASSUME data[i] = "ESC" PROVE g[i].mode = "ESC" /\ g[i].t = d.t
  <2> HIDE DEF d
  <2>1. TerminalStep(d, data[i]).mode = "ESC" /\ TerminalStep(d, data[i]).t = d.t
        BY <1>4, <1>5, <1>6, <1>8, FromText
  <2> QED BY <1>5, <2>1
<1>9. CASE data[i] = "ESC" /\ i = N
  <2>1. e = i + 1 BY <1>9, ElementCases
  <2> HIDE DEF e
  <2>2. e \in i .. N + 1 /\ e > N /\ ~(e <= N) BY <1>1, <1>9, <2>1
  <2> QED BY <1>8, <1>9, <2>2 DEF e
<1>10. CASE data[i] = "ESC" /\ i < N
  <2> DEFINE b == data[i + 1]
             p == i + 1
  <2>1. p \in 1 .. N /\ p - 1 = i /\ p \in Nat BY <1>1, <1>10
  <2>2. g[p] = TerminalStep(g[i], b) /\ b \in Seen /\ g[p] \in TerminalRecord BY <1>2, <1>3, <2>1
  <2>3. g[i].mode = "ESC" /\ g[i].t = d.t BY <1>8, <1>10
  <2> HIDE DEF d
  <2>4. g[p].t = d.t /\ (b = "[" => g[p].mode = "CSI" /\ g[p].params = << >>) /\ (b = "]" => g[p].mode = "OSC")
        /\ (b \notin {"[", "]"} => g[p].mode = IF isCSIFinal(b) THEN "text" ELSE "stuck")
    <3> HIDE DEF b, p
    <3>1. /\ TerminalStep(g[i], b).t = g[i].t
          /\ b = "[" => TerminalStep(g[i], b).mode = "CSI" /\ TerminalStep(g[i], b).params = << >>
          /\ b = "]" => TerminalStep(g[i], b).mode = "OSC"
          /\ b \notin {"[", "]"} => TerminalStep(g[i], b).mode = IF isCSIFinal(b) THEN "text" ELSE "stuck"
          BY <1>5, <2>2, <2>3, FromEsc
    <3> QED BY <2>2, <2>3, <3>1
  <2>5. ASSUME e \in p .. N
        PROVE  /\ x[1] = "ESC" /\ x[2] = b /\ Len(x) = e - i + 1 /\ x[e - i + 1] = data[e]
               /\ e >= i + 2 => SubSeq(x, 3, e - i) = SubSeq(data, i + 2, e - 1)
    <3> HIDE DEF e
    <3>1. e \in i .. Len(data) /\ e > i BY <1>1, <2>5
    <3> QED BY <1>10, <3>1, PieceFacts
  <2>6. CASE b \notin {"[", "]"}
    <3>1. e = IF isCSIFinal(b) THEN p ELSE N + 1 BY <1>10, <2>6, ElementCases
    <3>2. CASE isCSIFinal(b)
      <4>1. e = p /\ e \in p .. N BY <2>1, <3>1, <3>2
      <4>2. x[1] = "ESC" /\ x[2] = b BY <2>5, <4>1
      <4>3. apply(d.t, x) = d.t
        <5> HIDE DEF x, b
        <5> QED BY <2>6, <4>2 DEF apply
      <4>4. g[p].mode = "text" BY <2>4, <2>6, <3>2
      <4> HIDE DEF e
      <4>5. e \in i .. N + 1 /\ ~(e > N) BY <1>1, <2>1, <4>1
      <4>6. g[e].mode = "text" /\ g[e].t = apply(d.t, x) BY <2>4, <4>1, <4>3, <4>4
      <4> QED BY <4>5, <4>6 DEF e, d
    <3>3. CASE ~isCSIFinal(b)
      <4>1. e = N + 1 BY <3>1, <3>3
      <4>2. g[p].mode = "stuck" BY <2>4, <2>6, <3>3
      <4> HIDE DEF e
      <4>3. N \in p .. N BY <1>1, <2>1
      <4>4. g[N].t = g[p].t BY <2>1, <4>2, <4>3, StuckRuns
      <4>5. e \in i .. N + 1 /\ e > N /\ ~(e <= N) BY <1>1, <4>1
      <4> QED BY <2>4, <4>4, <4>5 DEF e, d
    <3> QED BY <3>2, <3>3
  <2>7. CASE b = "["
    <3> DEFINE E == CSIFinals(data, i)
    <3>1. e = FirstOf(E, N + 1) BY <1>10, <2>7, ElementCases
    <3>2. E \in SUBSET Nat BY <1>1 DEF CSIFinals
    <3>3. g[p].mode = "CSI" /\ g[p].params = << >> BY <2>4, <2>7
    <3>4. CASE E = {}
      <4>1. e = N + 1 BY <3>1, <3>2, <3>4, FirstPlace
      <4>2. \A k \in (p + 1) .. N : ~isCSIFinal(data[k]) BY <1>1, <3>4 DEF CSIFinals
      <4> HIDE DEF e
      <4>3. N \in p .. N BY <1>1, <2>1
      <4>4. g[N].t = g[p].t BY <2>1, <3>3, <4>2, <4>3, CSIRuns
      <4>5. e \in i .. N + 1 /\ e > N /\ ~(e <= N) BY <1>1, <4>1
      <4> QED BY <2>4, <4>4, <4>5 DEF e, d
    <3>5. CASE E # {}
      <4>1. e \in E /\ \A k \in E : e <= k
        <5> HIDE DEF E, e
        <5>1. FirstOf(E, N + 1) \in E /\ \A k \in E : FirstOf(E, N + 1) <= k BY <3>2, <3>5, FirstPlace
        <5> QED BY <3>1, <5>1
      <4> HIDE DEF e
      <4>2. e \in i + 2 .. N /\ isCSIFinal(data[e]) BY <1>1, <4>1 DEF CSIFinals
      <4> DEFINE q == e - 1
      <4>3. q \in p .. N /\ q \in 0 .. N /\ e \in 1 .. N /\ q + 1 = e /\ e \in p .. N BY <1>1, <4>2
      <4>4. ASSUME NEW k \in (p + 1) .. q, isCSIFinal(data[k]) PROVE FALSE
        <5>1. k \in i + 2 .. N /\ k < e /\ k \in Nat BY <1>1, <4>2
        <5>2. k \in E BY <4>4, <5>1 DEF CSIFinals
        <5> QED BY <3>2, <4>1, <4>2, <5>1, <5>2
      <4>5. g[q].mode = "CSI" /\ g[q].t = g[p].t /\ g[q].params = SubSeq(data, p + 1, q)
            BY <2>1, <3>3, <4>3, <4>4, CSIRuns
      <4>6. g[e] = TerminalStep(g[q], data[e]) /\ data[e] \in Seen /\ g[q] \in TerminalRecord
            BY <1>2, <1>3, <4>3
      <4>7. g[e].mode = "text" /\ g[e].t = applyCSI(g[q].t, data[e], g[q].params)
        <5> HIDE DEF q
        <5>1. /\ TerminalStep(g[q], data[e]).mode = "text"
              /\ TerminalStep(g[q], data[e]).t = applyCSI(g[q].t, data[e], g[q].params)
              BY <4>2, <4>5, <4>6, FromCSI
        <5> QED BY <4>6, <5>1
      <4>8. /\ x[1] = "ESC" /\ x[2] = "[" /\ Len(x) = e - i + 1 /\ x[e - i + 1] = data[e]
            /\ SubSeq(x, 3, e - i) = SubSeq(data, i + 2, e - 1)
        <5>1. e >= i + 2 BY <1>1, <4>2
        <5> QED BY <2>5, <2>7, <4>3, <5>1 DEF e
      <4>9. apply(d.t, x) = applyCSI(d.t, data[e], SubSeq(data, i + 2, e - 1))
        <5>1. apply(d.t, x) = applyCSI(d.t, x[Len(x)], SubSeq(x, 3, Len(x) - 1))
          <6>1. x[1] = "ESC" /\ x[2] = "[" BY <4>8
          <6> HIDE DEF x
          <6> QED BY <6>1 DEF apply
        <5>2. Len(x) - 1 = e - i BY <1>1, <4>2, <4>8
        <5> HIDE DEF x
        <5> QED BY <4>8, <5>1, <5>2
      <4>10. p + 1 = i + 2 BY <1>1
      <4>11. g[e].mode = "text" /\ g[e].t = apply(d.t, x) BY <2>4, <4>5, <4>7, <4>9, <4>10
      <4>12. e \in i .. N + 1 /\ ~(e > N) BY <1>1, <4>2
      <4> QED BY <4>11, <4>12 DEF e, d
    <3> QED BY <3>4, <3>5
  <2>8. CASE b = "]"
    <3> DEFINE E == OSCEnds(data, i)
    <3>1. e = FirstOf(E, N + 1) BY <1>10, <2>8, ElementCases
    <3>2. E \in SUBSET Nat BY <1>1 DEF OSCEnds
    <3>3. g[p].mode = "OSC" BY <2>4, <2>8
    <3>4. CASE E = {}
      <4>1. e = N + 1 BY <3>1, <3>2, <3>4, FirstPlace
      <4>2. \A k \in (p + 1) .. N :
               data[k] # "BEL" /\ ~(k > p + 1 /\ data[k] = "BACKSLASH" /\ data[k - 1] = "ESC")
        <5>1. p + 1 = i + 2 BY <1>1
        <5> QED BY <3>4, <5>1 DEF OSCEnds
      <4> HIDE DEF e
      <4>3. N \in p .. N BY <1>1, <2>1
      <4>4. g[N].t = g[p].t BY <2>1, <3>3, <4>2, <4>3, OSCRuns
      <4>5. e \in i .. N + 1 /\ e > N /\ ~(e <= N) BY <1>1, <4>1
      <4> QED BY <2>4, <4>4, <4>5 DEF e, d
    <3>5. CASE E # {}
      <4>1. e \in E /\ \A k \in E : e <= k
        <5> HIDE DEF E, e
        <5>1. FirstOf(E, N + 1) \in E /\ \A k \in E : FirstOf(E, N + 1) <= k BY <3>2, <3>5, FirstPlace
        <5> QED BY <3>1, <5>1
      <4> HIDE DEF e
      <4>2. e \in i + 2 .. N /\ (data[e] = "BEL" \/ (e > i + 2 /\ data[e] = "BACKSLASH" /\ data[e - 1] = "ESC"))
            BY <1>1, <4>1 DEF OSCEnds
      <4> DEFINE q == e - 1
      <4>3. q \in p .. N /\ q \in 0 .. N /\ e \in 1 .. N /\ q + 1 = e /\ e \in p .. N /\ (e > i + 2 => q > p)
            BY <1>1, <4>2
      <4>4. ASSUME NEW k \in (p + 1) .. q,
                   ~(data[k] # "BEL" /\ ~(k > p + 1 /\ data[k] = "BACKSLASH" /\ data[k - 1] = "ESC"))
            PROVE FALSE
        <5>1. k \in i + 2 .. N /\ k < e /\ k \in Nat /\ p + 1 = i + 2 BY <1>1, <4>2
        <5>2. k \in E BY <4>4, <5>1 DEF OSCEnds
        <5> QED BY <3>2, <4>1, <4>2, <5>1, <5>2
      <4>5. g[q].mode = (IF q > p /\ data[q] = "ESC" THEN "OSC_ESC" ELSE "OSC") /\ g[q].t = g[p].t
            BY <2>1, <3>3, <4>3, <4>4, OSCRuns
      <4>6. g[e] = TerminalStep(g[q], data[e]) /\ data[e] \in Seen /\ g[q] \in TerminalRecord
            BY <1>2, <1>3, <4>3
      <4>7. g[e].mode = "text" /\ g[e].t = g[q].t
        <5>1. data[e] = "BEL" \/ (data[e] = "BACKSLASH" /\ g[q].mode = "OSC_ESC") BY <4>2, <4>3, <4>5
        <5>2. g[q].mode \in {"OSC", "OSC_ESC"} BY <4>5
        <5> HIDE DEF q
        <5>3. /\ TerminalStep(g[q], data[e]).t = g[q].t
              /\ TerminalStep(g[q], data[e]).mode =
                   IF data[e] = "BEL" \/ (data[e] = "BACKSLASH" /\ g[q].mode = "OSC_ESC") THEN "text"
                   ELSE IF data[e] = "ESC" THEN "OSC_ESC" ELSE "OSC"
              BY <4>6, <5>2, FromOSC
        <5> QED BY <4>6, <5>1, <5>3
      <4>8. x[1] = "ESC" /\ x[2] = "]" BY <2>5, <2>8, <4>3 DEF e
      <4>9. apply(d.t, x) = d.t
        <5> HIDE DEF x
        <5> QED BY <4>8 DEF apply
      <4>10. g[e].mode = "text" /\ g[e].t = apply(d.t, x) BY <2>4, <4>5, <4>7, <4>9
      <4>11. e \in i .. N + 1 /\ ~(e > N) BY <1>1, <4>2
      <4> QED BY <4>10, <4>11 DEF e, d
    <3> QED BY <3>4, <3>5
  <2> QED BY <2>6, <2>7, <2>8
<1> QED BY <1>1, <1>7, <1>9, <1>10

LoopBody(t, data, f, k) ==
  IF k = 0 THEN [i |-> 1, t |-> t]
  ELSE IF f[k - 1].i > Len(data) \/ elementEnd(data, f[k - 1].i) > Len(data) THEN f[k - 1]
       ELSE [i |-> elementEnd(data, f[k - 1].i) + 1,
             t |-> apply(f[k - 1].t, SubSeq(data, f[k - 1].i, elementEnd(data, f[k - 1].i)))]

\* The loop of feed is well defined.
LEMMA LoopRuns ==
  ASSUME NEW t, NEW data, Len(data) \in Nat
  PROVE  \A k \in 0 .. Len(data) : LoopAt(t, data)[k] = LoopBody(t, data, LoopAt(t, data), k)
<1> DEFINE T == {m \in Nat : \E f : f = [n \in 0..m |-> LoopBody(t, data, f, n)]}
<1>1. 0 \in T
  <2> DEFINE b == [i |-> 1, t |-> t]
  <2>1. [n \in 0..0 |-> b] = [n \in 0..0 |-> LoopBody(t, data, [k \in 0..0 |-> b], n)]
        BY DEF LoopBody
  <2> QED BY <2>1
<1>2. ASSUME NEW m \in Nat, m \in T PROVE m + 1 \in T
  <2>1. PICK f : f = [n \in 0..m |-> LoopBody(t, data, f, n)] BY <1>2
  <2> DEFINE g == [n \in 0..(m + 1) |-> IF n = m + 1 THEN LoopBody(t, data, f, n) ELSE f[n]]
  <2>2. \A n \in 0..m : g[n] = f[n] OBVIOUS
  <2>3. ASSUME NEW n \in 0..(m + 1) PROVE g[n] = LoopBody(t, data, g, n)
    <3>1. LoopBody(t, data, g, n) = LoopBody(t, data, f, n)
      <4>1. CASE n = 0 BY <4>1 DEF LoopBody
      <4>2. CASE n # 0
        <5>1. n - 1 \in 0..m BY <4>2
        <5>2. g[n - 1] = f[n - 1] BY <5>1, <2>2
        <5> HIDE DEF g
        <5> QED BY <5>2 DEF LoopBody
      <4> QED BY <4>1, <4>2
    <3>2. n # m + 1 => f[n] = LoopBody(t, data, f, n)
      <4> SUFFICES ASSUME n # m + 1 PROVE f[n] = LoopBody(t, data, f, n)
          OBVIOUS
      <4>1. n \in 0..m OBVIOUS
      <4> QED BY <4>1, <2>1
    <3> QED BY <3>1, <3>2
  <2>4. g = [n \in 0..(m + 1) |-> LoopBody(t, data, g, n)]
    <3>1. g = [n \in 0..(m + 1) |-> g[n]] OBVIOUS
    <3> HIDE DEF g
    <3> QED BY <3>1, <2>3
  <2> HIDE DEF g
  <2> QED BY <2>4
<1>3. Len(data) \in T
  <2> HIDE DEF T
  <2> QED BY <1>1, <1>2, UpFromZero
<1>4. \E f : f = [n \in 0..Len(data) |-> LoopBody(t, data, f, n)] BY <1>3
<1> DEFINE d == LoopAt(t, data)
<1>5. d = [n \in 0..Len(data) |-> LoopBody(t, data, d, n)] BY <1>4, Zenon DEF LoopAt, LoopBody
<1> HIDE DEF d
<1>6. \A k \in 0 .. Len(data) : d[k] = LoopBody(t, data, d, k) BY <1>5
<1> QED BY <1>6 DEF d

\* The loop of feed keeps to the terminal, and what it leaves has done nothing to it.
LEMMA LoopFollows ==
  ASSUME NEW data \in Seq(Seen), NEW g, Follows(g, data), g[0].mode = "text"
  PROVE  LET l == LoopAt(g[0].t, data)[Len(data)]
         IN  /\ l.i \in 1 .. Len(data) + 1
             /\ g[l.i - 1].mode = "text" /\ g[l.i - 1].t = l.t /\ g[Len(data)].t = l.t
<1> DEFINE N == Len(data)
           L == LoopAt(g[0].t, data)
           Kept(k) == /\ L[k].i \in 1 .. N + 1
                      /\ g[L[k].i - 1].mode = "text" /\ g[L[k].i - 1].t = L[k].t
                      /\ L[k].i > k \/ L[k].i > N \/ elementEnd(data, L[k].i) > N
           T == {k \in Nat : k <= N => Kept(k)}
<1>1. N \in Nat OBVIOUS
<1>2. \A k \in 0 .. N : L[k] = LoopBody(g[0].t, data, L, k) BY <1>1, LoopRuns
<1> HIDE DEF L
<1>3. 0 \in T
  <2>1. 0 \in 0 .. N BY <1>1
  <2>2. L[0] = [i |-> 1, t |-> g[0].t] BY <1>2, <2>1 DEF LoopBody
  <2>3. L[0].i = 1 /\ L[0].t = g[0].t BY <2>2
  <2>4. Kept(0) BY <1>1, <2>3
  <2> QED BY <2>4
<1>4. ASSUME NEW k \in Nat, k \in T PROVE k + 1 \in T
  <2> SUFFICES ASSUME k + 1 <= N PROVE Kept(k + 1)
      OBVIOUS
  <2> DEFINE j == L[k].i
             e == elementEnd(data, j)
  <2>1. k + 1 \in 0 .. N /\ k + 1 # 0 /\ (k + 1) - 1 = k BY <1>1
  <2>2. Kept(k) BY <1>1, <1>4
  <2>3. L[k + 1] = IF j > N \/ e > N THEN L[k]
                   ELSE [i |-> e + 1, t |-> apply(L[k].t, SubSeq(data, j, e))]
        BY <1>2, <2>1 DEF LoopBody
  <2>4. CASE j > N \/ e > N
    <3>1. L[k + 1] = L[k] BY <2>3, <2>4
    <3> QED BY <2>2, <2>4, <3>1
  <2>5. CASE ~(j > N \/ e > N)
    <3>1. j \in 1 .. N /\ g[j - 1].mode = "text" /\ g[j - 1].t = L[k].t BY <1>1, <2>2, <2>5
    <3>2. /\ e \in j .. N + 1
          /\ e <= N => g[e].mode = "text" /\ g[e].t = apply(g[j - 1].t, SubSeq(data, j, e))
      <4> HIDE DEF j
      <4> QED BY <3>1, ElementFollowed
    <3>3. L[k + 1] = [i |-> e + 1, t |-> apply(L[k].t, SubSeq(data, j, e))] BY <2>3, <2>5
    <3>4. L[k + 1].i = e + 1 /\ L[k + 1].t = apply(L[k].t, SubSeq(data, j, e)) BY <3>3
    <3>5. j > k BY <2>2, <2>5
    <3> HIDE DEF j, e
    <3>6. e <= N /\ e + 1 \in 1 .. N + 1 /\ (e + 1) - 1 = e /\ e + 1 > k + 1 BY <1>1, <2>5, <3>1, <3>2, <3>5
    <3>7. g[e].mode = "text" /\ g[e].t = L[k + 1].t BY <3>1, <3>2, <3>4, <3>6
    <3> QED BY <3>4, <3>6, <3>7
  <2> QED BY <2>4, <2>5
<1>5. Kept(N)
  <2>1. N \in T
    <3> HIDE DEF T
    <3> QED BY <1>1, <1>3, <1>4, UpFromZero
  <2> HIDE DEF Kept
  <2> QED BY <1>1, <2>1
<1>6. g[N].t = L[N].t
  <2> DEFINE j == L[N].i
  <2>1. j \in 1 .. N + 1 /\ g[j - 1].mode = "text" /\ g[j - 1].t = L[N].t /\ (j > N \/ elementEnd(data, j) > N)
        BY <1>5
  <2> HIDE DEF j
  <2>2. CASE j > N
    <3>1. j - 1 = N BY <1>1, <2>1, <2>2
    <3> QED BY <2>1, <3>1
  <2>3. CASE ~(j > N)
    <3>1. j \in 1 .. N BY <1>1, <2>1, <2>3
    <3>2. elementEnd(data, j) > N BY <2>1, <2>3
    <3>3. g[N].t = g[j - 1].t BY <2>1, <3>1, <3>2, ElementFollowed
    <3> QED BY <2>1, <3>3
  <2> QED BY <2>2, <2>3
<1> QED BY <1>5, <1>6 DEF L

\* The terminal keeps its types, and what it did before does not change as more comes.
LEMMA TerminalFacts ==
  ASSUME NEW s \in Seq(Seen)
  PROVE  /\ \A n \in 0 .. Len(s) : TerminalUpTo(s)[n] \in TerminalRecord
         /\ \A t \in Seq(Seen) : Len(s) <= Len(t) /\ (\A k \in 1 .. Len(s) : t[k] = s[k]) =>
              \A n \in 0 .. Len(s) : TerminalUpTo(t)[n] = TerminalUpTo(s)[n]
<1>1. TerminalUpTo(s)[0] = Unfed /\ \A n \in 1 .. Len(s) : TerminalUpTo(s)[n] = TerminalStep(TerminalUpTo(s)[n - 1], s[n])
      BY TerminalRuns
<1>2. \A n \in 0 .. Len(s) : TerminalUpTo(s)[n] \in TerminalRecord
  <2> DEFINE D == TerminalUpTo(s)
             T == {n \in Nat : n <= Len(s) => D[n] \in TerminalRecord}
  <2>1. Unfed \in TerminalRecord
    <3>1. << >> \in Seq(Seen) /\ Len(<< >>) = 0 OBVIOUS
    <3>2. Blank \in Trackers BY <3>1 DEF Blank, Trackers
    <3> QED BY <3>1, <3>2 DEF Unfed, TerminalRecord, TerminalModes
  <2>2. 0 \in T BY <1>1, <2>1
  <2>3. ASSUME NEW n \in Nat, n \in T PROVE n + 1 \in T
    <3> SUFFICES ASSUME n + 1 <= Len(s) PROVE D[n + 1] \in TerminalRecord
        OBVIOUS
    <3>1. D[n] \in TerminalRecord /\ s[n + 1] \in Seen BY <2>3
    <3>2. D[n + 1] = TerminalStep(D[n], s[n + 1]) BY <1>1
    <3> HIDE DEF D
    <3>3. TerminalStep(D[n], s[n + 1]) \in TerminalRecord BY <3>1, TerminalTyped
    <3> QED BY <3>2, <3>3
  <2>4. Nat \subseteq T
    <3> HIDE DEF T
    <3> QED BY <2>2, <2>3, UpFromZero
  <2> QED BY <2>4
<1>3. ASSUME NEW t \in Seq(Seen), Len(s) <= Len(t), \A k \in 1 .. Len(s) : t[k] = s[k]
      PROVE  \A n \in 0 .. Len(s) : TerminalUpTo(t)[n] = TerminalUpTo(s)[n]
  <2> DEFINE D == TerminalUpTo(s)
             C == TerminalUpTo(t)
             T == {n \in Nat : n <= Len(s) => C[n] = D[n]}
  <2>1. C[0] = Unfed /\ \A n \in 1 .. Len(t) : C[n] = TerminalStep(C[n - 1], t[n]) BY TerminalRuns
  <2>2. 0 \in T BY <1>1, <2>1
  <2>3. ASSUME NEW n \in Nat, n \in T PROVE n + 1 \in T
    <3> SUFFICES ASSUME n + 1 <= Len(s) PROVE C[n + 1] = D[n + 1]
        OBVIOUS
    <3>1. C[n] = D[n] /\ s[n + 1] = t[n + 1] BY <1>3, <2>3
    <3>2. D[n + 1] = TerminalStep(D[n], s[n + 1]) BY <1>1
    <3>3. C[n + 1] = TerminalStep(C[n], t[n + 1]) BY <1>3, <2>1
    <3> HIDE DEF C, D
    <3> QED BY <3>1, <3>2, <3>3
  <2>4. Nat \subseteq T
    <3> HIDE DEF T
    <3> QED BY <2>2, <2>3, UpFromZero
  <2> QED BY <2>4
<1> QED BY <1>2, <1>3

\* The tracker is where the terminal was when it last was in the text, which is the line it
\* still has, and keeps the bytes that came since.
Keeps(r, s) ==
  /\ s \in Seq(Seen) /\ r \in [line : Seq(Seen), col : Nat, escBuf : Seq(Seen)]
  /\ Len(r.escBuf) <= Len(s)
  /\ \A x \in 1 .. Len(r.escBuf) : r.escBuf[x] = s[(Len(s) - Len(r.escBuf)) + x]
  /\ TerminalUpTo(s)[Len(s) - Len(r.escBuf)].mode = "text"
  /\ TerminalUpTo(s)[Len(s) - Len(r.escBuf)].t = [r EXCEPT !.escBuf = << >>]
  /\ TerminalUpTo(s)[Len(s)].t = [r EXCEPT !.escBuf = << >>]

\* A read of any bytes keeps it so.
LEMMA FeedKeeps ==
  ASSUME NEW r, NEW s, Keeps(r, s), NEW p \in Seq(Seen)
  PROVE  Keeps(feed(r, p), s \o p)
<1> DEFINE z == s \o p
           d == r.escBuf \o p
           n == Len(s)
           k == Len(r.escBuf)
           c == Len(p)
           o == n - k
           t == [r EXCEPT !.escBuf = << >>]
           D == TerminalUpTo(z)
           g == [x \in 0 .. Len(d) |-> D[o + x]]
<1>1. s \in Seq(Seen) /\ r.escBuf \in Seq(Seen) /\ k <= n /\ \A x \in 1 .. k : r.escBuf[x] = s[o + x]
      BY DEF Keeps
<1>2. /\ z \in Seq(Seen) /\ Len(z) = n + c /\ d \in Seq(Seen) /\ Len(d) = k + c
      /\ n \in Nat /\ k \in Nat /\ c \in Nat
      BY <1>1
<1>3. /\ \A x \in 1 .. n : z[x] = s[x]
      /\ \A x \in 1 .. c : z[n + x] = p[x]
      /\ \A x \in 1 .. k : d[x] = r.escBuf[x]
      /\ \A x \in 1 .. c : d[k + x] = p[x]
      BY <1>1
<1>4. TerminalUpTo(s)[o].mode = "text" /\ TerminalUpTo(s)[o].t = t BY DEF Keeps
<1>5. o \in 0 .. n
  <2> HIDE DEF n, k
  <2> QED BY <1>1, <1>2
<1>6. D[o] = TerminalUpTo(s)[o]
  <2>1. Len(s) <= Len(z) /\ \A x \in 1 .. Len(s) : z[x] = s[x]
    <3> HIDE DEF z, n, c
    <3>1. n <= Len(z) BY <1>2
    <3> QED BY <1>3, <3>1 DEF n
  <2> HIDE DEF z
  <2>2. \A x \in 0 .. Len(s) : TerminalUpTo(z)[x] = TerminalUpTo(s)[x] BY <1>1, <1>2, <2>1, TerminalFacts
  <2> QED BY <1>5, <2>2
<1> HIDE DEF z, d, n, k, c, t, D
<1>7. ASSUME NEW x \in 1 .. Len(d) PROVE d[x] = z[o + x]
  <2>1. CASE x \in 1 .. k
    <3>1. o + x \in 1 .. n BY <1>1, <1>2, <2>1
    <3> QED BY <1>1, <1>3, <2>1, <3>1
  <2>2. CASE x \notin 1 .. k
    <3>1. x - k \in 1 .. c /\ x = k + (x - k) /\ o + x = n + (x - k) BY <1>1, <1>2, <2>2
    <3> QED BY <1>3, <3>1
  <2> QED BY <2>1, <2>2
<1>8. o \in Nat /\ o + Len(d) = Len(z) BY <1>2, <1>5
<1> HIDE DEF o
<1>9. Follows(g, d)
  <2>1. \A x \in 0 .. Len(d) : g[x] = D[o + x] /\ o + x \in 0 .. Len(z) BY <1>2, <1>8
  <2>2. \A x \in 0 .. Len(z) : D[x] \in TerminalRecord BY <1>2, TerminalFacts DEF D
  <2>3. \A x \in 1 .. Len(z) : D[x] = TerminalStep(D[x - 1], z[x])
    <3>1. Len(z) \in Nat BY <1>2
    <3> QED BY <3>1, TerminalRuns DEF D
  <2> HIDE DEF g
  <2>4. ASSUME NEW x \in 0 .. Len(d) PROVE g[x] \in TerminalRecord BY <2>1, <2>2
  <2>5. ASSUME NEW x \in 1 .. Len(d) PROVE g[x] = TerminalStep(g[x - 1], d[x])
    <3>1. x \in 0 .. Len(d) /\ x - 1 \in 0 .. Len(d) /\ o + x \in 1 .. Len(z) /\ o + (x - 1) = (o + x) - 1
          BY <1>2, <1>8
    <3>2. g[x] = D[o + x] /\ g[x - 1] = D[(o + x) - 1] BY <2>1, <3>1
    <3>3. D[o + x] = TerminalStep(D[(o + x) - 1], z[o + x]) BY <2>3, <3>1
    <3> QED BY <1>7, <3>2, <3>3
  <2> QED BY <2>4, <2>5 DEF Follows
<1>10. g[0].mode = "text" /\ g[0].t = t
  <2>1. 0 \in 0 .. Len(d) /\ o + 0 = o BY <1>2, <1>8
  <2>2. g[0] = D[o] BY <2>1
  <2> HIDE DEF g
  <2> QED BY <1>4, <1>6, <2>2
<1> DEFINE l == LoopAt(t, d)[Len(d)]
           m == l.i
<1>11. /\ m \in 1 .. Len(d) + 1
       /\ g[m - 1].mode = "text" /\ g[m - 1].t = l.t /\ g[Len(d)].t = l.t
  <2> HIDE DEF g
  <2> QED BY <1>2, <1>9, <1>10, LoopFollows
<1> DEFINE q == SubSeq(d, m, Len(d))
<1>12. feed(r, p) = [l.t EXCEPT !.escBuf = q] BY DEF feed, unfinished, d, t
<1> HIDE DEF l, m
<1>13. /\ q \in Seq(Seen) /\ Len(q) = Len(d) + 1 - m /\ \A x \in 1 .. Len(q) : q[x] = d[(m - 1) + x]
  <2>1. m \in Nat /\ Len(d) \in Nat /\ m <= Len(d) + 1 /\ m >= 1 BY <1>2, <1>11
  <2>2. q \in Seq(Seen) BY <1>2, <2>1
  <2>3. Len(q) = Len(d) + 1 - m BY <1>2, <2>1
  <2>4. \A x \in 1 .. Len(q) : q[x] = d[(m - 1) + x] BY <1>2, <2>1, <2>3
  <2> QED BY <2>2, <2>3, <2>4
<1> HIDE DEF q
<1>14. /\ m - 1 \in 0 .. Len(d) /\ Len(d) \in 0 .. Len(d) /\ Len(z) - Len(q) = o + (m - 1) BY <1>2, <1>8, <1>11, <1>13
<1>15. D[o + (m - 1)].mode = "text" /\ D[o + (m - 1)].t = l.t /\ D[Len(z)].t = l.t
  <2>1. g[m - 1] = D[o + (m - 1)] /\ g[Len(d)] = D[o + Len(d)] BY <1>14
  <2> HIDE DEF g
  <2> QED BY <1>8, <1>11, <2>1
<1>16. l.t \in Trackers
  <2>1. Len(z) \in 0 .. Len(z) BY <1>2
  <2>2. D[Len(z)] \in TerminalRecord BY <1>2, <2>1, TerminalFacts DEF D
  <2>3. D[Len(z)].t \in Trackers BY <2>2 DEF TerminalRecord
  <2> QED BY <1>15, <2>3
<1> DEFINE f == [l.t EXCEPT !.escBuf = q]
<1>17. /\ f \in [line : Seq(Seen), col : Nat, escBuf : Seq(Seen)] /\ f.escBuf = q
       /\ [f EXCEPT !.escBuf = << >>] = l.t
  <2> DEFINE w == l.t
  <2> HIDE DEF w
  <2>1. w \in [line : Seq(Seen), col : Nat, escBuf : {<< >>}] /\ w.escBuf = << >> BY <1>16 DEF Trackers, w
  <2> DEFINE v == [w EXCEPT !.escBuf = q]
  <2>2. v \in [line : Seq(Seen), col : Nat, escBuf : Seq(Seen)] /\ v.escBuf = q BY <1>13, <2>1
  <2>3. [v EXCEPT !.escBuf = << >>] = w BY <2>1
  <2> HIDE DEF v
  <2> QED BY <2>2, <2>3 DEF v, w
<1> HIDE DEF f
<1>18. ASSUME NEW x \in 1 .. Len(q) PROVE q[x] = z[(Len(z) - Len(q)) + x]
  <2>1. (m - 1) + x \in 1 .. Len(d) /\ o + ((m - 1) + x) = (Len(z) - Len(q)) + x
        BY <1>2, <1>8, <1>11, <1>13, <1>14
  <2> QED BY <1>7, <1>13, <2>1
<1>19. Len(q) <= Len(z) BY <1>2, <1>8, <1>11, <1>13
<1>20. Keeps(f, z) BY <1>2, <1>14, <1>15, <1>17, <1>18, <1>19 DEF Keeps, D
<1> QED BY <1>12, <1>20 DEF f, z

\* Before anything came.
LEMMA NothingFed == Keeps(Blank, << >>)
<1> DEFINE e == << >>
<1>1. e \in Seq(Seen) /\ Len(e) = 0 OBVIOUS
<1>2. Blank \in [line : Seq(Seen), col : Nat, escBuf : Seq(Seen)] /\ Blank.escBuf = e /\ [Blank EXCEPT !.escBuf = e] = Blank
      BY <1>1 DEF Blank
<1>3. TerminalUpTo(e)[0] = Unfed BY <1>1, TerminalRuns
<1>4. Unfed.mode = "text" /\ Unfed.t = Blank BY DEF Unfed
<1> HIDE DEF e
<1>5. Len(Blank.escBuf) = 0 /\ 0 - 0 = 0 BY <1>1, <1>2
<1>6. Keeps(Blank, e) BY <1>1, <1>2, <1>3, <1>4, <1>5 DEF Keeps
<1> QED BY <1>6 DEF e

\* Then the tracker shows what the terminal shows.
LEMMA KeptLine ==
  ASSUME NEW r, NEW s, Keeps(r, s)
  PROVE  /\ r.line = Terminal(s).line /\ r.col = Terminal(s).col
         /\ r.line \in Seq(Seen) /\ r.col \in 0 .. Len(r.line)
<1> DEFINE t == [r EXCEPT !.escBuf = << >>]
<1>1. r \in [line : Seq(Seen), col : Nat, escBuf : Seq(Seen)] /\ s \in Seq(Seen) /\ TerminalUpTo(s)[Len(s)].t = t
      BY DEF Keeps
<1>2. t.line = r.line /\ t.col = r.col /\ r.line \in Seq(Seen) /\ r.col \in Nat BY <1>1
<1> HIDE DEF t
<1>3. Len(s) \in 0 .. Len(s) BY <1>1
<1>4. TerminalUpTo(s)[Len(s)] \in TerminalRecord BY <1>1, <1>3, TerminalFacts
<1>5. t \in Trackers BY <1>1, <1>4 DEF TerminalRecord
<1>6. t.col <= Len(t.line) BY <1>5 DEF Trackers
<1> QED BY <1>1, <1>2, <1>6 DEF Terminal

\* Plain bytes are the line.
LEMMA PlainShown ==
  ASSUME NEW s \in Seq(Seen), \A k \in 1 .. Len(s) : s[k] \notin Controls
  PROVE  Terminal(s).line = s
<1> DEFINE D == TerminalUpTo(s)
           N == Len(s)
           Shows(n) == D[n].mode = "text" /\ D[n].t.line = SubSeq(s, 1, n) /\ D[n].t.col = n
           T == {n \in Nat : n <= N => Shows(n)}
<1>1. N \in Nat OBVIOUS
<1>2. D[0] = Unfed /\ \A n \in 1 .. N : D[n] = TerminalStep(D[n - 1], s[n]) BY TerminalRuns
<1>3. \A n \in 0 .. N : D[n] \in TerminalRecord BY TerminalFacts
<1> HIDE DEF D
<1>4. 0 \in T
  <2>1. D[0].mode = "text" /\ D[0].t.line = << >> /\ D[0].t.col = 0 BY <1>2 DEF Unfed, Blank
  <2>2. SubSeq(s, 1, 0) = << >> OBVIOUS
  <2> QED BY <2>1, <2>2
<1>5. ASSUME NEW n \in Nat, n \in T PROVE n + 1 \in T
  <2> SUFFICES ASSUME n + 1 <= N PROVE Shows(n + 1)
      OBVIOUS
  <2> DEFINE d == D[n]
             b == s[n + 1]
             t == d.t
  <2>1. n \in 0 .. N /\ n + 1 \in 1 .. N /\ (n + 1) - 1 = n BY <1>1
  <2>2. d \in TerminalRecord /\ b \in Seen /\ b \notin Controls BY <1>3, <2>1
  <2>3. d.mode = "text" /\ t.line = SubSeq(s, 1, n) /\ t.col = n BY <1>5, <2>1
  <2>4. D[n + 1] = TerminalStep(d, b) BY <1>2, <2>1
  <2>5. t \in Trackers BY <2>2 DEF TerminalRecord
  <2> HIDE DEF d, b, N
  <2>6. b \notin {"ESC", "CR", "BEL", "BS"} BY <2>2 DEF Controls
  <2>7. TerminalStep(d, b).mode = "text" /\ TerminalStep(d, b).t = feedByte(t, b)
    <3>1. b # "ESC" BY <2>6
    <3> QED BY <2>2, <2>3, <3>1, FromText
  <2> HIDE DEF t
  <2>8. feedByte(t, b) = insertByte(t, b) BY <2>6 DEF feedByte
  <2>9. Len(t.line) = n
    <3>1. n \in 0 .. Len(s) BY <2>1 DEF N
    <3> QED BY <2>3, <3>1, LineCut
  <2>10. insertByte(t, b) = [t EXCEPT !.line = Append(t.line, b), !.col = n + 1]
    <3>1. t.col >= Len(t.line) BY <2>3, <2>9
    <3> QED BY <2>9, <3>1 DEF insertByte
  <2>11. insertByte(t, b).line = Append(t.line, b) /\ insertByte(t, b).col = n + 1 BY <2>5, <2>10 DEF Trackers
  <2>12. SubSeq(s, 1, n + 1) = Append(SubSeq(s, 1, n), b) BY <2>1 DEF b, N
  <2> QED BY <2>3, <2>4, <2>7, <2>8, <2>11, <2>12
<1>6. Shows(N)
  <2>1. N \in T
    <3> HIDE DEF T
    <3> QED BY <1>1, <1>4, <1>5, UpFromZero
  <2> HIDE DEF Shows
  <2> QED BY <1>1, <2>1
<1>7. SubSeq(s, 1, N) = s
  <2>1. SubSeq(s, 1, N) \in Seq(Seen) /\ Len(SubSeq(s, 1, N)) = N BY <1>1
  <2>2. \A k \in 1 .. N : SubSeq(s, 1, N)[k] = s[k] BY <1>1
  <2> QED BY <2>1, <2>2, SeqEqual
<1> QED BY <1>6, <1>7 DEF Terminal, D

\* The last of some places.
LEMMA LastPlace ==
  ASSUME NEW E \in SUBSET Nat, NEW j \in E, \A k \in E : k <= j, NEW n
  PROVE  LastOf(E, n) = j
<1> DEFINE Q(k) == k \in E /\ \A x \in E : k >= x
<1>1. LastOf(E, n) = CHOOSE k : Q(k) BY DEF LastOf
<1>2. Q(j) OBVIOUS
<1>3. \A k : Q(k) => k = j OBVIOUS
<1> HIDE DEF Q
<1> QED BY <1>1, <1>2, <1>3

\* Keys typed are no noise.
LEMMA KeysNoNoise ==
  ASSUME NEW k \in Seq(Keys), k # << >>
  PROVE  NoNoise(k) = k
<1>1. "h" \notin Keys BY CommandAssumption
<1>2. "h" \notin {k[i] : i \in 1 .. Len(k)} BY <1>1
<1> QED BY <1>2 DEF NoNoise, isNoiseCommandLogLine

\* Keys that end the echo are found there.
LEMMA TypedFound ==
  ASSUME NEW k \in Seq(Keys), k # << >>, NEW s, s \in {k, <<"h", "$">> \o k}
  PROVE  mergeCommandLine(k, s) = k
<1> DEFINE S == Keys \cup {"h", "$"}
           h == <<"h", "$">>
           o == Len(s) - Len(k)
           E == {i \in 1 .. Len(s) - Len(k) + 1 : SubSeq(s, i, i + Len(k) - 1) = k}
<1>1. k \in Seq(S) /\ Len(k) \in Nat /\ Len(k) >= 1 OBVIOUS
<1>2. h \in Seq(S) /\ Len(h) = 2 OBVIOUS
<1>3. s \in Seq(S) /\ o \in {0, 2} /\ \A i \in 1 .. Len(k) : s[o + i] = k[i]
  <2>1. CASE s = k BY <1>1, <2>1
  <2>2. CASE s = h \o k
    <3> HIDE DEF h
    <3> HIDE DEF S
    <3>1. /\ h \o k \in Seq(S) /\ Len(h \o k) = 2 + Len(k)
          /\ \A i \in 1 .. Len(h) + Len(k) : (h \o k)[i] = IF i <= Len(h) THEN h[i] ELSE k[i - Len(h)]
          BY <1>1, <1>2, ConcatProperties
    <3>2. ASSUME NEW i \in 1 .. Len(k) PROVE s[2 + i] = k[i]
      <4>1. 2 + i \in 1 .. Len(h) + Len(k) /\ ~(2 + i <= Len(h)) /\ (2 + i) - Len(h) = i BY <1>1, <1>2
      <4> QED BY <2>2, <3>1, <4>1
    <3>3. o = 2 BY <1>1, <2>2, <3>1
    <3> QED BY <2>2, <3>1, <3>2, <3>3 DEF S
  <2> QED BY <2>1, <2>2
<1> HIDE DEF h, o
<1>4. o \in Nat /\ Len(s) = o + Len(k) /\ Len(s) \in Nat BY <1>1, <1>3 DEF o
<1>5. SubSeq(s, o + 1, Len(s)) = k
  <2>1. SubSeq(s, o + 1, Len(s)) \in Seq(S) /\ Len(SubSeq(s, o + 1, Len(s))) = Len(k) BY <1>1, <1>3, <1>4
  <2>2. ASSUME NEW i \in 1 .. Len(k) PROVE SubSeq(s, o + 1, Len(s))[i] = k[i]
    <3>1. SubSeq(s, o + 1, Len(s))[i] = s[o + i] BY <1>1, <1>3, <1>4
    <3> QED BY <1>3, <3>1
  <2> QED BY <1>1, <2>1, <2>2, SeqEqual
<1>6. LastIndex(s, k) = o + 1
  <2>1. E \in SUBSET Nat /\ \A i \in E : i <= o + 1 BY <1>1, <1>4
  <2>2. o + 1 \in E
    <3>1. o + 1 \in 1 .. Len(s) - Len(k) + 1 /\ (o + 1) + Len(k) - 1 = Len(s) BY <1>1, <1>4
    <3> QED BY <1>5, <3>1
  <2> HIDE DEF E
  <2>3. LastOf(E, 0) = o + 1 BY <2>1, <2>2, LastPlace
  <2> QED BY <2>3 DEF LastIndex, E
<1>7. s # << >> BY <1>1, <1>4
<1>8. LastIndex(s, k) > 0 BY <1>4, <1>6
<1>9. mergeCommandLine(k, s) = NoNoise(SubSeq(s, LastIndex(s, k), Len(s))) BY <1>7, <1>8 DEF mergeCommandLine
<1> QED BY <1>5, <1>6, <1>9, KeysNoNoise

CommandInv ==
  /\ start \in Seq(Seen) /\ sent \in Seq(Seen) /\ typed \in Seq(Keys)
  /\ Keeps(tracker, start \o sent)
  /\ \E S : entries \in Seq(S)
  /\ CommandsLogged

\* What is read from the target keeps it.
LEMMA StdoutKeeps ==
  ASSUME CommandInv, NEW p \in Seq(Seen), recordStdout(p)
  PROVE  CommandInv'
<1>1. start \in Seq(Seen) /\ sent \in Seq(Seen) /\ typed \in Seq(Keys) /\ Keeps(tracker, start \o sent)
      BY DEF CommandInv
<1>2. start' = start /\ sent' = sent \o p /\ tracker' = feed(tracker, p) /\ typed' = typed /\ entries' = entries
      BY DEF recordStdout
<1>3. Keeps(feed(tracker, p), (start \o sent) \o p) BY <1>1, FeedKeeps
<1>4. (start \o sent) \o p = start \o (sent \o p) /\ sent \o p \in Seq(Seen) BY <1>1, LinesJoin, LinesJoinThree
<1>5. Keeps(tracker, start \o sent)' BY <1>2, <1>3, <1>4 DEF Keeps
<1>6. CommandsLogged' BY <1>2 DEF CommandInv, CommandsLogged
<1>7. (\E S : entries \in Seq(S))' BY <1>2 DEF CommandInv
<1> QED BY <1>1, <1>2, <1>4, <1>5, <1>6, <1>7 DEF CommandInv

\* So does Enter, and a command shown as it was typed is logged so.
LEMMA EnterKeeps ==
  ASSUME CommandInv, flushLine
  PROVE  CommandInv'
<1> DEFINE s == start \o sent
           echo == IF tracker.line = << >> THEN lastEcho ELSE tracker.line
           line == NoNoise(mergeCommandLine(typed, echo))
           e == [typed |-> typed, sent |-> s, logged |-> line]
<1>1. start \in Seq(Seen) /\ sent \in Seq(Seen) /\ typed \in Seq(Keys) /\ Keeps(tracker, s)
      BY DEF CommandInv
<1>2. PICK S : entries \in Seq(S) BY DEF CommandInv
<1>3. /\ start' = << >> /\ sent' = << >> /\ tracker' = Blank /\ typed' = << >>
      /\ entries' = Append(entries, e)
      BY DEF flushLine
<1>4. << >> \in Seq(Seen) /\ << >> \in Seq(Keys) /\ << >> \o << >> = << >> OBVIOUS
<1>5. Keeps(tracker, start \o sent)'
  <2>1. (start \o sent)' = << >> BY <1>3, <1>4
  <2> QED BY <1>3, <2>1, NothingFed DEF Keeps
<1>6. ASSUME typed # << >>, s \in {typed, <<"h", "$">> \o typed} PROVE line = typed
  <2>1. s \in Seq(Seen) BY <1>1, LinesJoin
  <2>2. \A k \in 1 .. Len(s) : s[k] \notin Controls
    <3>1. \A k \in 1 .. Len(typed) : typed[k] \notin Controls BY <1>1, CommandAssumption
    <3>2. "h" \notin Controls /\ "$" \notin Controls BY DEF Controls
    <3>3. CASE s = typed
      <4> HIDE DEF s
      <4> QED BY <3>1, <3>3
    <3>4. CASE s = <<"h", "$">> \o typed
      <4> DEFINE R == Keys \cup {"h", "$"}
                 h == <<"h", "$">>
      <4>1. h \in Seq(R) /\ Len(h) = 2 /\ typed \in Seq(R) /\ Len(typed) \in Nat /\ h[1] = "h" /\ h[2] = "$" BY <1>1
      <4>2. s = h \o typed BY <3>4
      <4> HIDE DEF R, h, s
      <4>3. /\ Len(h \o typed) = Len(h) + Len(typed)
            /\ \A i \in 1 .. Len(h) + Len(typed) : (h \o typed)[i] = IF i <= Len(h) THEN h[i] ELSE typed[i - Len(h)]
            BY <4>1, ConcatProperties
      <4> SUFFICES ASSUME NEW k \in 1 .. Len(s) PROVE s[k] \notin Controls
          OBVIOUS
      <4>4. k \in 1 .. Len(h) + Len(typed) /\ s[k] = IF k <= Len(h) THEN h[k] ELSE typed[k - Len(h)] BY <4>2, <4>3
      <4>5. CASE k <= Len(h)
        <5>1. k = 1 \/ k = 2 BY <4>1, <4>4, <4>5
        <5> QED BY <3>2, <4>1, <4>4, <4>5, <5>1
      <4>6. CASE ~(k <= Len(h))
        <5>1. k - Len(h) \in 1 .. Len(typed) BY <4>1, <4>4, <4>6
        <5> QED BY <3>1, <4>4, <4>6, <5>1
      <4> QED BY <4>5, <4>6
    <3> QED BY <1>6, <3>3, <3>4
  <2>3. tracker.line = s BY <1>1, <2>1, <2>2, PlainShown, KeptLine
  <2>4. s # << >>
    <3>1. Len(typed) \in Nat /\ Len(typed) >= 1 /\ Len(<<"h", "$">>) = 2 BY <1>1, <1>6
    <3>2. CASE s = typed BY <1>6, <3>2
    <3>3. CASE s = <<"h", "$">> \o typed
      <4> DEFINE R == Keys \cup {"h", "$"}
                 h == <<"h", "$">>
      <4>1. h \in Seq(R) /\ typed \in Seq(R) /\ Len(h) = 2 BY <1>1
      <4> HIDE DEF R, h
      <4>2. Len(h \o typed) = Len(h) + Len(typed) BY <4>1, ConcatProperties
      <4>3. h \o typed # << >> BY <3>1, <4>1, <4>2
      <4> QED BY <3>3, <4>3 DEF h
    <3> QED BY <1>6, <3>2, <3>3
  <2>5. echo = s BY <2>3, <2>4
  <2> HIDE DEF echo, s
  <2>6. mergeCommandLine(typed, s) = typed BY <1>1, <1>6, TypedFound
  <2>7. NoNoise(typed) = typed BY <1>1, <1>6, KeysNoNoise
  <2> QED BY <2>5, <2>6, <2>7
<1> HIDE DEF line, s
<1>7. e.typed = typed /\ e.sent = s /\ e.logged = line OBVIOUS
<1> HIDE DEF e
<1>8. entries' \in Seq(S \cup {e})
  <2>1. entries \in Seq(S \cup {e}) BY <1>2
  <2> QED BY <1>3, <2>1
<1>9. Len(entries') = Len(entries) + 1 /\ Len(entries) \in Nat /\ entries'[Len(entries) + 1] = e
      /\ \A i \in 1 .. Len(entries) : entries'[i] = entries[i]
      BY <1>2, <1>3
<1>10. CommandsLogged'
  <2> SUFFICES ASSUME NEW i \in 1 .. Len(entries'), entries'[i].typed # << >>,
                      entries'[i].sent \in {entries'[i].typed, <<"h", "$">> \o entries'[i].typed}
               PROVE  entries'[i].logged = entries'[i].typed
      BY DEF CommandsLogged
  <2>1. CASE i \in 1 .. Len(entries)
    <3>1. entries'[i] = entries[i] BY <1>9, <2>1
    <3> QED BY <2>1, <3>1 DEF CommandInv, CommandsLogged
  <2>2. CASE i = Len(entries) + 1
    <3>1. entries'[i] = e BY <1>9, <2>2
    <3> QED BY <1>6, <1>7, <3>1
  <2> QED BY <1>9, <2>1, <2>2
<1> QED BY <1>3, <1>4, <1>5, <1>8, <1>10 DEF CommandInv

\* However the output of the target is cut into reads, the line and the cursor the recorder
\* keeps are those of a terminal, and a command shown as it was typed is logged as typed.
THEOREM CommandsAreLogged == CommandSpec => []CommandLogSound
<1>1. CommandInit => CommandInv
  <2> SUFFICES ASSUME CommandInit PROVE CommandInv
      OBVIOUS
  <2>1. sent = << >> /\ typed = << >> /\ entries = << >> /\ tracker = feed(Blank, start) BY DEF CommandInit
  <2>2. start \in Seq(Seen)
    <3>1. << >> \in Seq(Seen) /\ <<"x", "x", "ESC", "[", "D">> \in Seq(Seen) BY DEF Seen
    <3> QED BY <3>1 DEF CommandInit
  <2>3. << >> \o start = start /\ start \o << >> = start BY <2>2
  <2>4. Keeps(feed(Blank, start), << >> \o start) BY <2>2, NothingFed, FeedKeeps
  <2>5. Keeps(tracker, start \o sent) BY <2>1, <2>3, <2>4
  <2>6. sent \in Seq(Seen) /\ typed \in Seq(Keys) /\ entries \in Seq({}) /\ Len(entries) = 0 BY <2>1
  <2>7. CommandsLogged BY <2>6 DEF CommandsLogged
  <2> QED BY <2>2, <2>5, <2>6, <2>7 DEF CommandInv
<1>2. CommandInv /\ [CommandNext]_commandVars => CommandInv'
  <2> SUFFICES ASSUME CommandInv, [CommandNext]_commandVars PROVE CommandInv'
      OBVIOUS
  <2>1. ASSUME NEW B \in SUBSET Seen, NEW n \in Int, NEW p \in Cuts(B, n), recordStdout(p) PROVE CommandInv'
    <3>1. PICK m \in 1 .. n : p \in [1 .. m -> B] BY <2>1 DEF Cuts
    <3>2. m \in Nat /\ p \in [1 .. m -> Seen] BY <3>1
    <3>3. p \in Seq(Seen) BY <3>2
    <3> QED BY <2>1, <3>3, StdoutKeeps
  <2>2. MaxEcho - Len(sent) \in Int /\ Least(2, MaxEcho - Len(sent)) \in Int BY CommandAssumption DEF CommandInv, Least
  <2>3. Printed \in SUBSET Seen /\ Shown \in SUBSET Seen BY DEF Seen
  <2>4. CASE TrackerNext BY <2>1, <2>2, <2>3, <2>4 DEF TrackerNext
  <2>5. CASE RecorderNext
    <3>1. CASE \E p \in Cuts(Shown, Least(2, MaxEcho - Len(sent))) : recordStdout(p) BY <2>1, <2>2, <2>3, <3>1
    <3>2. CASE \E k \in Keys : RecordKey(k)
      <4>1. PICK k \in Keys : RecordKey(k) BY <3>2
      <4>2. start' = start /\ sent' = sent /\ tracker' = tracker /\ entries' = entries /\ typed' = Append(typed, k)
            BY <4>1 DEF RecordKey
      <4>3. typed' \in Seq(Keys) BY <4>2 DEF CommandInv
      <4> QED BY <4>2, <4>3 DEF CommandInv, CommandsLogged, Keeps
    <3>3. CASE flushLine BY <3>3, EnterKeeps
    <3> QED BY <2>5, <3>1, <3>2, <3>3 DEF RecorderNext
  <2>6. CASE UNCHANGED commandVars BY <2>6 DEF commandVars, CommandInv, CommandsLogged, Keeps
  <2> QED BY <2>4, <2>5, <2>6 DEF CommandNext
<1>3. CommandInv => CommandLogSound
  <2> SUFFICES ASSUME CommandInv PROVE CommandLogSound
      OBVIOUS
  <2>1. Keeps(tracker, start \o sent) BY DEF CommandInv
  <2>2. EchoFollowed BY <2>1, KeptLine DEF EchoFollowed
  <2> QED BY <2>2 DEF CommandInv, CommandLogSound
<1> QED BY <1>1, <1>2, <1>3, PTL DEF CommandSpec

=================================================================================
