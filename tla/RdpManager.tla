------------------------------ MODULE RdpManager ------------------------------
(***************************************************************************)
(* Browser RDP sessions (rdpvnc.Manager and handleRDPBrowserWebSocket) of  *)
(* one user on one target: a bridge is three child processes, started for  *)
(* seconds outside any lock; the manager's maps name the bridge and the    *)
(* session of the key; a goroutine per bridge clears them when it exits.   *)
(***************************************************************************)
EXTENDS FiniteSets

CONSTANTS
  Bridges,   \* bridges, each with the session id it is registered under
  Conns,     \* requests in flight: connects and deletes
  Sizes      \* screen sizes a browser asks for

ASSUME RdpAssumption ==
  IsFiniteSet(Bridges) /\ IsFiniteSet(Conns) /\ Sizes # {} /\ "none" \notin Bridges \cup Sizes

VARIABLES
  bridge,       \* the processes of each bridge, and its size
  bridgeOfKey,  \* Manager.bridges[key]
  sessionOfKey, \* Manager.sessionIDByKey[key]
  sessionsByID, \* Manager.sessionsByID
  watched,      \* bridges whose goroutine has not cleared the maps yet
  conn          \* the requests

rdpVars == <<bridge, bridgeOfKey, sessionOfKey, sessionsByID, watched, conn>>
maps == <<bridgeOfKey, sessionOfKey, sessionsByID>>

NoConn == [pc |-> "idle", size |-> "none", own |-> "none", old |-> "none"]
Unused == [state |-> "unused", size |-> "none"]
InConn(c, pc) == conn[c].pc = pc
ConnTo(c, pc) == conn' = [conn EXCEPT ![c].pc = pc]
Stopped(bs, b) == [bs EXCEPT ![b].state = "exited"]

RdpInit ==
  /\ bridge = [b \in Bridges |-> Unused]
  /\ bridgeOfKey = "none" /\ sessionOfKey = "none"
  /\ sessionsByID = {} /\ watched = {}
  /\ conn = [c \in Conns |-> NoConn]

-------------------------------------------------------------------------------
\* GetSessionByKey: attach to a session of that size, replace one of another size,
\* or start a bridge.
Found == sessionOfKey # "none" /\ sessionOfKey \in sessionsByID

Connect(c, size) ==
  /\ InConn(c, "idle")
  /\ ~(Found /\ bridge[sessionOfKey].size = size)
  /\ conn' = [conn EXCEPT ![c] = [NoConn EXCEPT !.pc = IF Found THEN "remove" ELSE "start",
                                                !.size = size,
                                                !.old = IF Found THEN sessionOfKey ELSE "none"]]
  /\ UNCHANGED <<bridge, maps, watched>>

\* A delete has no size; a replacing connect goes on to start its own bridge, and
\* one that has registered its own goes on to the upgrade.
NextOf(c) == IF conn[c].own # "none" THEN "upgrade" ELSE IF conn[c].size = "none" THEN "idle" ELSE "start"

\* RemoveSession: the maps under the lock, Stop after it.
Forget(sid) ==
  IF sid \in sessionsByID
  THEN /\ sessionsByID' = sessionsByID \ {sid}
       /\ sessionOfKey' = IF sessionOfKey = sid THEN "none" ELSE sessionOfKey
       /\ bridgeOfKey' = IF bridgeOfKey = sid THEN "none" ELSE bridgeOfKey
  ELSE UNCHANGED maps

RemoveSession(c) ==
  /\ InConn(c, "remove")
  /\ Forget(conn[c].old)
  /\ conn' = [conn EXCEPT ![c].pc = IF conn[c].old \in sessionsByID THEN "stopOld" ELSE NextOf(c),
                          ![c].old = IF conn[c].old \in sessionsByID THEN @ ELSE "none"]
  /\ UNCHANGED <<bridge, watched>>

StopOld(c) ==
  /\ InConn(c, "stopOld")
  /\ bridge' = Stopped(bridge, conn[c].old)
  /\ conn' = [conn EXCEPT ![c].pc = NextOf(c), ![c].old = "none"]
  /\ UNCHANGED <<maps, watched>>

\* Start: the processes come up, or the request fails.
Start(c, b) ==
  /\ InConn(c, "start") /\ bridge[b] = Unused
  /\ bridge' = [bridge EXCEPT ![b] = [state |-> "up", size |-> conn[c].size]]
  /\ conn' = [conn EXCEPT ![c].pc = "register", ![c].own = b]
  /\ UNCHANGED <<maps, watched>>

StartFails(c) ==
  /\ InConn(c, "start") /\ conn' = [conn EXCEPT ![c] = NoConn]
  /\ UNCHANGED <<bridge, maps, watched>>

\* RegisterSession: the session that has the key gives way, its bridge is stopped
\* once the lock is free.
RegisterSessionFault(c) ==
  /\ InConn(c, "register")
  /\ bridgeOfKey' = conn[c].own /\ sessionOfKey' = conn[c].own
  /\ sessionsByID' = (sessionsByID \ {sessionOfKey}) \cup {conn[c].own}
  /\ watched' = watched \cup {conn[c].own}
  /\ ConnTo(c, "upgrade")
  /\ UNCHANGED bridge

RegisterSession(c) ==
  /\ InConn(c, "register")
  /\ bridgeOfKey' = conn[c].own /\ sessionOfKey' = conn[c].own
  /\ sessionsByID' = (sessionsByID \ {sessionOfKey}) \cup {conn[c].own}
  /\ watched' = watched \cup {conn[c].own}
  /\ conn' = [conn EXCEPT ![c].pc = IF bridgeOfKey = "none" THEN "upgrade" ELSE "stopOld",
                          ![c].old = bridgeOfKey]
  /\ UNCHANGED bridge

\* The connection is upgraded and attached; when that fails the bridge is stopped.
Upgrade(c, ok) ==
  /\ InConn(c, "upgrade")
  /\ bridge' = IF ok THEN bridge ELSE Stopped(bridge, conn[c].own)
  /\ conn' = [conn EXCEPT ![c] = NoConn]
  /\ UNCHANGED <<maps, watched>>

\* handleRDPSessionDelete, and the administrator's: GetSession, then RemoveSession.
Delete(c) ==
  /\ InConn(c, "idle")
  /\ \E sid \in sessionsByID : conn' = [conn EXCEPT ![c] = [NoConn EXCEPT !.pc = "remove", !.old = sid]]
  /\ UNCHANGED <<bridge, maps, watched>>

\* xfreerdp exits by itself.
Exit(b) ==
  /\ bridge[b].state = "up"
  /\ bridge' = Stopped(bridge, b)
  /\ UNCHANGED <<maps, watched, conn>>

\* The goroutine of RegisterSession, started once the old bridge has stopped: it
\* clears what still names its own bridge.
ClearedFault(b) ==
  /\ bridge[b].state = "exited" /\ b \in watched
  /\ bridgeOfKey' = IF bridgeOfKey = b THEN "none" ELSE bridgeOfKey
  /\ sessionsByID' = sessionsByID \ {b}
  /\ sessionOfKey' = "none"
  /\ watched' = watched \ {b}
  /\ UNCHANGED <<bridge, conn>>

Cleared(b) ==
  /\ bridge[b].state = "exited" /\ b \in watched
  /\ \A c \in Conns : ~(conn[c].own = b /\ InConn(c, "stopOld"))
  /\ bridgeOfKey' = IF bridgeOfKey = b THEN "none" ELSE bridgeOfKey
  /\ sessionsByID' = sessionsByID \ {b}
  /\ sessionOfKey' = IF sessionOfKey = b THEN "none" ELSE sessionOfKey
  /\ watched' = watched \ {b}
  /\ UNCHANGED <<bridge, conn>>

\* The id of a bridge that nothing names any more is used for another.
Recycle(b) ==
  /\ bridge[b].state = "exited" /\ b \notin watched \cup sessionsByID
  /\ b \notin {bridgeOfKey, sessionOfKey}
  /\ \A c \in Conns : b \notin {conn[c].own, conn[c].old}
  /\ bridge' = [bridge EXCEPT ![b] = Unused]
  /\ UNCHANGED <<maps, watched, conn>>

RdpNext ==
  \/ \E c \in Conns :
       \/ \E size \in Sizes : Connect(c, size)
       \/ RemoveSession(c) \/ StopOld(c)
       \/ \E b \in Bridges : Start(c, b)
       \/ StartFails(c) \/ RegisterSession(c) \/ Delete(c)
       \/ \E ok \in BOOLEAN : Upgrade(c, ok)
  \/ \E b \in Bridges : Exit(b) \/ Cleared(b) \/ Recycle(b)

RdpSpec == RdpInit /\ [][RdpNext]_rdpVars

-------------------------------------------------------------------------------
InHand(b) == \E c \in Conns : b \in {conn[c].own, conn[c].old}

\* Two browsers connect, a third deletes, a bridge exits on its own: a bridge whose
\* processes run is the one the manager has for the key, under its session, unless
\* a request is about to register or to stop it.  No desktop is left running with
\* nothing that lists or can stop it.
NoBridgeLost ==
  \A b \in Bridges : bridge[b].state = "up" /\ ~InHand(b)
    => bridgeOfKey = b /\ sessionOfKey = b /\ b \in sessionsByID

\* The session listed is the one the key leads to: at most one per user and target.
OneSessionPerKey == sessionsByID \subseteq {sessionOfKey}

\* Every desktop process is accounted for: none runs unlisted once its start has
\* ended, and one user has one session per target.
BridgesListed == NoBridgeLost /\ OneSessionPerKey

===============================================================================
