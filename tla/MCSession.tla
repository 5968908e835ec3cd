------------------------------ MODULE MCSession ------------------------------
(***************************************************************************)
(* One session, part by part: its life in the manager, its output and      *)
(* replay, the replay buffer alone under writes of any length, the Telnet   *)
(* filter and the shared VNC bridge.  They share no state here, so `focus`  *)
(* picks one of them and the others stay as they started.                   *)
(***************************************************************************)
EXTENDS SessionLifecycle, TerminalOutput, TelnetIac, VncBridge

CONSTANT FirstStop   \* one of Stoppers

VARIABLE focus

\* Every write of one to three bytes.
AllChunks == UNION {[1 .. n -> Data] : n \in 1 .. 3}

BridgeState == <<pump, written, recorded, produced, clients, viewer, ctxDone, runLoop>>

SessionInit ==
  /\ focus \in {"life", "output", "ring", "telnet", "vnc"}
  /\ LifeInit /\ OutputInit /\ TelnetInit /\ VncInit
  /\ focus # "life" => origin = "browser"
  /\ focus # "vnc" => \A s, t \in Tabs : tab[s] = tab[t]

\* The stop requests are interchangeable, so one of them always comes first.  The
\* handlers that ask for the room are followed from its removal on, where the room
\* they make can outlive the session.
LifeScope ==
  /\ \A s \in Stoppers : stopper[s].pc # "idle" => stopper[FirstStop].pc # "idle"
  /\ visiting => origin = "browser" /\ worker \in {"remove"} \cup RoomRemoved

SessionNext ==
  /\ UNCHANGED focus
  /\ \/ focus = "life" /\ LifeNext /\ LifeScope' /\ UNCHANGED <<outputVars, telnetVars, vncVars>>
     \/ focus = "output" /\ OutputNext /\ UNCHANGED <<lifeVars, telnetVars, vncVars>>
     \/ focus = "ring" /\ RingNext /\ UNCHANGED <<lifeVars, BridgeState, telnetVars, vncVars>>
     \/ focus = "telnet" /\ TelnetNext /\ UNCHANGED <<lifeVars, outputVars, vncVars>>
     \/ focus = "vnc" /\ VncNext /\ UNCHANGED <<lifeVars, outputVars, telnetVars>>

SessionSpec ==
  SessionInit /\ [][SessionNext]_<<focus, lifeVars, outputVars, telnetVars, vncVars>> /\ LifeFairness

=============================================================================
