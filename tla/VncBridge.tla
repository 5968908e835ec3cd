------------------------------- MODULE VncBridge -------------------------------
(***************************************************************************)
(* The shared VNC bridge (vncproxy.RunBridgeDetachable): the loop that       *)
(* attaches browsers, each with a TCP connection of its own to the target    *)
(* and two goroutines that copy, against SetWriter, DetachUser, the end of   *)
(* either connection and the end of the session.                             *)
(***************************************************************************)
EXTENDS Integers

CONSTANTS
  Tabs,      \* browser connections
  VncUsers   \* whose they are

ASSUME TabsAssumption == Tabs \cap {"select", "over"} = {}

VARIABLES
  vncLoop,    \* "select", the tab being dialled for, or "over"
  vncDone,    \* the context is cancelled
  attached,   \* the clients map
  tab,        \* [user, canWrite] of each tab
  ws,         \* "new", "open", "gone" (the browser closed it) or "closed"
  tcp,        \* "none", "open", "gone" (the target closed it) or "closed"
  copier,     \* the goroutines: "off", "running", "leaving" or "returned"
  toClose     \* DetachUser's list, already out of the map

vncVars == <<vncLoop, vncDone, attached, tab, ws, tcp, copier, toClose>>

Directions == {"up", "down"}   \* pumpWSToTCP, pumpTCPToWS

VncInit ==
  /\ vncLoop = "select"
  /\ vncDone = FALSE
  /\ attached = {}
  /\ tab \in [Tabs -> [user : VncUsers, canWrite : {FALSE}]]
  /\ ws = [t \in Tabs |-> "new"]
  /\ tcp = [t \in Tabs |-> "none"]
  /\ copier = [t \in Tabs |-> [d \in Directions |-> "off"]]
  /\ toClose = {}

-------------------------------------------------------------------------------
\* doAttach: the loop dials, up to 15 s, and serves nothing else meanwhile.
DialTarget(t) ==
  /\ vncLoop = "select"
  /\ ws[t] = "new"
  /\ vncLoop' = t
  /\ ws' = [ws EXCEPT ![t] = "open"]
  /\ UNCHANGED <<vncDone, attached, tab, tcp, copier, toClose>>

DialRefused(t) ==
  /\ vncLoop = t
  /\ vncLoop' = "select"
  /\ ws' = [ws EXCEPT ![t] = "closed"]
  /\ UNCHANGED <<vncDone, attached, tab, tcp, copier, toClose>>

\* A new writer leaves the others as they are.
DemotedFault(t) == tab

\* demoteOtherWritersLocked.
Demoted(t) == [s \in Tabs |-> IF s \in attached \ {t} THEN [tab[s] EXCEPT !.canWrite = FALSE] ELSE tab[s]]

attachWebSocket(t, writer) ==
  /\ vncLoop = t
  /\ vncLoop' = "select"
  /\ tcp' = [tcp EXCEPT ![t] = "open"]
  /\ tab' = [(IF writer THEN Demoted(t) ELSE tab) EXCEPT ![t].canWrite = writer]
  /\ attached' = attached \cup {t}
  /\ copier' = [copier EXCEPT ![t] = [d \in Directions |-> "running"]]
  /\ UNCHANGED <<vncDone, ws, toClose>>

\* Either end goes away: environment.
BrowserCloses(t) ==
  /\ ws[t] = "open"
  /\ ws' = [ws EXCEPT ![t] = "gone"]
  /\ UNCHANGED <<vncLoop, vncDone, attached, tab, tcp, copier, toClose>>

TargetCloses(t) ==
  /\ tcp[t] = "open"
  /\ tcp' = [tcp EXCEPT ![t] = "gone"]
  /\ UNCHANGED <<vncLoop, vncDone, attached, tab, ws, copier, toClose>>

\* A goroutine returns when its read fails, or its write while data still comes.
CopierFails(t, d) ==
  /\ copier[t][d] = "running"
  /\ ws[t] # "open" \/ tcp[t] # "open"
  /\ copier' = [copier EXCEPT ![t][d] = "leaving"]
  /\ UNCHANGED <<vncLoop, vncDone, attached, tab, ws, tcp, toClose>>

Closed(conn, ts) == [t \in Tabs |-> IF t \in ts THEN "closed" ELSE conn[t]]

\* Only the goroutine that reads from the target cleans up.
detachEntryFault(t, d) ==
  /\ copier[t][d] = "leaving"
  /\ copier' = [copier EXCEPT ![t][d] = "returned"]
  /\ IF d = "down"
     THEN attached' = attached \ {t} /\ ws' = Closed(ws, {t}) /\ tcp' = Closed(tcp, {t})
     ELSE UNCHANGED <<attached, ws, tcp>>
  /\ UNCHANGED <<vncLoop, vncDone, tab, toClose>>

\* Deferred in both goroutines.
detachEntry(t, d) ==
  /\ copier[t][d] = "leaving"
  /\ copier' = [copier EXCEPT ![t][d] = "returned"]
  /\ attached' = attached \ {t}
  /\ ws' = Closed(ws, {t})
  /\ tcp' = Closed(tcp, {t})
  /\ UNCHANGED <<vncLoop, vncDone, tab, toClose>>

-------------------------------------------------------------------------------
(* Sharing's calls, and the end.                                             *)

SetVncWriter(u) ==
  /\ tab' = [t \in Tabs |-> IF t \in attached THEN [tab[t] EXCEPT !.canWrite = tab[t].user = u] ELSE tab[t]]
  /\ UNCHANGED <<vncLoop, vncDone, attached, ws, tcp, copier, toClose>>

DetachUserTakes(u) ==
  LET mine == {t \in attached : tab[t].user = u} IN
  /\ mine # {}
  /\ toClose' = toClose \cup mine
  /\ attached' = attached \ mine
  /\ UNCHANGED <<vncLoop, vncDone, tab, ws, tcp, copier>>

DetachUserCloses(t) ==
  /\ t \in toClose
  /\ toClose' = toClose \ {t}
  /\ ws' = Closed(ws, {t})
  /\ tcp' = Closed(tcp, {t})
  /\ UNCHANGED <<vncLoop, vncDone, attached, tab, copier>>

VncCancel ==
  /\ ~vncDone
  /\ vncDone' = TRUE
  /\ UNCHANGED <<vncLoop, attached, tab, ws, tcp, copier, toClose>>

VncEnds ==
  /\ vncLoop = "select"
  /\ vncDone
  /\ vncLoop' = "over"
  /\ ws' = Closed(ws, attached)
  /\ tcp' = Closed(tcp, attached)
  /\ attached' = {}
  /\ UNCHANGED <<vncDone, tab, copier, toClose>>

VncNext ==
  \/ \E t \in Tabs :
       \/ DialTarget(t)
       \/ DialRefused(t)
       \/ \E writer \in BOOLEAN : attachWebSocket(t, writer)
       \/ BrowserCloses(t)
       \/ TargetCloses(t)
       \/ \E d \in Directions : CopierFails(t, d) \/ detachEntry(t, d)
       \/ DetachUserCloses(t)
  \/ \E u \in VncUsers : SetVncWriter(u) \/ DetachUserTakes(u)
  \/ VncCancel
  \/ VncEnds

VncSpec == VncInit /\ [][VncNext]_vncVars

-------------------------------------------------------------------------------
\* A connection to the target never outlives its goroutines or the bridge:
\* once either goroutine has returned it is closed, and once the bridge is over
\* only DetachUser can still be about to close it.
NoOrphanUpstream == \A t \in Tabs :
  tcp[t] \in {"open", "gone"} =>
    /\ \A d \in Directions : copier[t][d] # "returned"
    /\ t \in attached \cup toClose

\* Two users never drive the shared desktop at once, whoever attaches as writer
\* while the owner hands control around.
OneDriver == \A s, t \in attached : tab[s].canWrite /\ tab[t].canWrite => tab[s].user = tab[t].user

\* The shared VNC bridge leaks no connection to the target and has one driver.
VncSound == NoOrphanUpstream /\ OneDriver

===============================================================================
