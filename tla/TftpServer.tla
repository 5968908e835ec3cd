------------------------------ MODULE TftpServer ------------------------------
(***************************************************************************)
(* The embedded TFTP server (internal/tftp): a controller that counts TFTP *)
(* targets and runs the server while there are any, the write windows the  *)
(* server keeps per target, and the requests around them - create, update, *)
(* delete and import of targets, opening and closing a window, a device    *)
(* that writes, and a restart of the process.                              *)
(***************************************************************************)
EXTENDS Integers, FiniteSets

CONSTANTS
  Devices,   \* target ids
  Calls,     \* HTTP requests and TFTP transfers in flight at a time
  MaxCount   \* bound: the count above which no target is added or changed

ASSUME TftpAssumption == IsFiniteSet(Devices) /\ IsFiniteSet(Calls) /\ MaxCount \in Nat

VARIABLES
  proto,     \* the protocol of each target row: "gone", "tftp" or "other"
  refCount,  \* controller.refCount
  running,   \* controller.running, with its server
  windows,   \* Server.windows: targets with a write window, of the server that runs
  call,      \* the requests
  drifted,   \* history: an event that the count is known not to follow
  outlived,  \* history: targets whose window may outlive the row: it was being opened when
             \* the row went, or the delete had not been able to read the row
  strayed    \* history: a write was let in for a target deleted earlier

tftpVars == <<proto, refCount, running, windows, call, drifted, outlived, strayed>>

NoCall == [pc |-> "idle", device |-> "none", was |-> "gone", new |-> "gone", srv |-> "nil", op |-> "none"]

TftpRows == {d \in Devices : proto[d] = "tftp"}
InCall(c, pc) == call[c].pc = pc
CallTo(c, pc) == call' = [call EXCEPT ![c].pc = pc]
EndCall(c) == call' = [call EXCEPT ![c] = NoCall]

TftpInit ==
  /\ proto = [d \in Devices |-> "gone"]
  /\ refCount = 0 /\ running = FALSE
  /\ windows = {} /\ outlived = {}
  /\ call = [c \in Calls |-> NoCall]
  /\ drifted = FALSE /\ strayed = FALSE

-------------------------------------------------------------------------------
(***************************************************************************)
(* The controller, one critical section each.  A server that stops takes   *)
(* its windows with it; a call that holds it keeps a dead server.          *)
(***************************************************************************)
\* MkdirAll of the root may fail: the count has gone up and nothing runs.
NotifyTargetCreated(p) ==
  IF p # "tftp" THEN UNCHANGED <<refCount, running, drifted>>
  ELSE /\ refCount' = refCount + 1
       /\ running' \in {TRUE, running}
       /\ drifted' = (drifted \/ ~running')

Orphaned(cs) == [c \in Calls |-> IF cs[c].srv = "live" THEN [cs[c] EXCEPT !.srv = "dead"] ELSE cs[c]]

\* The count stops at zero, so a deletion told before its creation is lost.
NotifyTargetDeleted(p, cs) ==
  IF p # "tftp" THEN UNCHANGED <<refCount, running, windows, drifted>> /\ call' = cs
  ELSE LET n == IF refCount > 0 THEN refCount - 1 ELSE 0
       IN /\ refCount' = n
          /\ drifted' = (drifted \/ refCount = 0)
          /\ running' = (running /\ n > 0)
          /\ windows' = IF n > 0 THEN windows ELSE {}
          /\ call' = IF n > 0 THEN cs ELSE Orphaned(cs)

-------------------------------------------------------------------------------
\* handleCreateTarget: the row, and the notification after everything else.
CreateDevice(c, d, p) ==
  /\ InCall(c, "idle") /\ proto[d] = "gone" /\ refCount < MaxCount
  /\ proto' = [proto EXCEPT ![d] = p]
  /\ call' = [call EXCEPT ![c] = [NoCall EXCEPT !.pc = "created", !.device = d, !.new = p]]
  /\ UNCHANGED <<refCount, running, windows, drifted, outlived, strayed>>

ToldCreated(c) ==
  /\ InCall(c, "created")
  /\ NotifyTargetCreated(call[c].new)
  /\ EndCall(c)
  /\ UNCHANGED <<proto, windows, outlived, strayed>>

\* An error after the insert (group, fingerprint) returns without telling it.
CreateAborted(c) ==
  /\ InCall(c, "created") /\ EndCall(c)
  /\ drifted' = (drifted \/ call[c].new = "tftp")
  /\ UNCHANGED <<proto, refCount, running, windows, outlived, strayed>>

\* createTargetFromImport never tells it.
ImportDevice(d, p) ==
  /\ proto[d] = "gone"
  /\ proto' = [proto EXCEPT ![d] = p]
  /\ drifted' = (drifted \/ p = "tftp")
  /\ UNCHANGED <<refCount, running, windows, call, outlived, strayed>>

\* handleUpdateTarget and handleDeleteTarget read the row first.
ReadDevice(c, d, op) ==
  /\ InCall(c, "idle") /\ proto[d] # "gone"
  /\ call' = [call EXCEPT ![c] = [NoCall EXCEPT !.pc = op, !.device = d, !.was = proto[d]]]
  /\ UNCHANGED <<proto, refCount, running, windows, drifted, outlived, strayed>>

\* Update of a row that has gone is an error.
UpdateDevice(c, p) ==
  /\ InCall(c, "update") /\ refCount < MaxCount
  /\ LET d == call[c].device
     IN IF proto[d] = "gone" THEN EndCall(c) /\ UNCHANGED <<proto, drifted>>
        ELSE /\ proto' = [proto EXCEPT ![d] = p]
             /\ drifted' = (drifted \/ call[c].was # proto[d])
             /\ call' = [call EXCEPT ![c].pc = "updated", ![c].new = p]
  /\ UNCHANGED <<refCount, running, windows, outlived, strayed>>

\* Only a change of protocol is told: the old one deleted, the new one created.
ToldUpdatedFault(c) ==
  /\ InCall(c, "updated") /\ EndCall(c)
  /\ UNCHANGED <<proto, refCount, running, windows, drifted, outlived, strayed>>

ToldUpdated(c) ==
  /\ InCall(c, "updated")
  /\ IF call[c].was = call[c].new THEN EndCall(c) /\ UNCHANGED <<refCount, running, windows, drifted>>
     ELSE NotifyTargetDeleted(call[c].was, [call EXCEPT ![c].pc = "created"])
  /\ UNCHANGED <<proto, outlived, strayed>>

\* A delete: the row, then the window if a server runs, then the notification.
Opening(d) == \E c \in Calls : call[c].device = d /\ call[c].op = "open" /\ call[c].pc # "idle"

DeleteDevice(c) ==
  /\ InCall(c, "delete")
  /\ LET d == call[c].device
     IN IF proto[d] = "gone" THEN EndCall(c) /\ UNCHANGED <<proto, drifted, outlived>>
        ELSE /\ proto' = [proto EXCEPT ![d] = "gone"]
             /\ drifted' = (drifted \/ call[c].was # proto[d])
             /\ outlived' = IF Opening(d) THEN outlived \cup {d} ELSE outlived
             /\ CallTo(c, "closeWindow")
  /\ UNCHANGED <<refCount, running, windows, strayed>>

\* The error of Get is not looked at: without the row, the delete closes no window and
\* tells nobody.
DeleteUnread(d) ==
  /\ proto[d] # "gone"
  /\ proto' = [proto EXCEPT ![d] = "gone"]
  /\ drifted' = (drifted \/ proto[d] = "tftp")
  /\ outlived' = IF d \in windows \/ Opening(d) THEN outlived \cup {d} ELSE outlived
  /\ UNCHANGED <<refCount, running, windows, call, strayed>>

CloseDeletedFault(c) ==
  /\ InCall(c, "closeWindow") /\ CallTo(c, "deleted")
  /\ UNCHANGED <<proto, refCount, running, windows, drifted, outlived, strayed>>

CloseDeleted(c) ==
  /\ InCall(c, "closeWindow")
  /\ windows' = windows \ {call[c].device}
  /\ CallTo(c, "deleted")
  /\ UNCHANGED <<proto, refCount, running, drifted, outlived, strayed>>

ToldDeleted(c) ==
  /\ InCall(c, "deleted")
  /\ NotifyTargetDeleted(call[c].was, [call EXCEPT ![c] = NoCall])
  /\ UNCHANGED <<proto, outlived, strayed>>

-------------------------------------------------------------------------------
\* The window requests: the target, Current(), and the window of that server.
LoadForWindow(c, d, op) ==
  /\ InCall(c, "idle") /\ proto[d] = "tftp"
  /\ call' = [call EXCEPT ![c] = [NoCall EXCEPT !.pc = "current", !.device = d, !.op = op]]
  /\ UNCHANGED <<proto, refCount, running, windows, drifted, outlived, strayed>>

Current(c) ==
  /\ InCall(c, "current")
  /\ call' = IF running THEN [call EXCEPT ![c].pc = "window", ![c].srv = "live"]
             ELSE [call EXCEPT ![c] = NoCall]
  /\ UNCHANGED <<proto, refCount, running, windows, drifted, outlived, strayed>>

SetWindow(c) ==
  /\ InCall(c, "window")
  /\ windows' = IF call[c].srv = "dead" THEN windows
                ELSE IF call[c].op = "open" THEN windows \cup {call[c].device}
                ELSE windows \ {call[c].device}
  /\ EndCall(c)
  /\ UNCHANGED <<proto, refCount, running, drifted, outlived, strayed>>

\* The time of a window is up; it is dropped where it is looked at.
ExpireWindow(d) ==
  /\ d \in windows
  /\ windows' = windows \ {d}
  /\ UNCHANGED <<proto, refCount, running, call, drifted, outlived, strayed>>

\* A device writes: authorize loads the target, enforceWindow looks for its window.
Authorize(c, d) ==
  /\ InCall(c, "idle") /\ running /\ proto[d] = "tftp"
  /\ call' = [call EXCEPT ![c] = [NoCall EXCEPT !.pc = "enforce", !.device = d, !.srv = "live"]]
  /\ UNCHANGED <<proto, refCount, running, windows, drifted, outlived, strayed>>

Deleting(d) == \E c \in Calls : call[c].device = d /\ InCall(c, "closeWindow")

EnforceWindow(c) ==
  /\ InCall(c, "enforce")
  /\ LET d == call[c].device
         allowed == d \in windows /\ call[c].srv = "live"
     IN strayed' = (strayed \/ (allowed /\ proto[d] = "gone" /\ ~Deleting(d) /\ d \notin outlived))
  /\ EndCall(c)
  /\ UNCHANGED <<proto, refCount, running, windows, drifted, outlived>>

\* A restart: DisableAtStartup has removed some rows, which are not told apart from the
\* others here.
StartAgain(removed) ==
  /\ proto' = [d \in Devices |-> IF d \in removed THEN "gone" ELSE proto[d]]
  /\ windows' = {} /\ outlived' = {}
  /\ call' = [c \in Calls |-> NoCall]
  /\ UNCHANGED strayed

\* StartServerIfNeeded counts the rows.
Restart(removed) ==
  /\ StartAgain(removed)
  /\ refCount' = Cardinality(TftpRows \ removed)
  /\ running' = (refCount' > 0)
  /\ drifted' = FALSE

\* The rows cannot be listed, or the root not made: nothing is counted and nothing runs.
RestartUnserved(removed) ==
  /\ TftpRows # removed
  /\ StartAgain(removed)
  /\ refCount' = 0 /\ running' = FALSE
  /\ drifted' = TRUE

TftpNext ==
  \/ \E c \in Calls, d \in Devices :
       \/ \E p \in {"tftp", "other"} : CreateDevice(c, d, p)
       \/ \E op \in {"update", "delete"} : ReadDevice(c, d, op)
       \/ \E op \in {"open", "close"} : LoadForWindow(c, d, op)
       \/ Authorize(c, d)
  \/ \E c \in Calls :
       \/ ToldCreated(c) \/ CreateAborted(c) \/ ToldUpdated(c) \/ DeleteDevice(c)
       \/ \E p \in {"tftp", "other"} : UpdateDevice(c, p)
       \/ CloseDeleted(c) \/ ToldDeleted(c) \/ Current(c) \/ SetWindow(c) \/ EnforceWindow(c)
  \/ \E d \in Devices : ExpireWindow(d) \/ \E p \in {"tftp", "other"} : ImportDevice(d, p)
  \/ \E d \in Devices : DeleteUnread(d)
  \/ \E removed \in SUBSET TftpRows : Restart(removed) \/ RestartUnserved(removed)

TftpSpec == TftpInit /\ [][TftpNext]_tftpVars

-------------------------------------------------------------------------------
\* When no request is under way, the controller has counted the TFTP targets and
\* runs a server exactly when there are some, unless something happened that the
\* count is known not to follow: an import, a create that failed half way, an
\* update or delete that had read an older protocol, a delete that had not been able
\* to read the row, a deletion told before the creation it undoes, a root that could
\* not be made, or a start that could not list the rows.
RefCountExact ==
  (\A c \in Calls : InCall(c, "idle")) /\ ~drifted
    => refCount = Cardinality(TftpRows) /\ (running <=> refCount > 0)

\* A deleted target keeps no write window and no device writes for it, unless the
\* window was being opened when the row went or the delete could not read the row.
DeletedTakesNoWrites ==
  /\ ~strayed
  /\ \A d \in windows : proto[d] = "gone" => d \in outlived \/ Deleting(d)

\* The TFTP server runs exactly while a target wants it, and a deleted target takes
\* no more writes.
TftpSound == RefCountExact /\ DeletedTakesNoWrites

===============================================================================
