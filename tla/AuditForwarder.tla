----------------------------- MODULE AuditForwarder -----------------------------
(***************************************************************************)
(* Forwarding audit entries to a collector: the forwarder of the audit sink *)
(* with its bounded channel, its goroutine and its connection, replaced by  *)
(* every PUT of the settings while entries are being written.  Overlapping  *)
(* PUTs write the row and swap the forwarder in steps of their own.  A start *)
(* runs the row, or what the environment configures when there is none or   *)
(* it cannot be read.                                                       *)
(***************************************************************************)
EXTENDS Naturals

CONSTANTS
  Forwarders,    \* forwarders a process makes
  Puts,          \* PUT requests of the settings in flight
  FwdBuffer,     \* Buffer of the configuration
  NoForwarder    \* nil

ASSUME NoForwarderIsNone == NoForwarder \notin Forwarders

\* A configuration: disabled, one dial per entry (udp, unixgram), or a connection
\* that is kept (tcp, unix).
FwdConfigs == {"off", "datagram", "stream"}

VARIABLES
  fwdRow,      \* the configuration in app_settings, or "none"
  fwdEnv,      \* the configuration of the process's environment
  forwarder,   \* auditSink.forwarder
  fwd,         \* the forwarders
  put,         \* handlePutAuditForwarderSettings
  overlapped,  \* history: the last forwarder came from a PUT that another overlapped
  misread,     \* history: the forwarder in use is of a start that could not read the row, or
               \* had no file to write to
  orphans,     \* history: forwarders started for a sink that then could not be made
  lateDial     \* history: forwarders that dialled after close had seen to the connection

forwarderVars == <<fwdRow, fwdEnv, forwarder, fwd, put, overlapped, misread, orphans, lateDial>>

Unmade == [loop |-> "unmade", config |-> "off", queue |-> 0, closes |-> 0, conn |-> FALSE]
Fresh(config) == [Unmade EXCEPT !.loop = "select", !.config = config]
IdlePut == [pc |-> "idle", config |-> "off", old |-> NoForwarder, alone |-> FALSE]
InFlight == {p \in Puts : put[p].pc # "idle"}
RunningConfig == IF forwarder = NoForwarder THEN "off" ELSE fwd[forwarder].config
Configured(row, env) == IF row = "none" THEN env ELSE row

\* newAuditForwarder at a start: f, or none for a configuration that is off.
Made(f, config) == [g \in Forwarders |-> IF g = f /\ config # "off" THEN Fresh(config) ELSE Unmade]
InUse(f, config) == IF config = "off" THEN NoForwarder ELSE f

\* The first start: no row yet.
ForwarderInit ==
  /\ fwdRow = "none" /\ fwdEnv \in FwdConfigs
  /\ \E f \in Forwarders : fwd = Made(f, fwdEnv) /\ forwarder = InUse(f, fwdEnv)
  /\ put = [p \in Puts |-> IdlePut]
  /\ overlapped = FALSE /\ misread = FALSE
  /\ orphans = {} /\ lateDial = {}

-------------------------------------------------------------------------------
(* handlePutAuditForwarderSettings.                                          *)

BeginPut(p, config) ==
  /\ put[p] = IdlePut
  /\ put' = [q \in Puts |->
                IF q = p THEN [IdlePut EXCEPT !.pc = "save", !.config = config, !.alone = (InFlight = {})]
                ELSE [put[q] EXCEPT !.alone = FALSE]]
  /\ UNCHANGED <<fwdRow, fwdEnv, forwarder, fwd, overlapped, misread, orphans, lateDial>>

saveAuditForwarderConfigToDB(p) ==
  /\ put[p].pc = "save"
  /\ \/ fwdRow' = put[p].config /\ put' = [put EXCEPT ![p].pc = "set"]
     \/ UNCHANGED fwdRow /\ put' = [put EXCEPT ![p] = IdlePut]
  /\ UNCHANGED <<fwdEnv, forwarder, fwd, overlapped, misread, orphans, lateDial>>

\* newAuditForwarder: none for a configuration that is off.
NewForwarders(config) == IF config = "off" THEN {NoForwarder} ELSE {f \in Forwarders : fwd[f] = Unmade}
WithNew(f, config) == [g \in Forwarders |-> IF g = f THEN Fresh(config) ELSE fwd[g]]

\* The old forwarder is not told to stop.
setAuditForwarderFault(p) ==
  /\ put[p].pc = "set"
  /\ \E f \in NewForwarders(put[p].config) :
       /\ fwd' = WithNew(f, put[p].config)
       /\ forwarder' = f
  /\ put' = [put EXCEPT ![p] = IdlePut]
  /\ overlapped' = ~put[p].alone /\ misread' = FALSE
  /\ UNCHANGED <<fwdRow, fwdEnv, orphans, lateDial>>

\* The swap is under the sink's lock; nobody else knows the new forwarder before.
setAuditForwarder(p) ==
  /\ put[p].pc = "set"
  /\ \E f \in NewForwarders(put[p].config) :
       /\ fwd' = WithNew(f, put[p].config)
       /\ forwarder' = f
  /\ put' = [put EXCEPT ![p] = IF forwarder = NoForwarder THEN IdlePut
                                ELSE [IdlePut EXCEPT !.pc = "close", !.old = forwarder]]
  /\ overlapped' = ~put[p].alone /\ misread' = FALSE
  /\ UNCHANGED <<fwdRow, fwdEnv, orphans, lateDial>>

\* close: the done channel, and then the connection under the forwarder's lock.
CloseForwarder(p) ==
  /\ put[p].pc = "close"
  /\ fwd' = [fwd EXCEPT ![put[p].old].closes = @ + 1]
  /\ put' = [put EXCEPT ![p].pc = "conn"]
  /\ UNCHANGED <<fwdRow, fwdEnv, forwarder, overlapped, misread, orphans, lateDial>>

\* The connection is left to the goroutine.
CloseConnFault(p) ==
  /\ put[p].pc = "conn"
  /\ put' = [put EXCEPT ![p] = IdlePut]
  /\ UNCHANGED <<fwdRow, fwdEnv, forwarder, fwd, overlapped, misread, orphans, lateDial>>

CloseConn(p) ==
  /\ put[p].pc = "conn"
  /\ fwd' = [fwd EXCEPT ![put[p].old].conn = FALSE]
  /\ put' = [put EXCEPT ![p] = IdlePut]
  /\ UNCHANGED <<fwdRow, fwdEnv, forwarder, overlapped, misread, orphans, lateDial>>

-------------------------------------------------------------------------------
(* The end of auditSink.write, and the goroutine of a forwarder.             *)

\* The writer has read the forwarder before, and it may have been replaced since.  A
\* full channel drops the entry; what enters one whose goroutine has returned is never
\* read, and not counted here.
sendJSONL(f) ==
  /\ f = forwarder \/ fwd[f].closes > 0 \/ \E p \in Puts : put[p].old = f
  /\ fwd[f].queue < FwdBuffer /\ fwd[f].loop # "returned"
  /\ fwd' = [fwd EXCEPT ![f].queue = @ + 1]
  /\ UNCHANGED <<fwdRow, fwdEnv, forwarder, put, overlapped, misread, orphans, lateDial>>

\* select: an entry, a tick of a forwarder that keeps a connection, or done.
LoopSelects(f) ==
  /\ fwd[f].loop = "select"
  /\ \/ fwd[f].queue > 0 /\ fwd' = [fwd EXCEPT ![f].queue = @ - 1, ![f].loop = "write"]
     \/ fwd[f].config = "stream" /\ fwd' = [fwd EXCEPT ![f].loop = "tick"]
     \/ fwd[f].closes > 0 /\ fwd' = [fwd EXCEPT ![f].loop = "returned", ![f].queue = 0]
  /\ UNCHANGED <<fwdRow, fwdEnv, forwarder, put, overlapped, misread, orphans, lateDial>>

\* ensureConn, which holds the forwarder's lock while it dials, or cannot.
ensureConn(f) ==
  /\ fwd[f].loop = "tick" \/ (fwd[f].loop = "write" /\ fwd[f].config = "stream")
  /\ LET then == IF fwd[f].loop = "tick" THEN "select" ELSE "send" IN
     \/ /\ fwd' = [fwd EXCEPT ![f].conn = TRUE, ![f].loop = then]
        /\ lateDial' = lateDial \cup (IF fwd[f].closes > 0 /\ \A p \in Puts : put[p].old # f THEN {f} ELSE {})
     \/ /\ ~fwd[f].conn
        /\ fwd' = [fwd EXCEPT ![f].loop = "select"]
        /\ UNCHANGED lateDial
  /\ UNCHANGED <<fwdRow, fwdEnv, forwarder, put, overlapped, misread, orphans>>

\* The rest of writeOne: a failed write closes the connection; a datagram leaves
\* nothing open.
writeOne(f) ==
  /\ fwd[f].loop = "send" \/ (fwd[f].loop = "write" /\ fwd[f].config = "datagram")
  /\ fwd' \in {[fwd EXCEPT ![f].loop = "select", ![f].conn = c] : c \in {FALSE, fwd[f].conn}}
  /\ UNCHANGED <<fwdRow, fwdEnv, forwarder, put, overlapped, misread, orphans, lateDial>>

\* initAuditSink of the next process, in the same environment.
StartSink(f, config) ==
  /\ fwd' = Made(f, config)
  /\ put' = [p \in Puts |-> IdlePut]
  /\ overlapped' = FALSE /\ lateDial' = {}
  /\ UNCHANGED <<fwdRow, fwdEnv>>

RestartSink(f) ==
  /\ StartSink(f, Configured(fwdRow, fwdEnv))
  /\ forwarder' = InUse(f, Configured(fwdRow, fwdEnv))
  /\ misread' = FALSE /\ orphans' = {}

\* loadAuditForwarderConfigFromDB: a query that fails, or a row that is no JSON, counts as no row.
RestartUnread(f) ==
  /\ StartSink(f, fwdEnv)
  /\ forwarder' = InUse(f, fwdEnv)
  /\ misread' = TRUE /\ orphans' = {}

\* newAuditSink cannot open its file: the sink that is used instead has no forwarder, and the
\* one that was made keeps its goroutine.
RestartFileless(f) ==
  \E config \in {Configured(fwdRow, fwdEnv), fwdEnv} :
    /\ StartSink(f, config)
    /\ forwarder' = NoForwarder
    /\ misread' = TRUE /\ orphans' = {InUse(f, config)} \ {NoForwarder}

ForwarderNext ==
  \/ \E p \in Puts :
       \/ \E config \in FwdConfigs : BeginPut(p, config)
       \/ saveAuditForwarderConfigToDB(p) \/ setAuditForwarder(p)
       \/ CloseForwarder(p) \/ CloseConn(p)
  \/ \E f \in Forwarders : sendJSONL(f) \/ LoopSelects(f) \/ ensureConn(f) \/ writeOne(f)
  \/ \E f \in Forwarders : RestartSink(f) \/ RestartUnread(f) \/ RestartFileless(f)

ForwarderSpec == ForwarderInit /\ [][ForwarderNext]_forwarderVars

-------------------------------------------------------------------------------
\* A forwarder is told to stop once, and only one that was replaced: two closes of its
\* channel would panic.  The others are the one in use and the ones a PUT is about to
\* stop, so that no goroutine runs on for nobody; but for the one made for a sink whose
\* file could not be opened.
OneForwarder ==
  \A f \in Forwarders :
    /\ fwd[f].closes <= 1
    /\ fwd[f].closes = 1 => f # forwarder
    /\ fwd[f].loop # "unmade" /\ fwd[f].closes = 0 =>
         f = forwarder \/ f \in orphans \/ \E p \in Puts : put[p].pc = "close" /\ put[p].old = f

\* With no PUT in flight what runs is what a restart loads, unless the PUT that
\* installed it ran while another did, or no PUT has come since a start that could not
\* read the row or open the file.
RunsWhatIsSaved ==
  InFlight = {} => RunningConfig = Configured(fwdRow, fwdEnv) \/ overlapped \/ misread

\* A connection to the collector has a goroutine that writes to it, unless that dialled
\* while it was being stopped.
ConnHasLoop == \A f \in Forwarders : fwd[f].conn /\ fwd[f].loop = "returned" =>
  f \in lateDial \/ \E p \in Puts : put[p].old = f

\* Replacing the audit forwarder leaves one of them, as configured.
ForwarderSound == OneForwarder /\ RunsWhatIsSaved /\ ConnHasLoop

===============================================================================
