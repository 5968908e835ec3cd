----------------------------- MODULE WriterToken -----------------------------
(***************************************************************************)
(* Who can type into a shared terminal.  The room says which user holds    *)
(* the write token; the bridge of the running session                      *)
(* (sshproxy/bridge_detachable.go, and telnetproxy's copy of it) decides   *)
(* client by client, with the canWrite flag of every attached connection,  *)
(* whose input reaches the remote host.  The handlers of                   *)
(* internal/httpapi/sharing.go and terminal.go keep the two in step, one   *)
(* call at a time: each call is a step, so the handlers interleave with    *)
(* one another, with the bridge's attach loop and with the clients'        *)
(* reader goroutines.                                                      *)
(*                                                                         *)
(* The session runs throughout (SessionLifecycle ends it), so the room is  *)
(* open.  A viewer's join is JoinProtocol's; here it is one step.          *)
(***************************************************************************)
EXTENDS SharingRoom, Naturals, Sequences, FiniteSets

CONSTANTS
  Conns,          \* connections: WebSockets and CLI streams
  FirstConn,      \* the owner's connection the session was started with
  Handlers,       \* sharing and attach requests that may be in flight at once
  AttachBuffer    \* attachChannelBuffer

ASSUME FirstConnIsConn == FirstConn \in Conns
ASSUME AttachBufferIsPositive == AttachBuffer \in Nat \ {0}

VARIABLES
  registered,  \* the bridge is in the bridge registry
  attachCh,    \* Session.AttachCh
  place,       \* how far a connection has come
  who,         \* its UserID
  mode,        \* its AttachMode
  canWrite,    \* clientEntry.canWrite
  reader,      \* the client's reader goroutine
  handler,     \* the handlers in flight
  holders,     \* history: users that were given the token, or own the session
  drove        \* history: users whose input reached the remote host

bridge == <<registered, attachCh, place, who, mode, canWrite, reader>>
writerVars == <<room, bridge, handler, holders, drove>>

\* "offered": its handler has let it through but not queued it yet;
\* "attached": in the bridge's client map; "gone": removed from it.
Places == {"new", "first", "offered", "queued", "attached", "gone"}

HandlerRecord == [pc : {"idle", "attach", "sync", "set", "detach"},
                  user : Users \cup {NoUser}, conn : Conns]
IdleHandler == [pc |-> "idle", user |-> NoUser, conn |-> FirstConn]

WriterInit ==
  /\ opened = TRUE
  /\ members = {Owner}
  /\ invitationID = [u \in Users |-> NoInvitation]
  /\ writerID = Owner
  /\ kicked = {}
  /\ status = [r \in RequestIDs |-> "absent"]
  /\ requester = [r \in RequestIDs |-> Owner]
  /\ registered = FALSE
  /\ attachCh = <<>>
  /\ place = [c \in Conns |-> IF c = FirstConn THEN "first" ELSE "new"]
  /\ who = [c \in Conns |-> Owner]
  /\ mode = [c \in Conns |-> "writer"]
  /\ canWrite = [c \in Conns |-> FALSE]
  /\ reader = [c \in Conns |-> "waiting"]
  /\ handler = [h \in Handlers |-> IdleHandler]
  /\ holders = {Owner}
  /\ drove = {}

Attached == {c \in Conns : place[c] = "attached"}
Writers == {c \in Attached : canWrite[c]}

------------------------------------------------------------------------------
(* The bridge.                                                              *)

\* canWrite of everyone after SetWriter(u); u is never empty here.
SetWriter(u) == [c \in Conns |-> IF c \in Attached THEN who[c] = u ELSE canWrite[c]]

\* The dial succeeded: the control sink learns of the bridge.
Register ==
  /\ ~registered
  /\ registered' = TRUE
  /\ UNCHANGED <<room, attachCh, place, who, mode, canWrite, reader, handler, holders, drove>>

\* A client that attaches as a writer leaves the others' flags alone.
AdmitFault(c) ==
  /\ place' = [place EXCEPT ![c] = "attached"]
  /\ canWrite' = [canWrite EXCEPT ![c] = mode[c] # "viewer"]

\* attachWebSocket and attachStream, with demoteOtherWritersLocked.
Admit(c) ==
  /\ place' = [place EXCEPT ![c] = "attached"]
  /\ canWrite' = [d \in Conns |-> IF d = c THEN mode[c] # "viewer"
                                  ELSE IF d \in Attached /\ mode[c] # "viewer" THEN FALSE
                                  ELSE canWrite[d]]

\* run: the initial connection first, then whatever the channel delivers.
AttachFirst ==
  /\ registered
  /\ place[FirstConn] = "first"
  /\ Admit(FirstConn)
  /\ UNCHANGED <<room, registered, attachCh, who, mode, reader, handler, holders, drove>>

DoAttach ==
  /\ registered
  /\ place[FirstConn] # "first"
  /\ attachCh # <<>>
  /\ Admit(Head(attachCh))
  /\ attachCh' = Tail(attachCh)
  /\ UNCHANGED <<room, registered, who, mode, reader, handler, holders, drove>>

\* detachEntry: the client went away, or a write to it failed.
Disconnect(c) ==
  /\ c \in Attached
  /\ place' = [place EXCEPT ![c] = "gone"]
  /\ UNCHANGED <<room, registered, attachCh, who, mode, canWrite, reader, handler, holders, drove>>

------------------------------------------------------------------------------
(* readWebSocket and attachStream's forwarder: a message is received, the   *)
(* flag is read under the mutex, and only then is the message queued.  A    *)
(* client removed in between keeps its entry, and the entry its flag.       *)

Receive(c) ==
  /\ c \in Attached
  /\ reader[c] = "waiting"
  /\ reader' = [reader EXCEPT ![c] = "received"]
  /\ UNCHANGED <<room, registered, attachCh, place, who, mode, canWrite, handler, holders, drove>>

\* The flag is not consulted.
CheckFlagFault(c) ==
  /\ reader[c] = "received"
  /\ reader' = [reader EXCEPT ![c] = "allowed"]
  /\ UNCHANGED <<room, registered, attachCh, place, who, mode, canWrite, handler, holders, drove>>

CheckFlag(c) ==
  /\ reader[c] = "received"
  /\ reader' = [reader EXCEPT ![c] = IF canWrite[c] THEN "allowed" ELSE "waiting"]
  /\ UNCHANGED <<room, registered, attachCh, place, who, mode, canWrite, handler, holders, drove>>

\* stdinCh and runStdinPump.
Deliver(c) ==
  /\ reader[c] = "allowed"
  /\ reader' = [reader EXCEPT ![c] = "waiting"]
  /\ drove' = drove \cup {who[c]}
  /\ UNCHANGED <<room, registered, attachCh, place, who, mode, canWrite, handler, holders>>

------------------------------------------------------------------------------
(* Attaching.                                                               *)

\* terminalSessionByOwnerOrParticipant; the access check may refuse on top.
MayAttach(u, m) == IF m = "viewer" THEN u \in members ELSE u = Owner \/ writerID = u

\* handleTerminalAttach, and the CLI's watch with mode viewer.
AttachCheck(h, c, u, m) ==
  /\ handler[h].pc = "idle"
  /\ place[c] = "new"
  /\ MayAttach(u, m)
  /\ place' = [place EXCEPT ![c] = "offered"]
  /\ who' = [who EXCEPT ![c] = u]
  /\ mode' = [mode EXCEPT ![c] = m]
  /\ handler' = [handler EXCEPT ![h] = [pc |-> "attach", user |-> u, conn |-> c]]
  /\ UNCHANGED <<room, registered, attachCh, canWrite, reader, holders, drove>>

\* The send on AttachCh does not wait for room.  A writer's handler then syncs
\* the bridge with the room, whether or not the bridge has taken the request yet.
AttachSend(h) ==
  LET c == handler[h].conn IN
  /\ handler[h].pc = "attach"
  /\ IF Len(attachCh) < AttachBuffer
     THEN /\ attachCh' = Append(attachCh, c)
          /\ place' = [place EXCEPT ![c] = "queued"]
          /\ handler' = [handler EXCEPT ![h] = IF mode[c] = "viewer" THEN IdleHandler
                                               ELSE [IdleHandler EXCEPT !.pc = "sync"]]
     ELSE /\ place' = [place EXCEPT ![c] = "gone"]
          /\ handler' = [handler EXCEPT ![h] = IdleHandler]
          /\ UNCHANGED attachCh
  /\ UNCHANGED <<room, registered, who, mode, canWrite, reader, holders, drove>>

\* handleResumeCommand: the owner attaches from the CLI; the room is not asked and
\* the bridge not synced.
Resume(c) ==
  /\ place[c] = "new"
  /\ Len(attachCh) < AttachBuffer
  /\ attachCh' = Append(attachCh, c)
  /\ place' = [place EXCEPT ![c] = "queued"]
  /\ who' = [who EXCEPT ![c] = Owner]
  /\ mode' = [mode EXCEPT ![c] = "writer"]
  /\ UNCHANGED <<room, registered, canWrite, reader, handler, holders, drove>>

------------------------------------------------------------------------------
(* The sharing handlers.                                                    *)

Start(h, pc, u) == handler' = [handler EXCEPT ![h] = [@ EXCEPT !.pc = pc, !.user = u]]

\* What the viewer joins with is immaterial here.
Join(u, inv) == AddViewer(u, inv) /\ UNCHANGED <<bridge, handler, holders, drove>>
Reinvite(u) == Unkick(u) /\ UNCHANGED <<bridge, handler, holders, drove>>

CreateWriteRequest(r, u) ==
  RequestWrite(r, u) /\ UNCHANGED <<bridge, handler, holders, drove>>

\* decideWriteRequest.  Room.GrantWrite's own error path ends the handler.
Decide(h, r, by) ==
  /\ handler[h].pc = "idle"
  /\ by \in members
  /\ \/ /\ GrantWrite(r, by)
        /\ IF requester[r] \in members
           THEN Start(h, "set", requester[r]) /\ holders' = holders \cup {requester[r]}
           ELSE UNCHANGED <<handler, holders>>
     \/ DenyWrite(r, by) /\ UNCHANGED <<handler, holders>>
  /\ UNCHANGED <<bridge, drove>>

\* handleReleaseWriteToken; for the owner the room is left as it is.
Release(h, u) ==
  /\ handler[h].pc = "idle"
  /\ writerID = u
  /\ IF u = Owner THEN UNCHANGED room ELSE ReleaseWrite(u)
  /\ Start(h, "sync", NoUser)
  /\ UNCHANGED <<bridge, holders, drove>>

\* handleKickParticipant, and KickParticipant for a revoked invitation.
KickParticipant(h, u) ==
  /\ handler[h].pc = "idle"
  /\ RemoveParticipant(u)
  /\ Start(h, "detach", u)
  /\ UNCHANGED <<bridge, holders, drove>>

\* DetachUser on the bridge, when the registry has one; otherwise the handler ends.
DetachUser(h) ==
  /\ handler[h].pc = "detach"
  /\ IF registered
     THEN /\ place' = [c \in Conns |-> IF c \in Attached /\ who[c] = handler[h].user
                                       THEN "gone" ELSE place[c]]
          /\ Start(h, "sync", NoUser)
     ELSE /\ handler' = [handler EXCEPT ![h] = IdleHandler]
          /\ UNCHANGED place
  /\ UNCHANGED <<room, registered, attachCh, who, mode, canWrite, reader, holders, drove>>

\* SetWriter(room.WriterID()): the room is read first, under its own lock.
SyncRead(h) ==
  /\ handler[h].pc = "sync"
  /\ Start(h, "set", writerID)
  /\ UNCHANGED <<room, bridge, holders, drove>>

SyncSet(h) ==
  /\ handler[h].pc = "set"
  /\ canWrite' = IF registered THEN SetWriter(handler[h].user) ELSE canWrite
  /\ handler' = [handler EXCEPT ![h] = IdleHandler]
  /\ UNCHANGED <<room, registered, attachCh, place, who, mode, reader, holders, drove>>

------------------------------------------------------------------------------
WriterNext ==
  \/ Register
  \/ AttachFirst
  \/ DoAttach
  \/ \E c \in Conns : Disconnect(c) \/ Receive(c) \/ CheckFlag(c) \/ Deliver(c) \/ Resume(c)
  \/ \E u \in Users :
       \/ \E inv \in Invitations : u # Owner /\ Join(u, inv)
       \/ Reinvite(u)
       \/ \E r \in RequestIDs : CreateWriteRequest(r, u)
  \/ \E h \in Handlers :
       \/ \E c \in Conns, u \in Users, m \in {"writer", "viewer"} : AttachCheck(h, c, u, m)
       \/ AttachSend(h)
       \/ \E r \in RequestIDs, by \in Users : Decide(h, r, by)
       \/ \E u \in Users : Release(h, u) \/ KickParticipant(h, u)
       \/ DetachUser(h)
       \/ SyncRead(h)
       \/ SyncSet(h)

WriterSpec == WriterInit /\ [][WriterNext]_writerVars

------------------------------------------------------------------------------
\* Every variable has its Go type.
WriterTypeOK ==
  /\ RoomTypeOK
  /\ opened
  /\ registered \in BOOLEAN
  /\ attachCh \in Seq(Conns)
  /\ place \in [Conns -> Places]
  /\ who \in [Conns -> Users]
  /\ mode \in [Conns -> {"writer", "viewer"}]
  /\ canWrite \in [Conns -> BOOLEAN]
  /\ reader \in [Conns -> {"waiting", "received", "allowed"}]
  /\ handler \in [Handlers -> HandlerRecord]
  /\ holders \in SUBSET Users
  /\ drove \in SUBSET Users

\* At no moment can two users both drive the session: whatever attaches, grants,
\* releases, kicks and late SetWriter calls come in between, all clients with the
\* flag belong to one user ("must not let both sides drive stdin at once",
\* demoteOtherWritersLocked).
OneWritingUser == \A c, d \in Writers : who[c] = who[d]

\* docs/collaborative-sessions.md:114, "Viewers cannot inject input server-side":
\* only the owner, or a user who was at some time given the token, ever reaches the
\* remote host, although flags are checked before the input is queued and synced
\* after the room has changed.
InputOnlyFromHolders == drove \subseteq holders

\* The inductive form: what may still turn into input comes from holders.
HoldersOnly ==
  /\ Owner \in holders
  /\ writerID \in holders
  /\ drove \subseteq holders
  /\ \A c \in Conns :
       /\ canWrite[c] => who[c] \in holders
       /\ mode[c] = "writer" => who[c] \in holders
       /\ reader[c] = "allowed" => who[c] \in holders
       /\ place[c] = "new" => ~canWrite[c] /\ reader[c] = "waiting"
  /\ \A h \in Handlers : handler[h].pc = "set" => handler[h].user \in holders

------------------------------------------------------------------------------
(* What the comments and docs say, and the code does not do.                *)

Quiet == attachCh = <<>> /\ \A h \in Handlers : handler[h] = IdleHandler

\* docs/collaborative-sessions.md:4: "One participant holds the write token (input is
\* forwarded to the remote host); everyone else is a viewer whose input is dropped".
OnlyTokenHolderWrites == Quiet => \A c \in Writers : who[c] = writerID
=============================================================================
