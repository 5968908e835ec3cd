-------------------------- MODULE WriterTokenProofs --------------------------
(***************************************************************************)
(* Who can drive a shared terminal, for any number of users, connections   *)
(* and requests in flight.  InputOnlyFromHolders is not inductive: input   *)
(* is preceded by a flag, a flag by an attach request or a SetWriter call, *)
(* and those by what the handler read from the room.  HoldersOnly follows  *)
(* that chain back to the room's writer.                                   *)
(***************************************************************************)
EXTENDS WriterToken, SharingRoomProofs

USE DEF requests, Viewers, PendingOf, Decided, Statuses

WriterIInv == WriterTypeOK /\ RoomInv /\ HoldersOnly /\ OneWritingUser

\* A fresh session: the owner holds the token and nobody is attached.
LEMMA InitWriterIInv == WriterInit => WriterIInv
<1> SUFFICES ASSUME WriterInit PROVE WriterIInv
    OBVIOUS
<1>1. RoomTypeOK BY OwnerIsUser DEF WriterInit, RoomTypeOK
<1>2. WriterTypeOK
  <2>1. place \in [Conns -> Places] BY DEF WriterInit, Places
  <2>2. handler \in [Handlers -> HandlerRecord]
        BY FirstConnIsConn DEF WriterInit, IdleHandler, HandlerRecord
  <2>3. attachCh \in Seq(Conns) BY DEF WriterInit
  <2> QED BY <1>1, <2>1, <2>2, <2>3, OwnerIsUser DEF WriterInit, WriterTypeOK
<1>3. RoomInv
      BY OwnerIsUser
      DEF WriterInit, RoomInv, OwnerPresent, WriterPresent, KickedAbsent,
          PendingRequesterPresent, OnePendingPerUser, InvitationOnlyOfViewers
<1>4. HoldersOnly BY DEF WriterInit, HoldersOnly, IdleHandler
<1>5. OneWritingUser BY DEF WriterInit, OneWritingUser, Writers, Attached
<1> QED BY <1>2, <1>3, <1>4, <1>5 DEF WriterIInv

\* A step that leaves the room alone leaves it consistent.
LEMMA RoomUntouched ==
  ASSUME WriterIInv, UNCHANGED room PROVE RoomTypeOK' /\ opened' /\ RoomInv'
<1>1. RoomIInv BY DEF WriterIInv, WriterTypeOK, RoomIInv
<1>2. RoomIInv' BY <1>1, StutterIInv
<1> QED BY <1>2 DEF RoomIInv, WriterIInv, WriterTypeOK, room

\* Admit, for a connection that is not in the client map: whoever attaches as a
\* writer silences everybody else.
LEMMA AdmitKeeps ==
  ASSUME WriterIInv, NEW c \in Conns, Admit(c), UNCHANGED <<who, mode>>
  PROVE  /\ place' \in [Conns -> Places]
         /\ canWrite' \in [Conns -> BOOLEAN]
         /\ OneWritingUser'
         /\ \A d \in Conns : /\ canWrite'[d] => canWrite[d] \/ mode[d] = "writer"
                             /\ place'[d] = "new" => place[d] = "new" /\ (canWrite'[d] => canWrite[d])
<1>1. place' \in [Conns -> Places] /\ canWrite' \in [Conns -> BOOLEAN]
      BY DEF Admit, WriterIInv, WriterTypeOK, Places
<1>2. ASSUME mode[c] = "viewer" PROVE OneWritingUser'
  <2>1. \A d \in Conns : canWrite'[d] => d # c /\ canWrite[d]
        BY <1>2 DEF Admit, WriterIInv, WriterTypeOK
  <2>2. \A d \in Conns : d # c => place'[d] = place[d]
        BY DEF Admit, WriterIInv, WriterTypeOK
  <2>3. Writers' \subseteq Writers BY <2>1, <2>2 DEF Writers, Attached
  <2> QED BY <2>3 DEF WriterIInv, OneWritingUser
<1>3. ASSUME mode[c] = "writer" PROVE OneWritingUser'
  <2>1. \A d \in Conns : d # c => place'[d] = place[d]
        BY DEF Admit, WriterIInv, WriterTypeOK
  <2>2. \A d \in Conns : d # c /\ place[d] = "attached" => ~canWrite'[d]
        BY <1>3 DEF Admit, Attached, WriterIInv, WriterTypeOK
  <2>3. Writers' \subseteq {c} BY <2>1, <2>2 DEF Writers, Attached
  <2> QED BY <2>3 DEF OneWritingUser
<1>4. \A d \in Conns : /\ canWrite'[d] => canWrite[d] \/ mode[d] = "writer"
                       /\ place'[d] = "new" => place[d] = "new" /\ (canWrite'[d] => canWrite[d])
      BY DEF Admit, WriterIInv, WriterTypeOK, Places
<1> QED BY <1>1, <1>2, <1>3, <1>4 DEF WriterIInv, WriterTypeOK

\* The bridge's own steps: registration and attaches.
LEMMA AttachStepIInv ==
  ASSUME WriterIInv, Register \/ AttachFirst \/ DoAttach PROVE WriterIInv'
<1> UNCHANGED room BY DEF Register, AttachFirst, DoAttach
<1>0. RoomTypeOK' /\ opened' /\ RoomInv' BY RoomUntouched
<1>1. CASE Register
  <2>1. WriterTypeOK' BY <1>0, <1>1 DEF Register, WriterIInv, WriterTypeOK
  <2>2. HoldersOnly' BY <1>1 DEF Register, room, WriterIInv, HoldersOnly
  <2>3. OneWritingUser' BY <1>1 DEF Register, WriterIInv, OneWritingUser, Writers, Attached
  <2> QED BY <1>0, <2>1, <2>2, <2>3 DEF WriterIInv
<1>2. CASE AttachFirst
  <2>1. Admit(FirstConn) /\ UNCHANGED <<who, mode>> BY <1>2 DEF AttachFirst
  <2>2. OneWritingUser' BY <2>1, AdmitKeeps, FirstConnIsConn
  <2>3. WriterTypeOK' BY <1>0, <1>2, <2>1, AdmitKeeps, FirstConnIsConn
        DEF AttachFirst, WriterIInv, WriterTypeOK
  <2>4. HoldersOnly' BY <1>2, <2>1, AdmitKeeps, FirstConnIsConn
        DEF AttachFirst, room, WriterIInv, WriterTypeOK, HoldersOnly
  <2> QED BY <1>0, <2>2, <2>3, <2>4 DEF WriterIInv
<1>3. CASE DoAttach
  <2>1. Head(attachCh) \in Conns /\ Tail(attachCh) \in Seq(Conns)
        BY <1>3 DEF DoAttach, WriterIInv, WriterTypeOK
  <2>2. Admit(Head(attachCh)) /\ UNCHANGED <<who, mode>> BY <1>3 DEF DoAttach
  <2>3. OneWritingUser' BY <2>1, <2>2, AdmitKeeps
  <2>4. WriterTypeOK' BY <1>0, <1>3, <2>1, <2>2, AdmitKeeps
        DEF DoAttach, WriterIInv, WriterTypeOK
  <2>5. HoldersOnly' BY <1>3, <2>1, <2>2, AdmitKeeps
        DEF DoAttach, room, WriterIInv, WriterTypeOK, HoldersOnly
  <2> QED BY <1>0, <2>3, <2>4, <2>5 DEF WriterIInv
<1> QED BY <1>1, <1>2, <1>3

\* A client's reader, and its disconnection.
LEMMA ClientIInv ==
  ASSUME WriterIInv, NEW c \in Conns, Disconnect(c) \/ Receive(c) \/ CheckFlag(c) \/ Deliver(c)
  PROVE  WriterIInv'
<1> UNCHANGED room BY DEF Disconnect, Receive, CheckFlag, Deliver
<1>0. RoomTypeOK' /\ opened' /\ RoomInv' BY RoomUntouched
<1>1. WriterTypeOK'
      BY <1>0 DEF Disconnect, Receive, CheckFlag, Deliver, WriterIInv, WriterTypeOK, Places
<1>2. HoldersOnly'
  <2>1. CASE Disconnect(c)
        BY <2>1 DEF Disconnect, room, WriterIInv, WriterTypeOK, HoldersOnly
  <2>2. CASE Receive(c)
        BY <2>2 DEF Receive, room, WriterIInv, WriterTypeOK, HoldersOnly, Attached
  <2>3. CASE CheckFlag(c)
        BY <2>3 DEF CheckFlag, room, WriterIInv, WriterTypeOK, HoldersOnly
  <2>4. CASE Deliver(c)
        BY <2>4 DEF Deliver, room, WriterIInv, WriterTypeOK, HoldersOnly
  <2> QED BY <2>1, <2>2, <2>3, <2>4
<1>3. OneWritingUser'
      BY DEF Disconnect, Receive, CheckFlag, Deliver, WriterIInv, WriterTypeOK, OneWritingUser,
             Writers, Attached
<1> QED BY <1>0, <1>1, <1>2, <1>3 DEF WriterIInv

\* A connection comes in: through handleTerminalAttach or the CLI's resume.
LEMMA OfferIInv ==
  ASSUME WriterIInv, NEW c \in Conns,
         \/ Resume(c)
         \/ \E h \in Handlers, u \in Users, m \in {"writer", "viewer"} : AttachCheck(h, c, u, m)
  PROVE  WriterIInv'
<1> UNCHANGED room BY DEF Resume, AttachCheck
<1>0. RoomTypeOK' /\ opened' /\ RoomInv' BY RoomUntouched
<1>1. CASE Resume(c)
  <2>1. WriterTypeOK' BY <1>0, <1>1, OwnerIsUser DEF Resume, WriterIInv, WriterTypeOK, Places
  <2>2. HoldersOnly' BY <1>1 DEF Resume, room, WriterIInv, WriterTypeOK, HoldersOnly
  <2>3. OneWritingUser'
        BY <1>1 DEF Resume, WriterIInv, WriterTypeOK, OneWritingUser, Writers, Attached
  <2> QED BY <1>0, <2>1, <2>2, <2>3 DEF WriterIInv
<1>2. ASSUME NEW h \in Handlers, NEW u \in Users, NEW m \in {"writer", "viewer"},
             AttachCheck(h, c, u, m)
      PROVE  WriterIInv'
  <2>1. WriterTypeOK'
        BY <1>0, <1>2 DEF AttachCheck, HandlerRecord, WriterIInv, WriterTypeOK, Places
  <2>2. m = "writer" => u \in holders
        BY <1>2 DEF AttachCheck, MayAttach, WriterIInv, HoldersOnly
  <2>3. HoldersOnly'
        BY <1>2, <2>2 DEF AttachCheck, room, HandlerRecord, WriterIInv, WriterTypeOK, HoldersOnly
  <2>4. OneWritingUser'
        BY <1>2 DEF AttachCheck, WriterIInv, WriterTypeOK, OneWritingUser, Writers, Attached
  <2> QED BY <1>0, <2>1, <2>3, <2>4 DEF WriterIInv
<1> QED BY <1>1, <1>2

\* The steps of a handler that leave the room alone.
LEMMA HandlerIInv ==
  ASSUME WriterIInv, NEW h \in Handlers,
         AttachSend(h) \/ DetachUser(h) \/ SyncRead(h) \/ SyncSet(h)
  PROVE  WriterIInv'
<1> USE FirstConnIsConn
<1> UNCHANGED room BY DEF AttachSend, DetachUser, SyncRead, SyncSet
<1>0. RoomTypeOK' /\ opened' /\ RoomInv' BY RoomUntouched
<1>a. handler[h] \in HandlerRecord BY DEF WriterIInv, WriterTypeOK
<1>c. handler[h].conn \in Conns BY <1>a DEF HandlerRecord
<1>d. IdleHandler \in HandlerRecord /\ IdleHandler.pc = "idle" BY DEF IdleHandler, HandlerRecord
<1>b. writerID \in Users BY DEF WriterIInv, WriterTypeOK, RoomTypeOK
<1>1. CASE AttachSend(h)
  <2>1. \E hr \in HandlerRecord : hr.pc # "set" /\ handler' = [handler EXCEPT ![h] = hr]
    <3>1. [IdleHandler EXCEPT !.pc = "sync"] \in HandlerRecord BY DEF IdleHandler, HandlerRecord
    <3>2. [IdleHandler EXCEPT !.pc = "sync"].pc = "sync" BY DEF IdleHandler
    <3> QED BY <1>1, <1>d, <3>1, <3>2 DEF AttachSend
  <2>2. attachCh' \in Seq(Conns)
    <3>1. attachCh \in Seq(Conns) BY DEF WriterIInv, WriterTypeOK
    <3>2. \/ attachCh' = Append(attachCh, handler[h].conn)
          \/ attachCh' = attachCh
          BY <1>1 DEF AttachSend
    <3> QED BY <1>c, <3>1, <3>2
  <2>3. \E pl \in {"queued", "gone"} : place' = [place EXCEPT ![handler[h].conn] = pl]
        BY <1>1 DEF AttachSend
  <2>4. UNCHANGED <<registered, who, mode, canWrite, reader, holders, drove>>
        BY <1>1 DEF AttachSend
  <2>5. WriterTypeOK'
        BY <1>0, <2>1, <2>2, <2>3, <2>4 DEF WriterIInv, WriterTypeOK, Places
  <2>6. HoldersOnly'
        BY <1>c, <2>1, <2>3, <2>4 DEF room, WriterIInv, WriterTypeOK, HoldersOnly
  <2>7. OneWritingUser'
        BY <1>c, <2>3, <2>4 DEF WriterIInv, WriterTypeOK, OneWritingUser, Writers, Attached
  <2> QED BY <1>0, <2>5, <2>6, <2>7 DEF WriterIInv
<1>2. CASE DetachUser(h)
  <2>1. \E hr \in HandlerRecord : hr.pc # "set" /\ handler' = [handler EXCEPT ![h] = hr]
    <3>1. [handler[h] EXCEPT !.pc = "sync", !.user = NoUser] \in HandlerRecord
          BY <1>a DEF HandlerRecord
    <3>2. [handler[h] EXCEPT !.pc = "sync", !.user = NoUser].pc = "sync"
          BY <1>a DEF HandlerRecord
    <3> QED BY <1>2, <1>d, <3>1, <3>2 DEF DetachUser, Start
  <2>2. /\ place' \in [Conns -> Places]
        /\ \A c \in Conns : place'[c] = place[c] \/ place'[c] = "gone"
        BY <1>2 DEF DetachUser, WriterIInv, WriterTypeOK, Places
  <2>3. UNCHANGED <<registered, attachCh, who, mode, canWrite, reader, holders, drove>>
        BY <1>2 DEF DetachUser
  <2>4. WriterTypeOK' BY <1>0, <2>1, <2>2, <2>3 DEF WriterIInv, WriterTypeOK
  <2>5. HoldersOnly'
        BY <2>1, <2>2, <2>3 DEF room, WriterIInv, WriterTypeOK, HoldersOnly
  <2>6. OneWritingUser'
        BY <2>2, <2>3 DEF WriterIInv, WriterTypeOK, OneWritingUser, Writers, Attached
  <2> QED BY <1>0, <2>4, <2>5, <2>6 DEF WriterIInv
<1>3. CASE SyncRead(h)
  <2>1. WriterTypeOK'
        BY <1>0, <1>3, <1>a, <1>b DEF SyncRead, Start, bridge, HandlerRecord, WriterIInv, WriterTypeOK
  <2>2. HoldersOnly'
        BY <1>3, <1>a
        DEF SyncRead, Start, bridge, room, HandlerRecord, WriterIInv, WriterTypeOK, HoldersOnly
  <2>3. OneWritingUser'
        BY <1>3 DEF SyncRead, bridge, WriterIInv, OneWritingUser, Writers, Attached
  <2> QED BY <1>0, <2>1, <2>2, <2>3 DEF WriterIInv
<1>4. CASE SyncSet(h)
  <2>1. WriterTypeOK'
        BY <1>0, <1>4, <1>d
        DEF SyncSet, SetWriter, WriterIInv, WriterTypeOK, Attached
  <2>2. HoldersOnly'
        BY <1>4, <1>a, <1>d
        DEF SyncSet, SetWriter, room, WriterIInv, WriterTypeOK, HoldersOnly, Attached
  <2>3. OneWritingUser'
        BY <1>4
        DEF SyncSet, SetWriter, WriterIInv, WriterTypeOK, OneWritingUser, Writers, Attached
  <2> QED BY <1>0, <2>1, <2>2, <2>3 DEF WriterIInv
<1> QED BY <1>1, <1>2, <1>3, <1>4

\* The first step of a handler that changes the room: the room's own lemmas, and
\* nobody but the user a grant names, or the owner, becomes its writer.
LEMMA RoomStepIInv ==
  ASSUME WriterIInv,
         \/ \E u \in Users, inv \in Invitations : u # Owner /\ Join(u, inv)
         \/ \E u \in Users : Reinvite(u)
         \/ \E u \in Users, r \in RequestIDs : CreateWriteRequest(r, u)
         \/ \E h \in Handlers, r \in RequestIDs, by \in Users : Decide(h, r, by)
         \/ \E h \in Handlers, u \in Users : Release(h, u) \/ KickParticipant(h, u)
  PROVE  WriterIInv'
<1>0. RoomIInv BY DEF WriterIInv, WriterTypeOK, RoomIInv
<1>1. ASSUME UNCHANGED <<bridge, handler, holders, drove>>, RoomIInv', opened',
             writerID' = writerID
      PROVE  WriterIInv'
      BY <1>1 DEF bridge, RoomIInv, WriterIInv, WriterTypeOK, HoldersOnly, OneWritingUser,
                  Writers, Attached
<1>2. ASSUME NEW h \in Handlers, NEW pc \in {"sync", "set", "detach"},
             NEW u \in Users \cup {NoUser}, Start(h, pc, u),
             RoomIInv', opened', writerID' \in holders', holders \subseteq holders',
             holders' \in SUBSET Users, pc = "set" => u \in holders',
             UNCHANGED <<bridge, drove>>
      PROVE  WriterIInv'
  <2>1. WriterTypeOK'
        BY <1>2 DEF Start, bridge, HandlerRecord, RoomIInv, WriterIInv, WriterTypeOK
  <2>2. HoldersOnly'
        BY <1>2 DEF Start, bridge, HandlerRecord, WriterIInv, WriterTypeOK, HoldersOnly
  <2>3. OneWritingUser' BY <1>2 DEF bridge, WriterIInv, OneWritingUser, Writers, Attached
  <2> QED BY <1>2, <2>1, <2>2, <2>3 DEF RoomIInv, WriterIInv
<1>3. writerID \in holders /\ Owner \in holders /\ holders \in SUBSET Users
      BY DEF WriterIInv, WriterTypeOK, HoldersOnly
<1>4. ASSUME NEW u \in Users, NEW inv \in Invitations, u # Owner, Join(u, inv)
      PROVE  WriterIInv'
  <2>1. RoomIInv' BY <1>0, <1>4, AddViewerIInv DEF Join, Labels
  <2> QED BY <1>1, <1>4, <2>1 DEF Join, AddViewer
<1>5. ASSUME NEW u \in Users, Reinvite(u) PROVE WriterIInv'
  <2>1. RoomIInv' BY <1>0, <1>5, UnkickIInv DEF Reinvite
  <2> QED BY <1>1, <1>5, <2>1 DEF Reinvite, Unkick
<1>6. ASSUME NEW u \in Users, NEW r \in RequestIDs, CreateWriteRequest(r, u) PROVE WriterIInv'
  <2>1. RoomIInv' BY <1>0, <1>6, RequestWriteIInv DEF CreateWriteRequest
  <2> QED BY <1>1, <1>6, <2>1 DEF CreateWriteRequest, RequestWrite
<1>7. ASSUME NEW h \in Handlers, NEW r \in RequestIDs, NEW by \in Users, Decide(h, r, by)
      PROVE  WriterIInv'
  <2>1. CASE GrantWrite(r, by) /\ requester[r] \in members
    <3>1. RoomIInv' /\ opened' /\ writerID' = requester[r] /\ requester[r] \in Users
          BY <1>0, <2>1, GrantWriteIInv DEF GrantWrite, RoomIInv, RoomTypeOK
    <3>2. CASE Start(h, "set", requester[r]) /\ holders' = holders \cup {requester[r]}
          BY <1>2, <1>3, <1>7, <3>1, <3>2 DEF Decide
    <3>3. CASE DenyWrite(r, by) /\ UNCHANGED <<handler, holders>>
          BY <1>0, <1>1, <1>7, <3>3, DenyWriteIInv DEF Decide, DenyWrite
    <3> QED BY <1>7, <2>1, <3>2, <3>3 DEF Decide
  <2>2. CASE GrantWrite(r, by) /\ requester[r] \notin members
    <3>1. RoomIInv' /\ opened' /\ writerID' = writerID
          BY <1>0, <2>2, GrantWriteIInv DEF GrantWrite
    <3> QED BY <1>1, <1>7, <2>2, <3>1 DEF Decide
  <2>3. CASE DenyWrite(r, by) /\ UNCHANGED <<handler, holders>>
        BY <1>0, <1>1, <1>7, <2>3, DenyWriteIInv DEF Decide, DenyWrite
  <2> QED BY <1>7, <2>1, <2>2, <2>3 DEF Decide
<1>8. ASSUME NEW h \in Handlers, NEW u \in Users, Release(h, u) PROVE WriterIInv'
  <2>1. RoomIInv' /\ opened' /\ writerID' \in holders
        BY <1>0, <1>3, <1>8, StutterIInv, ReleaseWriteIInv
        DEF Release, ReleaseWrite, room, WriterIInv, WriterTypeOK
  <2> QED BY <1>2, <1>3, <1>8, <2>1 DEF Release
<1>9. ASSUME NEW h \in Handlers, NEW u \in Users, KickParticipant(h, u) PROVE WriterIInv'
  <2>1. RoomIInv' /\ opened' /\ writerID' \in holders
        BY <1>0, <1>3, <1>9, RemoveParticipantIInv DEF KickParticipant, RemoveParticipant
  <2> QED BY <1>2, <1>3, <1>9, <2>1 DEF KickParticipant
<1> QED BY <1>4, <1>5, <1>6, <1>7, <1>8, <1>9

\* Every step of the handlers, the bridge and the clients.
LEMMA WriterNextIInv == WriterIInv /\ [WriterNext]_writerVars => WriterIInv'
<1> SUFFICES ASSUME WriterIInv, [WriterNext]_writerVars PROVE WriterIInv'
    OBVIOUS
<1>1. CASE Register \/ AttachFirst \/ DoAttach BY <1>1, AttachStepIInv
<1>2. CASE \E c \in Conns : Disconnect(c) \/ Receive(c) \/ CheckFlag(c) \/ Deliver(c)
      BY <1>2, ClientIInv
<1>3. CASE \E c \in Conns : Resume(c) BY <1>3, OfferIInv
<1>4. CASE \E h \in Handlers, c \in Conns, u \in Users, m \in {"writer", "viewer"} :
             AttachCheck(h, c, u, m)
      BY <1>4, OfferIInv
<1>5. CASE \E h \in Handlers : AttachSend(h) \/ DetachUser(h) \/ SyncRead(h) \/ SyncSet(h)
      BY <1>5, HandlerIInv
<1>6. CASE \/ \E u \in Users, inv \in Invitations : u # Owner /\ Join(u, inv)
           \/ \E u \in Users : Reinvite(u)
           \/ \E u \in Users, r \in RequestIDs : CreateWriteRequest(r, u)
           \/ \E h \in Handlers, r \in RequestIDs, by \in Users : Decide(h, r, by)
           \/ \E h \in Handlers, u \in Users : Release(h, u) \/ KickParticipant(h, u)
      BY <1>6, RoomStepIInv
<1>7. CASE UNCHANGED writerVars
  <2>1. RoomTypeOK' /\ opened' /\ RoomInv' BY <1>7, RoomUntouched DEF writerVars
  <2>2. WriterTypeOK' BY <1>7, <2>1 DEF writerVars, bridge, WriterIInv, WriterTypeOK
  <2>3. HoldersOnly' /\ OneWritingUser'
        BY <1>7 DEF writerVars, bridge, room, WriterIInv, HoldersOnly, OneWritingUser, Writers, Attached
  <2> QED BY <2>1, <2>2, <2>3 DEF WriterIInv
<1> QED BY <1>1, <1>2, <1>3, <1>4, <1>5, <1>6, <1>7 DEF WriterNext

\* The bridge and the handlers keep their types.
THEOREM WriterTypeCorrect == WriterSpec => []WriterTypeOK
<1>1. WriterIInv => WriterTypeOK BY DEF WriterIInv
<1> QED BY <1>1, InitWriterIInv, WriterNextIInv, PTL DEF WriterSpec

\* At no moment can two users both type into the session (SetWriter and
\* demoteOtherWritersLocked), however many clients and requests there are.
THEOREM WriterUnique == WriterSpec => []OneWritingUser
<1>1. WriterIInv => OneWritingUser BY DEF WriterIInv
<1> QED BY <1>1, InitWriterIInv, WriterNextIInv, PTL DEF WriterSpec

\* Input that reaches the remote host comes from the owner or from a user who was
\* given the token ("Viewers cannot inject input server-side").
THEOREM InputAuthorised == WriterSpec => []InputOnlyFromHolders
<1>1. WriterIInv => InputOnlyFromHolders BY DEF WriterIInv, HoldersOnly, InputOnlyFromHolders
<1> QED BY <1>1, InitWriterIInv, WriterNextIInv, PTL DEF WriterSpec
=============================================================================
