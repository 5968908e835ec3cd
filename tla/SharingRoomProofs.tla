------------------------- MODULE SharingRoomProofs -------------------------
(***************************************************************************)
(* RoomInv is an invariant of SharingRoom for every set of users,          *)
(* invitations and requests.  Each operation gets a lemma of its own, so   *)
(* that the specifications that call it inside a larger handler can cite   *)
(* it too.                                                                 *)
(***************************************************************************)
EXTENDS SharingRoom, TLAPS

USE DEF requests, Viewers, PendingOf, Decided, Statuses

RoomIInv == RoomTypeOK /\ RoomInv

\* A session without a room satisfies the invariant.
LEMMA InitRoomIInv == RoomInit => RoomIInv
BY OwnerIsUser, NoInvitationIsNone
DEF RoomInit, NoRoom, RoomIInv, RoomTypeOK, RoomInv, OwnerPresent, WriterPresent, KickedAbsent,
    PendingRequesterPresent, OnePendingPerUser, InvitationOnlyOfViewers

\* A step that leaves the room alone leaves it consistent.
LEMMA StutterIInv == RoomIInv /\ UNCHANGED room => RoomIInv'
BY DEF room, NoRoom, RoomIInv, RoomTypeOK, RoomInv, OwnerPresent, WriterPresent, KickedAbsent,
    PendingRequesterPresent, OnePendingPerUser, InvitationOnlyOfViewers

\* Registry.EnsureRoom creates a consistent room or leaves the existing one alone.
LEMMA EnsureRoomIInv == RoomIInv /\ EnsureRoom => RoomIInv'
<1> SUFFICES ASSUME RoomIInv, EnsureRoom PROVE RoomIInv'
    OBVIOUS
<1>1. CASE opened
      BY <1>1, StutterIInv DEF EnsureRoom
<1>2. CASE ~opened
  <2>1. NoRoom BY <1>2 DEF RoomIInv, RoomInv
  <2>2. /\ opened' = TRUE
        /\ members' = {Owner}
        /\ UNCHANGED <<invitationID, writerID, kicked, status, requester>>
        BY <1>2 DEF EnsureRoom
  <2>3. RoomTypeOK' BY <2>2, OwnerIsUser DEF RoomIInv, RoomTypeOK
  <2>4. RoomInv'
        BY <2>1, <2>2, OwnerIsUser
        DEF NoRoom, RoomInv, OwnerPresent, WriterPresent, KickedAbsent,
            PendingRequesterPresent, OnePendingPerUser, InvitationOnlyOfViewers
  <2> QED BY <2>3, <2>4 DEF RoomIInv
<1> QED BY <1>1, <1>2

\* Registry.Remove leaves nothing of the room behind.
LEMMA RemoveIInv == Remove => RoomIInv'
<1>1. Remove => RoomInit' BY DEF Remove, RoomInit, NoRoom
<1>2. RoomInit' => RoomIInv' BY InitRoomIInv, PTL
<1> QED BY <1>1, <1>2

\* Room.AddViewer: a join by somebody other than the owner.
LEMMA AddViewerIInv ==
  ASSUME NEW u \in Users \ {Owner}, NEW inv \in Labels, RoomIInv, AddViewer(u, inv)
  PROVE  RoomIInv'
<1>1. RoomTypeOK'
      BY OwnerIsUser DEF AddViewer, RoomIInv, RoomTypeOK
<1>2. OwnerPresent' /\ WriterPresent'
      BY OwnerIsUser DEF AddViewer, RoomIInv, RoomTypeOK, RoomInv, OwnerPresent, WriterPresent
<1>3. KickedAbsent'
      BY DEF AddViewer, RoomIInv, RoomInv, KickedAbsent
<1>4. PendingRequesterPresent'
      BY DEF AddViewer, RoomIInv, RoomTypeOK, RoomInv, PendingRequesterPresent
<1>5. OnePendingPerUser'
      BY DEF AddViewer, RoomIInv, RoomTypeOK, RoomInv, OnePendingPerUser
<1>6. InvitationOnlyOfViewers'
      BY NoInvitationIsNone DEF AddViewer, RoomIInv, RoomTypeOK, RoomInv, InvitationOnlyOfViewers
<1>7. (~opened => NoRoom)'
      BY DEF AddViewer
<1> QED BY <1>1, <1>2, <1>3, <1>4, <1>5, <1>6, <1>7 DEF RoomIInv, RoomInv

\* Room.Unkick lifts a block and nothing else.
LEMMA UnkickIInv == ASSUME NEW u \in Users, RoomIInv, Unkick(u) PROVE RoomIInv'
BY OwnerIsUser, NoInvitationIsNone
DEF Unkick, NoRoom, RoomIInv, RoomTypeOK, RoomInv, OwnerPresent, WriterPresent, KickedAbsent,
    PendingRequesterPresent, OnePendingPerUser, InvitationOnlyOfViewers

\* Room.RemoveParticipant: the leaver's requests and token go with them.
LEMMA RemoveParticipantIInv ==
  ASSUME NEW u \in Users, RoomIInv, RemoveParticipant(u) PROVE RoomIInv'
<1>1. RoomTypeOK'
      BY OwnerIsUser DEF RemoveParticipant, RoomIInv, RoomTypeOK
<1>2. OwnerPresent' /\ WriterPresent'
      BY OwnerIsUser DEF RemoveParticipant, RoomIInv, RoomTypeOK, RoomInv, OwnerPresent, WriterPresent
<1>3. KickedAbsent'
      BY DEF RemoveParticipant, RoomIInv, RoomInv, KickedAbsent
<1>4. PendingRequesterPresent'
      BY DEF RemoveParticipant, RoomIInv, RoomTypeOK, RoomInv, PendingRequesterPresent
<1>5. OnePendingPerUser'
      BY DEF RemoveParticipant, RoomIInv, RoomTypeOK, RoomInv, OnePendingPerUser
<1>6. InvitationOnlyOfViewers'
      BY NoInvitationIsNone DEF RemoveParticipant, RoomIInv, RoomTypeOK, RoomInv, InvitationOnlyOfViewers
<1>7. (~opened => NoRoom)'
      BY DEF RemoveParticipant
<1> QED BY <1>1, <1>2, <1>3, <1>4, <1>5, <1>6, <1>7 DEF RoomIInv, RoomInv

\* Room.RequestWrite replaces the user's pending request.
LEMMA RequestWriteIInv ==
  ASSUME NEW r \in RequestIDs, NEW u \in Users, RoomIInv, RequestWrite(r, u) PROVE RoomIInv'
<1>1. RoomTypeOK'
      BY OwnerIsUser DEF RequestWrite, RoomIInv, RoomTypeOK
<1>2. OwnerPresent' /\ WriterPresent'
      BY OwnerIsUser DEF RequestWrite, RoomIInv, RoomTypeOK, RoomInv, OwnerPresent, WriterPresent
<1>3. KickedAbsent'
      BY DEF RequestWrite, RoomIInv, RoomInv, KickedAbsent
<1>4. PendingRequesterPresent'
      BY DEF RequestWrite, RoomIInv, RoomTypeOK, RoomInv, PendingRequesterPresent
<1>5. OnePendingPerUser'
      BY DEF RequestWrite, RoomIInv, RoomTypeOK, RoomInv, OnePendingPerUser
<1>6. InvitationOnlyOfViewers'
      BY NoInvitationIsNone DEF RequestWrite, RoomIInv, RoomTypeOK, RoomInv, InvitationOnlyOfViewers
<1>7. (~opened => NoRoom)'
      BY DEF RequestWrite
<1> QED BY <1>1, <1>2, <1>3, <1>4, <1>5, <1>6, <1>7 DEF RoomIInv, RoomInv

\* Room.GrantWrite hands the token to somebody in the room.
LEMMA GrantWriteIInv ==
  ASSUME NEW r \in RequestIDs, NEW by \in Users, RoomIInv, GrantWrite(r, by) PROVE RoomIInv'
<1>1. RoomTypeOK'
      BY OwnerIsUser DEF GrantWrite, RoomIInv, RoomTypeOK
<1>2. OwnerPresent' /\ WriterPresent'
      BY OwnerIsUser DEF GrantWrite, RoomIInv, RoomTypeOK, RoomInv, OwnerPresent, WriterPresent
<1>3. KickedAbsent'
      BY DEF GrantWrite, RoomIInv, RoomInv, KickedAbsent
<1>4. PendingRequesterPresent'
      BY DEF GrantWrite, RoomIInv, RoomTypeOK, RoomInv, PendingRequesterPresent
<1>5. OnePendingPerUser'
      BY DEF GrantWrite, RoomIInv, RoomTypeOK, RoomInv, OnePendingPerUser
<1>6. InvitationOnlyOfViewers'
      BY NoInvitationIsNone DEF GrantWrite, RoomIInv, RoomTypeOK, RoomInv, InvitationOnlyOfViewers
<1>7. (~opened => NoRoom)'
      BY DEF GrantWrite
<1> QED BY <1>1, <1>2, <1>3, <1>4, <1>5, <1>6, <1>7 DEF RoomIInv, RoomInv

\* Room.DenyWrite only closes a request.
LEMMA DenyWriteIInv ==
  ASSUME NEW r \in RequestIDs, NEW by \in Users, RoomIInv, DenyWrite(r, by) PROVE RoomIInv'
BY OwnerIsUser, NoInvitationIsNone
DEF DenyWrite, NoRoom, RoomIInv, RoomTypeOK, RoomInv, OwnerPresent, WriterPresent, KickedAbsent,
    PendingRequesterPresent, OnePendingPerUser, InvitationOnlyOfViewers

\* Room.ReleaseWrite gives the token back to the owner, who is present.
LEMMA ReleaseWriteIInv == ASSUME NEW u \in Users, RoomIInv, ReleaseWrite(u) PROVE RoomIInv'
BY OwnerIsUser, NoInvitationIsNone
DEF ReleaseWrite, NoRoom, RoomIInv, RoomTypeOK, RoomInv, OwnerPresent, WriterPresent, KickedAbsent,
    PendingRequesterPresent, OnePendingPerUser, InvitationOnlyOfViewers

\* Every operation of registry.go preserves the consistency of the room.
LEMMA RoomNextIInv == RoomIInv /\ [RoomNext]_room => RoomIInv'
<1> SUFFICES ASSUME RoomIInv, [RoomNext]_room PROVE RoomIInv'
    OBVIOUS
<1>1. CASE EnsureRoom BY <1>1, EnsureRoomIInv
<1>2. CASE Remove BY <1>2, RemoveIInv
<1>3. CASE \E u \in Users \ {Owner}, inv \in Labels : AddViewer(u, inv)
      BY <1>3, AddViewerIInv
<1>4. CASE \E u \in Users : Unkick(u) \/ RemoveParticipant(u) \/ ReleaseWrite(u)
      BY <1>4, UnkickIInv, RemoveParticipantIInv, ReleaseWriteIInv
<1>5. CASE \E r \in RequestIDs, u \in Users :
             RequestWrite(r, u) \/ GrantWrite(r, u) \/ DenyWrite(r, u)
      BY <1>5, RequestWriteIInv, GrantWriteIInv, DenyWriteIInv
<1>6. CASE UNCHANGED room BY <1>6, StutterIInv
<1> QED BY <1>1, <1>2, <1>3, <1>4, <1>5, <1>6 DEF RoomNext

\* The room keeps its types (registry.go, Room).
THEOREM RoomTypeCorrect == RoomSpec => []RoomTypeOK
<1>1. RoomIInv => RoomTypeOK BY DEF RoomIInv
<1> QED BY <1>1, InitRoomIInv, RoomNextIInv, PTL DEF RoomSpec

\* The room stays consistent: the writer and the owner are in it, nobody in it is
\* kicked, and every pending request is the only one of a participant.
THEOREM RoomConsistent == RoomSpec => []RoomInv
<1>1. RoomIInv => RoomInv BY DEF RoomIInv
<1> QED BY <1>1, InitRoomIInv, RoomNextIInv, PTL DEF RoomSpec

\* The token reaches somebody other than the owner only through a pending request
\* its holder grants, and decisions on requests are final.
THEOREM RoomHandoff == RoomSpec => HandoffOnlyByGrant
<1>1. RoomIInv /\ [RoomNext]_room => [HandoffStep]_room
  <2> SUFFICES ASSUME RoomIInv, RoomNext PROVE HandoffStep \/ UNCHANGED room
      OBVIOUS
  <2>1. CASE EnsureRoom
        BY <2>1 DEF EnsureRoom, HandoffStep, room, RoomIInv, RoomInv, NoRoom
  <2>2. CASE Remove BY <2>2 DEF Remove, HandoffStep
  <2>3. CASE \E u \in Users \ {Owner}, inv \in Labels : AddViewer(u, inv)
        BY <2>3 DEF AddViewer, HandoffStep
  <2>4. CASE \E u \in Users : Unkick(u)
        BY <2>4 DEF Unkick, HandoffStep
  <2>5. CASE \E u \in Users : RemoveParticipant(u)
        BY <2>5 DEF RemoveParticipant, HandoffStep, RoomIInv, RoomTypeOK
  <2>6. CASE \E u \in Users : ReleaseWrite(u)
        BY <2>6 DEF ReleaseWrite, HandoffStep
  <2>7. CASE \E r \in RequestIDs, u \in Users : RequestWrite(r, u)
        BY <2>7 DEF RequestWrite, HandoffStep, RoomIInv, RoomTypeOK
  <2>8. CASE \E r \in RequestIDs, u \in Users : GrantWrite(r, u)
        BY <2>8 DEF GrantWrite, HandoffStep, RoomIInv, RoomTypeOK
  <2>9. CASE \E r \in RequestIDs, u \in Users : DenyWrite(r, u)
        BY <2>9 DEF DenyWrite, HandoffStep, RoomIInv, RoomTypeOK
  <2> QED BY <2>1, <2>2, <2>3, <2>4, <2>5, <2>6, <2>7, <2>8, <2>9 DEF RoomNext
<1> QED BY <1>1, InitRoomIInv, RoomNextIInv, PTL DEF RoomSpec, HandoffOnlyByGrant
=============================================================================
