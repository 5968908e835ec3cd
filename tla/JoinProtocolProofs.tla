------------------------- MODULE JoinProtocolProofs -------------------------
(***************************************************************************)
(* The invitation store and who is let into a shared session, for any      *)
(* number of users, invitations, administrators and requests in flight.    *)
(*                                                                         *)
(* UsesWithinCap alone is not inductive: RecordUse stops looking at        *)
(* max_uses once a link has got an invitee, and is saved by used_at, which *)
(* the use that reaches the cap sets; CapHasRoom and RowFacts say so.      *)
(* Neither is AdmissionsPaid: AddViewer believes what RecordUse did a step *)
(* earlier, RecordUse what validateJoinInvitation found, and that read a   *)
(* copy of the row.  Earned says at each point of a join what its holder   *)
(* has already shown.                                                      *)
(***************************************************************************)
EXTENDS JoinProtocol, SharingRoomProofs

-------------------------------------------------------------------------------
(* The store.                                                                *)

\* A row not yet inserted carries no use; a row marked used has an invitee; a row
\* issued to a user keeps an invitee and is marked used by its only use.
RowFacts ==
  \A i \in Invitations :
    /\ ~created[i] => useCount[i] = 0 /\ ~used[i] /\ maxUses[i] = 0
                      /\ invitee[i] = NoUser /\ issuedTo[i] = NoUser
    /\ used[i] => invitee[i] # NoUser
    /\ issuedTo[i] # NoUser => invitee[i] # NoUser /\ (~used[i] => useCount[i] = 0)

StoreIInv == StoreTypeOK /\ CapHasRoom /\ UsesWithinCap /\ RowFacts

\* The empty table.
LEMMA InitStoreIInv == StoreInit => StoreIInv
<1> SUFFICES ASSUME StoreInit PROVE StoreIInv
    OBVIOUS
<1>1. StoreTypeOK BY MaxLinkUsesIsPositive, MaxTokensIsPositive DEF StoreInit, StoreTypeOK, Clock
<1>2. CapHasRoom /\ UsesWithinCap BY DEF StoreInit, CapHasRoom, UsesWithinCap
<1>3. RowFacts BY DEF StoreInit, RowFacts
<1> QED BY <1>1, <1>2, <1>3 DEF StoreIInv

\* SQLiteStore.Create, for a user (no cap) or a link.
LEMMA CreateIInv ==
  ASSUME NEW i \in Invitations, NEW to \in Users \cup {NoUser}, NEW cap \in 0..MaxLinkUses,
         StoreIInv, Create(i, to, cap)
  PROVE  StoreIInv'
<1> USE MaxLinkUsesIsPositive
<1>1. StoreTypeOK' BY DEF Create, StoreIInv, StoreTypeOK
<1>2. CapHasRoom' BY DEF Create, StoreIInv, StoreTypeOK, CapHasRoom, RowFacts
<1>3. UsesWithinCap' BY DEF Create, StoreIInv, StoreTypeOK, UsesWithinCap, RowFacts
<1>4. RowFacts' BY DEF Create, StoreIInv, StoreTypeOK, RowFacts
<1> QED BY <1>1, <1>2, <1>3, <1>4 DEF StoreIInv

\* SQLiteStore.RecordUse, with or without the consumer row.
LEMMA RecordUseIInv ==
  ASSUME NEW i \in Invitations, NEW u \in Users, NEW inserted \in BOOLEAN,
         StoreIInv, RecordUse(i, u, inserted)
  PROVE  StoreIInv'
<1> USE MaxLinkUsesIsPositive, NoUserIsNone
<1>1. StoreTypeOK'
      BY DEF RecordUse, StoreIInv, StoreTypeOK
<1>2. CapHasRoom'
      BY DEF RecordUse, AdmitsUse, StoreIInv, StoreTypeOK, CapHasRoom
<1>3. UsesWithinCap'
  <2>1. ASSUME maxUses[i] # 0 PROVE useCount[i] + 1 <= maxUses[i]
        BY <2>1 DEF RecordUse, AdmitsUse, StoreIInv, StoreTypeOK, CapHasRoom
  <2>2. ASSUME issuedTo[i] # NoUser PROVE useCount[i] = 0
        BY <2>2 DEF RecordUse, AdmitsUse, StoreIInv, StoreTypeOK, RowFacts
  <2> QED BY <2>1, <2>2 DEF RecordUse, StoreIInv, StoreTypeOK, UsesWithinCap
<1>4. RowFacts'
      BY DEF RecordUse, AdmitsUse, StoreIInv, StoreTypeOK, RowFacts
<1> QED BY <1>1, <1>2, <1>3, <1>4 DEF StoreIInv

\* MarkRevoked, UpdateTokenHash and the passing of time leave uses and caps alone.
LEMMA OtherIInv ==
  ASSUME NEW i \in Invitations, StoreIInv,
         MarkRevoked(i) \/ UpdateTokenHash(i) \/ PassExpiry(i)
  PROVE  StoreIInv'
<1>1. CASE MarkRevoked(i)
      BY <1>1 DEF MarkRevoked, StoreIInv, StoreTypeOK, CapHasRoom, UsesWithinCap, RowFacts
<1>2. CASE UpdateTokenHash(i)
      BY <1>2, MaxTokensIsPositive
      DEF UpdateTokenHash, StoreIInv, StoreTypeOK, CapHasRoom, UsesWithinCap, RowFacts
<1>3. CASE PassExpiry(i)
      BY <1>3 DEF PassExpiry, Clock, StoreIInv, StoreTypeOK, CapHasRoom, UsesWithinCap, RowFacts
<1> QED BY <1>1, <1>2, <1>3

\* Every statement of the store preserves the inductive invariant.
LEMMA StoreNextIInv == StoreIInv /\ [StoreNext]_rows => StoreIInv'
<1> SUFFICES ASSUME StoreIInv, [StoreNext]_rows PROVE StoreIInv'
    OBVIOUS
<1>1. CASE \E i \in Invitations, to \in Users \ {Owner} : Create(i, to, 0)
      BY <1>1, CreateIInv, MaxLinkUsesIsPositive
<1>2. CASE \E i \in Invitations, cap \in 0..MaxLinkUses : Create(i, NoUser, cap)
      BY <1>2, CreateIInv
<1>3. CASE \E i \in Invitations, u \in Users \ {Owner}, inserted \in BOOLEAN :
             RecordUse(i, u, inserted)
      BY <1>3, RecordUseIInv
<1>4. CASE \E i \in Invitations : MarkRevoked(i) \/ UpdateTokenHash(i) \/ PassExpiry(i)
      BY <1>4, OtherIInv
<1>5. CASE UNCHANGED rows
      BY <1>5 DEF rows, StoreIInv, StoreTypeOK, CapHasRoom, UsesWithinCap, RowFacts
<1> QED BY <1>1, <1>2, <1>3, <1>4, <1>5 DEF StoreNext

\* The columns keep their types (sqlite_store.go, scanInvitation).
THEOREM StoreTypeCorrect == StoreSpec => []StoreTypeOK
<1>1. StoreIInv => StoreTypeOK BY DEF StoreIInv
<1> QED BY <1>1, InitStoreIInv, StoreNextIInv, PTL DEF StoreSpec

\* "Concurrent joins cannot exceed max_uses": for every cap, and an invitation issued
\* to a user is used at most once (sqlite_store.go, RecordUse).
THEOREM StoreCapHolds == StoreSpec => []UsesWithinCap
<1>1. StoreIInv => UsesWithinCap BY DEF StoreIInv
<1> QED BY <1>1, InitStoreIInv, StoreNextIInv, PTL DEF StoreSpec

\* The WHERE clause of RecordUse is at least as strict as Invitation.Active.
THEOREM StoreAdmitsOnlyActive == StoreSpec => []AdmitsOnlyActive
<1>1. StoreIInv => AdmitsOnlyActive
      BY DEF StoreIInv, StoreTypeOK, AdmitsOnlyActive, AdmitsUse, Active, Exhausted, Expired,
             IsLink, LinkUnlimited, Row
<1> QED BY <1>1, InitStoreIInv, StoreNextIInv, PTL DEF StoreSpec

\* Uses are never taken back, and a used or revoked invitation is never used again.
THEOREM StoreOnlyGrows == StoreSpec => StoreMonotone
<1>1. StoreIInv /\ [StoreNext]_rows => [GrowStep]_rows
  <2> SUFFICES ASSUME StoreIInv, StoreNext PROVE GrowStep
      OBVIOUS
  <2>1. CASE \E i \in Invitations, u \in Users \ {Owner}, inserted \in BOOLEAN :
               RecordUse(i, u, inserted)
    <3> SUFFICES ASSUME NEW i \in Invitations, NEW u \in Users, NEW inserted \in BOOLEAN,
                        RecordUse(i, u, inserted)
                 PROVE  GrowStep
        BY <2>1
    <3>1. ~used[i] /\ ~revoked[i]
          BY DEF RecordUse, AdmitsUse, StoreIInv, RowFacts
    <3> QED BY <3>1 DEF GrowStep, RecordUse, StoreIInv, StoreTypeOK
  <2>2. CASE \E i \in Invitations, to \in Users \cup {NoUser}, cap \in 0..MaxLinkUses :
               Create(i, to, cap)
        BY <2>2 DEF GrowStep, Create, StoreIInv, StoreTypeOK
  <2>3. CASE \E i \in Invitations : MarkRevoked(i) \/ UpdateTokenHash(i) \/ PassExpiry(i)
        BY <2>3 DEF GrowStep, MarkRevoked, UpdateTokenHash, PassExpiry, StoreIInv, StoreTypeOK
  <2> QED BY <2>1, <2>2, <2>3, MaxLinkUsesIsPositive DEF StoreNext
<1> QED BY <1>1, InitStoreIInv, StoreNextIInv, PTL DEF StoreSpec, StoreMonotone

-------------------------------------------------------------------------------
(* The join.                                                                 *)

USE DEF requests, Viewers, PendingOf, Decided, Statuses

\* What a join in flight has established: the copy it decides on names the user the
\* invitation was issued to, and past RecordUse its user is among the consumers.
Earned(q) ==
  /\ q.pc \in {"read", "valid", "used"} => q.inv \in Invitations /\ created[q.inv]
  /\ q.pc = "read" => issuedTo[q.inv] \in {NoUser, q.row.invitee}
  /\ q.pc = "valid" => issuedTo[q.inv] \in {NoUser, q.user}
  /\ q.pc \in {"valid", "used", "room"} => q.user # Owner
  /\ q.pc = "used" => q.user \in consumers[q.inv]
  /\ q.pc = "room" => \/ q.inv = AdminWatch /\ q.user \in Admins
                      \/ q.inv \in Invitations /\ q.user \in consumers[q.inv]

JoinsEarned == \A j \in Joins : Earned(join[j])

\* A row issued to a user keeps that user as its invitee; nobody consumes a row that
\* is not there.
RowsAddressed ==
  \A i \in Invitations : /\ issuedTo[i] # NoUser => invitee[i] = issuedTo[i]
                         /\ ~created[i] => consumers[i] = {}

\* While the session runs its room remembers every removal that was not pardoned.
BarredKicked == sessionIs = "running" => barred \subseteq kicked

RowsIInv == StoreIInv /\ RowsAddressed /\ ConsumedByAddressee

JoinIInv ==
  /\ JoinTypeOK
  /\ RoomInv
  /\ RowsIInv
  /\ JoinsEarned
  /\ ViewersConsumed
  /\ BarredKicked

------------------------------------------------------------------------------
(* The table under a join's feet.                                           *)

\* What a step of the table does to the joins that rely on it: consumers stay, and
\* a row that exists keeps its addressee.
RowsGrow ==
  \A i \in Invitations : /\ consumers[i] \subseteq consumers'[i]
                         /\ created[i] => created'[i] /\ issuedTo'[i] = issuedTo[i]

\* A handler that leaves the table alone.
LEMMA RowsStutter == ASSUME RowsIInv, UNCHANGED rows PROVE RowsIInv' /\ RowsGrow
<1>1. StoreIInv' BY StoreNextIInv DEF RowsIInv
<1>2. RowsAddressed' /\ ConsumedByAddressee'
      BY DEF RowsIInv, rows, RowsAddressed, ConsumedByAddressee
<1>3. RowsGrow BY DEF rows, RowsGrow
<1> QED BY <1>1, <1>2, <1>3 DEF RowsIInv

\* SQLiteStore.Create: the new row has no consumers yet.
LEMMA CreateRows ==
  ASSUME NEW i \in Invitations, NEW to \in Users \cup {NoUser}, NEW cap \in 0..MaxLinkUses,
         RowsIInv, Create(i, to, cap)
  PROVE  RowsIInv' /\ RowsGrow
<1>1. StoreIInv' BY CreateIInv DEF RowsIInv
<1>2. RowsAddressed' BY DEF RowsIInv, Create, StoreIInv, StoreTypeOK, RowsAddressed
<1>3. ConsumedByAddressee'
      BY DEF RowsIInv, Create, StoreIInv, StoreTypeOK, RowsAddressed, ConsumedByAddressee
<1>4. RowsGrow BY DEF RowsIInv, Create, StoreIInv, StoreTypeOK, RowsGrow
<1> QED BY <1>1, <1>2, <1>3, <1>4 DEF RowsIInv

\* SQLiteStore.RecordUse by a user the row was issued to, or of a link.
LEMMA RecordUseRows ==
  ASSUME NEW i \in Invitations, NEW u \in Users, NEW inserted \in BOOLEAN,
         RowsIInv, issuedTo[i] \in {NoUser, u}, RecordUse(i, u, inserted)
  PROVE  RowsIInv' /\ RowsGrow /\ (inserted => u \in consumers'[i])
<1>1. StoreIInv' BY RecordUseIInv DEF RowsIInv
<1>2. RowsAddressed'
      BY NoUserIsNone DEF RowsIInv, RecordUse, AdmitsUse, StoreIInv, StoreTypeOK, RowsAddressed
<1>3. ConsumedByAddressee'
      BY DEF RowsIInv, RecordUse, StoreIInv, StoreTypeOK, ConsumedByAddressee
<1>4. RowsGrow /\ (inserted => u \in consumers'[i])
      BY DEF RowsIInv, RecordUse, StoreIInv, StoreTypeOK, RowsGrow
<1> QED BY <1>1, <1>2, <1>3, <1>4 DEF RowsIInv

\* Revocation and the passing of time.
LEMMA OtherRows ==
  ASSUME NEW i \in Invitations, RowsIInv, MarkRevoked(i) \/ PassExpiry(i)
  PROVE  RowsIInv' /\ RowsGrow
<1>1. StoreIInv' BY OtherIInv DEF RowsIInv
<1>2. UNCHANGED <<created, invitee, consumers, issuedTo>> BY DEF MarkRevoked, PassExpiry
<1>3. RowsAddressed' /\ ConsumedByAddressee' /\ RowsGrow
      BY <1>2 DEF RowsIInv, RowsAddressed, ConsumedByAddressee, RowsGrow
<1> QED BY <1>1, <1>3 DEF RowsIInv

------------------------------------------------------------------------------
(* The joins in flight and the people in the room.                          *)

\* What a join has shown is not undone by the others.
LEMMA EarnedStays == ASSUME JoinsEarned, RowsGrow, UNCHANGED join PROVE JoinsEarned'
BY DEF JoinsEarned, Earned, RowsGrow

\* One request moves on; the others keep what they have shown.
LEMMA OneJoinMoves ==
  ASSUME JoinTypeOK, JoinsEarned, RowsGrow, NEW j \in Joins,
         \A k \in Joins \ {j} : join'[k] = join[k],
         Earned(join[j])'
  PROVE  JoinsEarned'
<1> SUFFICES ASSUME NEW k \in Joins PROVE Earned(join[k])'
    BY DEF JoinsEarned
<1>1. CASE k = j BY <1>1
<1>2. CASE k # j
  <2>1. join'[k] = join[k] /\ Earned(join[k]) BY <1>2 DEF JoinsEarned
  <2> QED BY <2>1 DEF Earned, RowsGrow
<1> QED BY <1>1, <1>2

\* Nobody enters and nobody's invitation is exchanged.
LEMMA ViewersStay ==
  ASSUME ViewersConsumed, RowsGrow,
         \A u \in members' \ {Owner} : u \in members /\ invitationID'[u] = invitationID[u]
  PROVE  ViewersConsumed'
BY DEF ViewersConsumed, RowsGrow

\* The inductive invariant in the form the lemmas on the room speak about.
LEMMA JoinIInvParts ==
  ASSUME JoinIInv
  PROVE  /\ RoomIInv /\ RoomTypeOK /\ RoomInv
         /\ StoreTypeOK /\ RowsIInv
         /\ JoinTypeOK /\ JoinsEarned /\ ViewersConsumed /\ BarredKicked
BY DEF JoinIInv, JoinTypeOK, RoomIInv

\* Putting the parts together again.
LEMMA JoinIInvWhole ==
  ASSUME RoomIInv', RowsIInv', JoinsEarned', ViewersConsumed', BarredKicked',
         (RoomTypeOK /\ StoreTypeOK => JoinTypeOK)'
  PROVE  JoinIInv'
BY DEF JoinIInv, RoomIInv, RowsIInv, StoreIInv

------------------------------------------------------------------------------
(* The owner's requests.                                                    *)

\* InviteCreate: the invitation row of handleCreateInvitations.
LEMMA InviteCreateKeeps ==
  ASSUME JoinIInv, NEW i \in Invitations, NEW to \in Users \cup {NoUser},
         NEW cap \in 0..MaxLinkUses, NEW pardon \in BOOLEAN, InviteCreate(i, to, cap, pardon)
  PROVE  JoinIInv'
<1> USE JoinIInvParts
<1>1. Create(i, to, cap) /\ UNCHANGED <<room, sessionIs, join, revoke, barred>>
      BY DEF InviteCreate
<1>2. RowsIInv' /\ RowsGrow BY <1>1, CreateRows
<1>3. RoomIInv' BY <1>1, StutterIInv
<1>4. JoinsEarned' BY <1>1, <1>2, EarnedStays
<1>5. ViewersConsumed' BY <1>1, <1>2, ViewersStay DEF room
<1>6. BarredKicked' BY <1>1 DEF BarredKicked, room
<1>7. (RoomTypeOK /\ StoreTypeOK => JoinTypeOK)' BY <1>1 DEF InviteCreate, JoinTypeOK
<1> QED BY <1>2, <1>3, <1>4, <1>5, <1>6, <1>7, JoinIInvWhole

\* InviteRoom: only a pardon takes somebody off the list of the kicked.
LEMMA InviteRoomKeeps == ASSUME JoinIInv, InviteRoom PROVE JoinIInv'
<1> USE JoinIInvParts
<1>1. UNCHANGED <<rows, sessionIs, join, revoke>> BY DEF InviteRoom
<1>2. RowsIInv' /\ RowsGrow BY <1>1, RowsStutter
<1>3. JoinsEarned' BY <1>1, <1>2, EarnedStays
<1>4. (RoomTypeOK /\ StoreTypeOK => JoinTypeOK)'
      BY <1>1 DEF InviteRoom, IdleInvite, JoinTypeOK
<1>5. CASE opened /\ invite.pardon /\ invite.user \in kicked
  <2>1. Unkick(invite.user) /\ invite.user \in Users
        BY <1>5 DEF InviteRoom, RoomTypeOK
  <2>2. RoomIInv' BY <2>1, UnkickIInv
  <2>3. ViewersConsumed' BY <2>1, <1>2, ViewersStay DEF Unkick
  <2>4. BarredKicked' BY <1>1, <1>5, <2>1 DEF InviteRoom, Unkick, BarredKicked
  <2> QED BY <1>2, <1>3, <1>4, <2>2, <2>3, <2>4, JoinIInvWhole
<1>6. CASE ~(opened /\ invite.pardon /\ invite.user \in kicked)
  <2>1. EnsureRoom BY <1>6 DEF InviteRoom
  <2>2. RoomIInv' BY <2>1, EnsureRoomIInv
  <2>3. ViewersConsumed' BY <2>1, <1>2, ViewersStay DEF EnsureRoom, room
  <2>4. BarredKicked' BY <1>1, <1>6, <2>1 DEF InviteRoom, EnsureRoom, room, BarredKicked
  <2> QED BY <1>2, <1>3, <1>4, <2>2, <2>3, <2>4, JoinIInvWhole
<1> QED BY <1>5, <1>6

\* What RemoveParticipant does to the rest: the leaver's entry goes, nobody enters.
LEMMA RemovalKeeps ==
  ASSUME JoinIInv, NEW u \in Users, RemoveParticipant(u), barred' = barred \cup {u},
         UNCHANGED <<rows, sessionIs, join>>,
         (RoomTypeOK /\ StoreTypeOK => JoinTypeOK)'
  PROVE  JoinIInv'
<1> USE JoinIInvParts
<1>1. RowsIInv' /\ RowsGrow BY RowsStutter
<1>2. RoomIInv' BY RemoveParticipantIInv
<1>3. JoinsEarned' BY <1>1, EarnedStays
<1>4. ViewersConsumed'
  <2>1. \A v \in members' \ {Owner} : v \in members /\ invitationID'[v] = invitationID[v]
        BY DEF RemoveParticipant, RoomTypeOK
  <2> QED BY <1>1, <2>1, ViewersStay
<1>5. BarredKicked' BY DEF RemoveParticipant, BarredKicked
<1> QED BY <1>1, <1>2, <1>3, <1>4, <1>5, JoinIInvWhole

\* Kick (handleKickParticipant).
LEMMA KickKeeps == ASSUME JoinIInv, NEW u \in Users, Kick(u) PROVE JoinIInv'
<1>1. (RoomTypeOK /\ StoreTypeOK => JoinTypeOK)' BY JoinIInvParts DEF Kick, JoinTypeOK
<1> QED BY <1>1, RemovalKeeps DEF Kick

\* A step of a handler that only moves its own request on.
LEMMA BookkeepingKeeps ==
  ASSUME JoinIInv, UNCHANGED <<room, rows, sessionIs, join, barred>>,
         (RoomTypeOK /\ StoreTypeOK => JoinTypeOK)'
  PROVE  JoinIInv'
<1> USE JoinIInvParts
<1>1. RowsIInv' /\ RowsGrow BY RowsStutter
<1>2. RoomIInv' BY StutterIInv
<1>3. JoinsEarned' BY <1>1, EarnedStays
<1>4. ViewersConsumed' BY <1>1, ViewersStay DEF room
<1>5. BarredKicked' BY DEF room, BarredKicked
<1> QED BY <1>1, <1>2, <1>3, <1>4, <1>5, JoinIInvWhole

\* The three steps of a revocation after the row is marked.
LEMMA RevokeKeeps ==
  ASSUME JoinIInv, RevokeList \/ RevokeDone \/ \E u \in Users : RevokeDisconnect(u)
  PROVE  JoinIInv'
<1> USE JoinIInvParts
<1>1. CASE RevokeList
  <2>1. ParticipantsVia(revoke.inv) \in SUBSET Users BY DEF ParticipantsVia, RoomTypeOK
  <2>2. (RoomTypeOK /\ StoreTypeOK => JoinTypeOK)' BY <1>1, <2>1 DEF RevokeList, JoinTypeOK
  <2> QED BY <1>1, <2>2, BookkeepingKeeps DEF RevokeList
<1>2. CASE RevokeDone
  <2>1. (RoomTypeOK /\ StoreTypeOK => JoinTypeOK)' BY <1>2 DEF RevokeDone, IdleRevoke, JoinTypeOK
  <2> QED BY <1>2, <2>1, BookkeepingKeeps DEF RevokeDone
<1>3. ASSUME NEW u \in Users, RevokeDisconnect(u) PROVE JoinIInv'
  <2>1. (RoomTypeOK /\ StoreTypeOK => JoinTypeOK)' BY <1>3 DEF RevokeDisconnect, JoinTypeOK
  <2>2. CASE opened /\ u \in members BY <1>3, <2>1, <2>2, RemovalKeeps DEF RevokeDisconnect
  <2>3. CASE ~(opened /\ u \in members) BY <1>3, <2>1, <2>3, BookkeepingKeeps DEF RevokeDisconnect
  <2> QED BY <2>2, <2>3
<1> QED BY <1>1, <1>2, <1>3

\* RevokeMark and the passing of an expiry touch one row.
LEMMA RowMarkKeeps ==
  ASSUME JoinIInv, NEW i \in Invitations, RevokeMark(i) \/ Expiry(i)
  PROVE  JoinIInv'
<1> USE JoinIInvParts
<1>1. /\ MarkRevoked(i) \/ PassExpiry(i)
      /\ UNCHANGED <<room, sessionIs, join, invite, barred>>
      BY DEF RevokeMark, Expiry
<1>2. RowsIInv' /\ RowsGrow BY <1>1, OtherRows
<1>3. RoomIInv' BY <1>1, StutterIInv
<1>4. JoinsEarned' BY <1>1, <1>2, EarnedStays
<1>5. ViewersConsumed' BY <1>1, <1>2, ViewersStay DEF room
<1>6. BarredKicked' BY <1>1 DEF BarredKicked, room
<1>7. (RoomTypeOK /\ StoreTypeOK => JoinTypeOK)' BY <1>1 DEF RevokeMark, Expiry, JoinTypeOK
<1> QED BY <1>2, <1>3, <1>4, <1>5, <1>6, <1>7, JoinIInvWhole

------------------------------------------------------------------------------
(* A join request.                                                          *)

\* A join that only changes its own record, to one that has earned its place.
LEMMA JoinStepKeeps ==
  ASSUME JoinIInv, NEW j \in Joins, UNCHANGED <<room, rows, sessionIs, barred>>,
         \A k \in Joins \ {j} : join'[k] = join[k],
         Earned(join[j])',
         (RoomTypeOK /\ StoreTypeOK => JoinTypeOK)'
  PROVE  JoinIInv'
<1> USE JoinIInvParts
<1>1. RowsIInv' /\ RowsGrow BY RowsStutter
<1>2. RoomIInv' BY StutterIInv
<1>3. JoinsEarned' BY <1>1, OneJoinMoves
<1>4. ViewersConsumed' BY <1>1, ViewersStay DEF room
<1>5. BarredKicked' BY DEF room, BarredKicked
<1> QED BY <1>1, <1>2, <1>3, <1>4, <1>5, JoinIInvWhole

RowRecord == [invitee : Users \cup {NoUser}, maxUses : 0..MaxLinkUses, useCount : Nat,
              used : BOOLEAN, revoked : BOOLEAN]
JoinRecord == [pc : {"idle", "read", "valid", "used", "room"}, user : Users,
               inv : Labels \cup {NoInvitation}, via : Paths, row : RowRecord, held : BOOLEAN]

\* The updates a handler makes to its request keep the record's type.
LEMMA RecordUpdates ==
  ASSUME NEW q \in JoinRecord
  PROVE  /\ [q EXCEPT !.pc = "valid", !.via = "terminal", !.row = ZeroRow] \in JoinRecord
         /\ [q EXCEPT !.pc = "room", !.held = TRUE] \in JoinRecord
         /\ [q EXCEPT !.held = FALSE] \in JoinRecord
<1>1. ZeroRow \in RowRecord BY MaxLinkUsesIsPositive DEF RowRecord, ZeroRow
<1> QED BY <1>1 DEF JoinRecord, Paths

\* The records a request starts from and the row it copies are well typed.
LEMMA RecordTypes ==
  /\ JoinTypeOK => \A i \in Invitations : Row(i) \in
       [invitee : Users \cup {NoUser}, maxUses : 0..MaxLinkUses, useCount : Nat,
        used : BOOLEAN, revoked : BOOLEAN]
  /\ ZeroRow \in [invitee : Users \cup {NoUser}, maxUses : 0..MaxLinkUses, useCount : Nat,
                  used : BOOLEAN, revoked : BOOLEAN]
BY MaxLinkUsesIsPositive DEF JoinTypeOK, StoreTypeOK, Row, ZeroRow

\* JoinLookup: the copy of the row agrees with the row at this moment.
LEMMA LookupKeeps ==
  ASSUME JoinIInv, NEW j \in Joins, NEW u \in Users, NEW i \in Invitations, NEW via \in Paths,
         JoinLookup(j, u, i, via)
  PROVE  JoinIInv'
<1> USE JoinIInvParts
<1>1. /\ join'[j] = [pc |-> "read", user |-> u, inv |-> i, via |-> via,
                     row |-> Row(i), held |-> FALSE]
      /\ \A k \in Joins \ {j} : join'[k] = join[k]
      BY DEF JoinLookup, JoinTypeOK
<1>2. Earned(join[j])'
      BY <1>1 DEF JoinLookup, Earned, Row, rows, RowsIInv, RowsAddressed
<1>3. (RoomTypeOK /\ StoreTypeOK => JoinTypeOK)'
      BY RecordTypes DEF JoinLookup, JoinTypeOK, Labels
<1> QED BY <1>1, <1>2, <1>3, JoinStepKeeps DEF JoinLookup

\* A request that ends, whatever the reason.
LEMMA IdleIsEarned == ASSUME NEW j \in Joins, join'[j] = IdleJoin PROVE Earned(join[j])'
BY DEF IdleJoin, Earned

\* JoinValidate: a request that passes is the addressee's, or the link's.
LEMMA ValidateKeeps ==
  ASSUME JoinIInv, NEW j \in Joins, JoinValidate(j) PROVE JoinIInv'
<1> USE JoinIInvParts
<1>1. CASE MayJoin(join[j]) /\ join' = [join EXCEPT ![j].pc = "valid", ![j].via = "terminal",
                                                    ![j].row = ZeroRow]
  <2>1. /\ join'[j].pc = "valid" /\ join'[j].user = join[j].user /\ join'[j].inv = join[j].inv
        /\ \A k \in Joins \ {j} : join'[k] = join[k]
        BY <1>1 DEF JoinTypeOK
  <2>2. Earned(join[j]) /\ join[j].pc = "read" BY DEF JoinValidate, JoinsEarned
  <2>3. join[j].user # Owner /\ issuedTo[join[j].inv] \in {NoUser, join[j].user}
        BY <1>1, <2>2 DEF MayJoin, IsLink, Earned
  <2>4. Earned(join[j])'
        BY <2>1, <2>2, <2>3 DEF JoinValidate, rows, Earned
  <2>5. (RoomTypeOK /\ StoreTypeOK => JoinTypeOK)'
    <3>1. join \in [Joins -> JoinRecord] BY DEF JoinTypeOK, JoinRecord, RowRecord
    <3>2. join' = [join EXCEPT ![j] = [@ EXCEPT !.pc = "valid", !.via = "terminal", !.row = ZeroRow]]
          BY <1>1
    <3>3. join' \in [Joins -> JoinRecord] BY <3>1, <3>2, RecordUpdates
    <3> QED BY <3>3 DEF JoinValidate, JoinTypeOK, JoinRecord, RowRecord
  <2> QED BY <2>1, <2>4, <2>5, JoinStepKeeps DEF JoinValidate
<1>2. CASE join' = [join EXCEPT ![j] = IdleJoin]
  <2>1. join'[j] = IdleJoin /\ \A k \in Joins \ {j} : join'[k] = join[k]
        BY <1>2 DEF JoinTypeOK
  <2>2. (RoomTypeOK /\ StoreTypeOK => JoinTypeOK)'
        BY <1>2, RecordTypes, OwnerIsUser DEF JoinValidate, JoinTypeOK, Paths, IdleJoin
  <2> QED BY <2>1, <2>2, IdleIsEarned, JoinStepKeeps DEF JoinValidate
<1> QED BY <1>1, <1>2 DEF JoinValidate

\* JoinConsume: RecordUse refuses, records the use and the consumer, or the use alone.
LEMMA ConsumeKeeps ==
  ASSUME JoinIInv, NEW j \in Joins, JoinConsume(j) PROVE JoinIInv'
<1> USE JoinIInvParts
<1> DEFINE i == join[j].inv
           u == join[j].user
<1>1. /\ Earned(join[j]) /\ join[j].pc = "valid" /\ u \in Users
      /\ UNCHANGED <<room, sessionIs, invite, revoke, barred>>
      BY DEF JoinConsume, JoinsEarned, JoinTypeOK
<1>2. i \in Invitations /\ issuedTo[i] \in {NoUser, u} /\ u # Owner BY <1>1 DEF Earned
<1>3. CASE ~AdmitsUse(i) /\ join' = [join EXCEPT ![j] = IdleJoin] /\ UNCHANGED rows
  <2>1. join'[j] = IdleJoin /\ \A k \in Joins \ {j} : join'[k] = join[k]
        BY <1>3 DEF JoinTypeOK
  <2>2. (RoomTypeOK /\ StoreTypeOK => JoinTypeOK)'
        BY <1>1, <1>3, RecordTypes, OwnerIsUser DEF JoinTypeOK, Paths, IdleJoin
  <2> QED BY <1>1, <1>3, <2>1, <2>2, IdleIsEarned, JoinStepKeeps
<1>4. ASSUME NEW inserted \in BOOLEAN, RecordUse(i, u, inserted),
             \A k \in Joins \ {j} : join'[k] = join[k],
             RowsGrow /\ (inserted => u \in consumers'[i]) => Earned(join[j])',
             (RoomTypeOK /\ StoreTypeOK => JoinTypeOK)'
      PROVE  JoinIInv'
  <2>1. RowsIInv' /\ RowsGrow /\ (inserted => u \in consumers'[i])
        BY <1>1, <1>2, <1>4, RecordUseRows
  <2>2. RoomIInv' BY <1>1, StutterIInv
  <2>3. JoinsEarned' BY <1>4, <2>1, OneJoinMoves
  <2>4. ViewersConsumed' BY <1>1, <2>1, ViewersStay DEF room
  <2>5. BarredKicked' BY <1>1 DEF room, BarredKicked
  <2> QED BY <1>4, <2>1, <2>2, <2>3, <2>4, <2>5, JoinIInvWhole
<1>5. CASE RecordUse(i, u, TRUE) /\ join' = [join EXCEPT ![j].pc = "used"]
  <2>1. /\ join'[j].pc = "used" /\ join'[j].user = u /\ join'[j].inv = i
        /\ \A k \in Joins \ {j} : join'[k] = join[k]
        BY <1>5 DEF JoinTypeOK
  <2>2. RowsGrow /\ u \in consumers'[i] => Earned(join[j])'
        BY <1>1, <1>2, <2>1 DEF Earned, RowsGrow
  <2>3. (RoomTypeOK /\ StoreTypeOK => JoinTypeOK)' BY <1>1, <1>5 DEF JoinTypeOK
  <2> QED BY <1>4, <1>5, <2>1, <2>2, <2>3
<1>6. CASE RecordUse(i, u, FALSE) /\ join' = [join EXCEPT ![j] = IdleJoin]
  <2>1. join'[j] = IdleJoin /\ \A k \in Joins \ {j} : join'[k] = join[k]
        BY <1>6 DEF JoinTypeOK
  <2>2. Earned(join[j])' BY <2>1, IdleIsEarned
  <2>3. (RoomTypeOK /\ StoreTypeOK => JoinTypeOK)'
        BY <1>1, <1>6, RecordTypes, OwnerIsUser DEF JoinTypeOK, Paths, IdleJoin
  <2> QED BY <1>4, <1>6, <2>1, <2>2, <2>3
<1> QED BY <1>3, <1>5, <1>6 DEF JoinConsume

\* A join that calls EnsureRoom: JoinRoom after the use, or a watching admin.
LEMMA EnsureKeeps ==
  ASSUME JoinIInv, NEW j \in Joins, EnsureRoom, UNCHANGED <<rows, sessionIs, barred>>,
         \A k \in Joins \ {j} : join'[k] = join[k],
         RowsGrow => Earned(join[j])',
         (RoomTypeOK /\ StoreTypeOK => JoinTypeOK)'
  PROVE  JoinIInv'
<1> USE JoinIInvParts
<1>1. RowsIInv' /\ RowsGrow BY RowsStutter
<1>2. RoomIInv' BY EnsureRoomIInv
<1>3. JoinsEarned' BY <1>1, OneJoinMoves
<1>4. ViewersConsumed' BY <1>1, ViewersStay DEF EnsureRoom, room
<1>5. BarredKicked' BY DEF EnsureRoom, room, BarredKicked
<1> QED BY <1>1, <1>2, <1>3, <1>4, <1>5, JoinIInvWhole

\* JoinEnsureRoom: the room is fetched for somebody who has consumed.
LEMMA JoinEnsureRoomKeeps ==
  ASSUME JoinIInv, NEW j \in Joins, JoinEnsureRoom(j) PROVE JoinIInv'
<1> USE JoinIInvParts
<1>1. /\ join'[j].pc = "room" /\ join'[j].user = join[j].user /\ join'[j].inv = join[j].inv
      /\ \A k \in Joins \ {j} : join'[k] = join[k]
      BY DEF JoinEnsureRoom, JoinTypeOK
<1>2. Earned(join[j]) /\ join[j].pc = "used" BY DEF JoinEnsureRoom, JoinsEarned
<1>3. RowsGrow => Earned(join[j])' BY <1>1, <1>2 DEF Earned, RowsGrow
<1>4. (RoomTypeOK /\ StoreTypeOK => JoinTypeOK)'
  <2>1. join \in [Joins -> JoinRecord] BY DEF JoinTypeOK, JoinRecord, RowRecord
  <2>2. join' = [join EXCEPT ![j] = [@ EXCEPT !.pc = "room", !.held = TRUE]] BY DEF JoinEnsureRoom
  <2>3. join' \in [Joins -> JoinRecord] BY <2>1, <2>2, RecordUpdates
  <2> QED BY <2>3 DEF JoinEnsureRoom, JoinTypeOK, JoinRecord, RowRecord
<1> QED BY <1>1, <1>3, <1>4, EnsureKeeps DEF JoinEnsureRoom

\* AdminWatchSession: an admin needs no invitation, only not to be the owner.
LEMMA AdminWatchKeeps ==
  ASSUME JoinIInv, NEW j \in Joins, NEW u \in Admins, AdminWatchSession(j, u) PROVE JoinIInv'
<1> USE JoinIInvParts
<1>1. /\ join'[j] = [IdleJoin EXCEPT !.pc = "room", !.user = u, !.inv = AdminWatch, !.held = TRUE]
      /\ \A k \in Joins \ {j} : join'[k] = join[k]
      BY DEF AdminWatchSession, JoinTypeOK
<1>2. Earned(join[j])' BY <1>1 DEF AdminWatchSession, IdleJoin, Earned
<1>3. (RoomTypeOK /\ StoreTypeOK => JoinTypeOK)'
      BY RecordTypes, OwnerIsUser, AdminsAreUsers
      DEF AdminWatchSession, JoinTypeOK, Paths, IdleJoin, Labels
<1> QED BY <1>1, <1>2, <1>3, EnsureKeeps DEF AdminWatchSession

\* JoinAddViewer: whoever enters the room has consumed the invitation they enter on.
LEMMA AddViewerKeeps ==
  ASSUME JoinIInv, NEW j \in Joins, JoinAddViewer(j) PROVE JoinIInv'
<1> USE JoinIInvParts
<1> DEFINE i == join[j].inv
           u == join[j].user
<1>1. /\ join'[j] = IdleJoin
      /\ \A k \in Joins \ {j} : join'[k] = join[k]
      /\ UNCHANGED <<rows, sessionIs, invite, revoke, barred>>
      BY DEF JoinAddViewer, JoinTypeOK
<1>2. Earned(join[j])' BY <1>1, IdleIsEarned
<1>3. (RoomTypeOK /\ StoreTypeOK => JoinTypeOK)'
      BY RecordTypes, OwnerIsUser DEF JoinAddViewer, JoinTypeOK, Paths, IdleJoin
<1>4. CASE UNCHANGED room BY <1>1, <1>2, <1>3, <1>4, JoinStepKeeps
<1>5. CASE AddViewer(u, i)
  <2>1. Earned(join[j]) /\ join[j].pc = "room" /\ u \in Users
        BY DEF JoinAddViewer, JoinsEarned, JoinTypeOK
  <2>2. /\ u # Owner /\ i \in Labels
        /\ \/ i = AdminWatch /\ u \in Admins
           \/ i \in Invitations /\ u \in consumers[i]
        BY <2>1 DEF Earned, Labels
  <2>3. RoomIInv' BY <1>5, <2>1, <2>2, AddViewerIInv
  <2>4. RowsIInv' /\ RowsGrow BY <1>1, RowsStutter
  <2>5. JoinsEarned' BY <1>1, <1>2, <2>4, OneJoinMoves
  <2>6. ViewersConsumed'
    <3>1. invitationID'[u] = i BY <1>5, <2>1, <2>2, NoInvitationIsNone DEF AddViewer, RoomTypeOK, Labels
    <3>2. \A v \in Users \ {u} : invitationID'[v] = invitationID[v]
          BY <1>5 DEF AddViewer, RoomTypeOK
    <3>3. members' = members \cup {u} /\ members \subseteq Users /\ consumers' = consumers
          BY <1>1, <1>5 DEF AddViewer, RoomTypeOK, rows
    <3> QED BY <2>2, <3>1, <3>2, <3>3 DEF ViewersConsumed
  <2>7. BarredKicked' BY <1>1, <1>5 DEF AddViewer, BarredKicked
  <2> QED BY <1>3, <2>3, <2>4, <2>5, <2>6, <2>7, JoinIInvWhole
<1> QED BY <1>4, <1>5 DEF JoinAddViewer

------------------------------------------------------------------------------
(* The end of the session.                                                  *)

\* Registry.Remove with requests in flight: they keep what they have shown.
LEMMA RoomRemovedKeeps ==
  ASSUME JoinIInv, Remove, Orphaned, UNCHANGED <<rows, invite, barred>>,
         sessionIs' \in {"ended", "gone"}
  PROVE  JoinIInv'
<1> USE JoinIInvParts
<1>1. RowsIInv' /\ RowsGrow BY RowsStutter
<1>2. RoomIInv' BY RemoveIInv
<1>3. JoinsEarned'
  <2> SUFFICES ASSUME NEW k \in Joins PROVE Earned(join[k])'
      BY DEF JoinsEarned
  <2>1. join'[k] = [join[k] EXCEPT !.held = FALSE] /\ Earned(join[k])
        BY DEF Orphaned, JoinsEarned
  <2>2. /\ join'[k].pc = join[k].pc /\ join'[k].user = join[k].user
        /\ join'[k].inv = join[k].inv /\ join'[k].row = join[k].row
        BY <2>1 DEF JoinTypeOK
  <2> QED BY <1>1, <2>1, <2>2 DEF Earned, RowsGrow
<1>4. ViewersConsumed' BY <1>1, ViewersStay DEF Remove
<1>5. BarredKicked' BY DEF BarredKicked
<1>6. (RoomTypeOK /\ StoreTypeOK => JoinTypeOK)'
  <2>1. join \in [Joins -> JoinRecord] BY DEF JoinTypeOK, JoinRecord, RowRecord
  <2>2. join' \in [Joins -> JoinRecord] BY <2>1, RecordUpdates DEF Orphaned
  <2> QED BY <2>2 DEF Orphaned, JoinTypeOK, JoinRecord, RowRecord
<1> QED BY <1>1, <1>2, <1>3, <1>4, <1>5, <1>6, JoinIInvWhole

\* SessionEnds and SessionGone, with or without another Remove.
LEMMA EndKeeps == ASSUME JoinIInv, SessionEnds \/ SessionGone PROVE JoinIInv'
<1> USE JoinIInvParts
<1>1. CASE SessionEnds BY <1>1, RoomRemovedKeeps DEF SessionEnds
<1>2. CASE SessionGone /\ Remove /\ Orphaned BY <1>2, RoomRemovedKeeps DEF SessionGone
<1>3. CASE SessionGone /\ UNCHANGED <<room, join, revoke>>
  <2>1. /\ sessionIs' = "gone"
        /\ UNCHANGED <<room, rows, join, revoke, invite, barred>>
        BY <1>3 DEF SessionGone
  <2>2. RowsIInv' /\ RowsGrow BY <2>1, RowsStutter
  <2>3. RoomIInv' BY <2>1, StutterIInv
  <2>4. JoinsEarned' BY <2>1, <2>2, EarnedStays
  <2>5. ViewersConsumed' BY <2>1, <2>2, ViewersStay DEF room
  <2>6. BarredKicked' BY <2>1 DEF BarredKicked
  <2>7. (RoomTypeOK /\ StoreTypeOK => JoinTypeOK)' BY <2>1 DEF JoinTypeOK
  <2> QED BY <2>2, <2>3, <2>4, <2>5, <2>6, <2>7, JoinIInvWhole
<1> QED BY <1>1, <1>2, <1>3 DEF SessionGone

------------------------------------------------------------------------------
\* A session that has just started: its room holds the owner alone.
LEMMA InitJoinIInv == JoinInit => JoinIInv
<1> SUFFICES ASSUME JoinInit PROVE JoinIInv
    OBVIOUS
<1>1. StoreIInv BY InitStoreIInv DEF JoinInit
<1>2. RoomTypeOK BY OwnerIsUser DEF JoinInit, RoomTypeOK
<1>3. RoomInv
      BY OwnerIsUser
      DEF JoinInit, RoomInv, OwnerPresent, WriterPresent, KickedAbsent,
          PendingRequesterPresent, OnePendingPerUser, InvitationOnlyOfViewers
<1>4. RowsIInv
      BY <1>1 DEF JoinInit, StoreInit, RowsIInv, RowsAddressed, ConsumedByAddressee
<1>5. JoinTypeOK
      BY <1>1, <1>2, RecordTypes, OwnerIsUser
      DEF StoreIInv, JoinInit, JoinTypeOK, IdleJoin, IdleInvite, IdleRevoke, Paths
<1>6. JoinsEarned BY DEF JoinInit, JoinsEarned, Earned, IdleJoin
<1>7. ViewersConsumed /\ BarredKicked BY DEF JoinInit, ViewersConsumed, BarredKicked
<1> QED BY <1>3, <1>4, <1>5, <1>6, <1>7 DEF JoinIInv

\* Every step of every handler, and of the session, keeps the invariant.
LEMMA JoinNextIInv == JoinIInv /\ [JoinNext]_joinVars => JoinIInv'
<1> SUFFICES ASSUME JoinIInv, [JoinNext]_joinVars PROVE JoinIInv'
    OBVIOUS
<1>1. CASE \E i \in Invitations, to \in Users \ {Owner}, pardon \in BOOLEAN :
             InviteCreate(i, to, 0, pardon)
      BY <1>1, InviteCreateKeeps, MaxLinkUsesIsPositive
<1>2. CASE \E i \in Invitations, cap \in 0..MaxLinkUses : InviteCreate(i, NoUser, cap, FALSE)
      BY <1>2, InviteCreateKeeps
<1>3. CASE \E i \in Invitations : RevokeMark(i) \/ Expiry(i) BY <1>3, RowMarkKeeps
<1>4. CASE InviteRoom BY <1>4, InviteRoomKeeps
<1>5. CASE \E u \in Users : Kick(u) BY <1>5, KickKeeps
<1>6. CASE RevokeList \/ RevokeDone \/ \E u \in Users : RevokeDisconnect(u) BY <1>6, RevokeKeeps
<1>7. CASE \E j \in Joins, u \in Users, i \in Invitations, via \in Paths : JoinLookup(j, u, i, via)
      BY <1>7, LookupKeeps
<1>8. CASE \E j \in Joins, u \in Admins : AdminWatchSession(j, u) BY <1>8, AdminWatchKeeps
<1>9. CASE \E j \in Joins : JoinValidate(j) \/ JoinConsume(j) BY <1>9, ValidateKeeps, ConsumeKeeps
<1>10. CASE \E j \in Joins : JoinEnsureRoom(j) \/ JoinAddViewer(j)
       BY <1>10, JoinEnsureRoomKeeps, AddViewerKeeps
<1>11. CASE SessionEnds \/ SessionGone BY <1>11, EndKeeps
<1>12. CASE UNCHANGED joinVars
  <2>1. (RoomTypeOK /\ StoreTypeOK => JoinTypeOK)'
        BY <1>12, JoinIInvParts DEF joinVars, JoinTypeOK
  <2> QED BY <1>12, <2>1, BookkeepingKeeps DEF joinVars
<1> QED BY <1>1, <1>2, <1>3, <1>4, <1>5, <1>6, <1>7, <1>8, <1>9, <1>10, <1>11, <1>12 DEF JoinNext

\* Whoever is in the room and is not a watching admin consumed the invitation they are
\* in on, and an invitation made out to a user was consumed by that user only: RecordUse
\* comes before AddViewer in handleJoinSession and in JoinRoom.
THEOREM JoinAdmissionsPaid == JoinSpec => []AdmissionsPaid
<1>1. JoinIInv => AdmissionsPaid BY DEF JoinIInv, RowsIInv, AdmissionsPaid
<1> QED BY <1>1, InitJoinIInv, JoinNextIInv, PTL DEF JoinSpec

\* A removed user is back in a running session only after an invitation by name
\* (registry.go, Unkick).
THEOREM JoinRejoinNeedsNamedInvite == JoinSpec => []RejoinNeedsNamedInvite
<1>1. JoinIInv => RejoinNeedsNamedInvite
      BY DEF JoinIInv, RoomInv, KickedAbsent, BarredKicked, RejoinNeedsNamedInvite
<1> QED BY <1>1, InitJoinIInv, JoinNextIInv, PTL DEF JoinSpec

\* The caps hold and the room stays consistent under the handlers, too: no join, kick,
\* revocation or end of the session takes an invitation past its cap.
THEOREM JoinKeepsCapsAndRoom == JoinSpec => [](UsesWithinCap /\ RoomInv)
<1>1. JoinIInv => UsesWithinCap /\ RoomInv BY DEF JoinIInv, RowsIInv, StoreIInv
<1> QED BY <1>1, InitJoinIInv, JoinNextIInv, PTL DEF JoinSpec
=============================================================================
