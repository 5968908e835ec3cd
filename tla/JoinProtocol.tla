---------------------------- MODULE JoinProtocol ----------------------------
(***************************************************************************)
(* Joining a shared terminal session while its owner invites, kicks and    *)
(* revokes: the HTTP handlers of internal/httpapi/sharing.go, the shared   *)
(* sharing.Service.JoinRoom (CLI, VNC, RDP) and the end of the session.    *)
(*                                                                         *)
(* The room is in memory, the invitations in SQLite: a handler touches     *)
(* them one call at a time, and each call is a step here, so requests of   *)
(* different users interleave between them.                                *)
(* What happens to live connections (DetachUser, SetWriter) is the subject *)
(* of WriterToken; publishing events and audit records is left out.        *)
(***************************************************************************)
EXTENDS SharingRoom, InvitationStore

CONSTANTS
  Joins,   \* join requests that may be in flight at the same time
  Admins   \* users who may watch a session without an invitation

ASSUME AdminsAreUsers == Admins \subseteq Users

VARIABLES
  sessionIs, \* "running"; "ended": its room has been removed; "gone": not in the manager
  join,      \* the join requests in flight
  invite,    \* the owner's invitation request, between Create and Unkick
  revoke,    \* the owner's revocation, between MarkRevoked and the last disconnect
  barred     \* history: removed users no invitation by name has pardoned since

joinVars == <<room, rows, sessionIs, join, invite, revoke, barred>>

ZeroRow == [invitee |-> NoUser, maxUses |-> 0, useCount |-> 0, used |-> FALSE, revoked |-> FALSE]
IdleJoin == [pc |-> "idle", user |-> Owner, inv |-> NoInvitation, via |-> "terminal",
             row |-> ZeroRow, held |-> FALSE]
IdleInvite == [pc |-> "idle", user |-> NoUser, pardon |-> FALSE]
IdleRevoke == [pc |-> "idle", inv |-> NoInvitation, victims |-> {}]

\* terminal: handleJoinSession.  service: JoinRoom, from the CLI and for VNC and RDP.
Paths == {"terminal", "service"}

\* The session starts with its room: runDetachableBridge calls ensureRoomFor.
JoinInit ==
  /\ opened = TRUE
  /\ members = {Owner}
  /\ invitationID = [u \in Users |-> NoInvitation]
  /\ writerID = Owner
  /\ kicked = {}
  /\ status = [r \in RequestIDs |-> "absent"]
  /\ requester = [r \in RequestIDs |-> Owner]
  /\ StoreInit
  /\ sessionIs = "running"
  /\ join = [j \in Joins |-> IdleJoin]
  /\ invite = IdleInvite
  /\ revoke = IdleRevoke
  /\ barred = {}

SessionListed == sessionIs # "gone"   \* the manager's Get finds it

------------------------------------------------------------------------------
(* The owner issues invitations.  Create and the work on the room are two   *)
(* steps; only an invitation by name lifts a kick (tag and group invitations *)
(* are named rows too, but leave the kick alone).                            *)

InviteCreate(i, to, cap, pardon) ==
  /\ SessionListed
  /\ invite.pc = "idle"
  /\ Create(i, to, cap)
  /\ invite' = [pc |-> "created", user |-> to, pardon |-> pardon]
  /\ UNCHANGED <<room, sessionIs, join, revoke, barred>>

\* Every invitation lifts the kick of the user it names.
InviteRoomFault ==
  /\ invite.pc = "created"
  /\ IF opened /\ invite.user \in kicked THEN Unkick(invite.user) ELSE EnsureRoom
  /\ invite' = IdleInvite
  /\ barred' = IF invite.pardon THEN barred \ {invite.user} ELSE barred
  /\ UNCHANGED <<rows, sessionIs, join, revoke>>

\* ensureRoomFor, then Unkick.
InviteRoom ==
  /\ invite.pc = "created"
  /\ IF opened /\ invite.pardon /\ invite.user \in kicked
     THEN Unkick(invite.user) ELSE EnsureRoom
  /\ invite' = IdleInvite
  /\ barred' = IF invite.pardon THEN barred \ {invite.user} ELSE barred
  /\ UNCHANGED <<rows, sessionIs, join, revoke>>

Kick(u) ==
  /\ SessionListed
  /\ RemoveParticipant(u)
  /\ barred' = barred \cup {u}
  /\ UNCHANGED <<rows, sessionIs, join, invite, revoke>>

------------------------------------------------------------------------------
(* The owner revokes an invitation: the row first, then the participants    *)
(* the room lists for it, one by one.                                       *)

RevokeMark(i) ==
  /\ SessionListed
  /\ revoke.pc = "idle"
  /\ MarkRevoked(i)
  /\ revoke' = [pc |-> "marked", inv |-> i, victims |-> {}]
  /\ UNCHANGED <<room, sessionIs, join, invite, barred>>

RevokeList ==
  /\ revoke.pc = "marked"
  /\ revoke' = [revoke EXCEPT !.pc = "listed", !.victims = ParticipantsVia(revoke.inv)]
  /\ UNCHANGED <<room, rows, sessionIs, join, invite, barred>>

\* disconnectSessionUser ignores RemoveParticipant's error for one who has left.
RevokeDisconnect(u) ==
  /\ revoke.pc = "listed"
  /\ u \in revoke.victims
  /\ IF opened /\ u \in members
     THEN RemoveParticipant(u) /\ barred' = barred \cup {u}
     ELSE UNCHANGED <<room, barred>>
  /\ revoke' = [revoke EXCEPT !.victims = @ \ {u}]
  /\ UNCHANGED <<rows, sessionIs, join, invite>>

RevokeDone ==
  /\ revoke.pc = "listed"
  /\ revoke.victims = {}
  /\ revoke' = IdleRevoke
  /\ UNCHANGED <<room, rows, sessionIs, join, invite, barred>>

------------------------------------------------------------------------------
(* A join request.                                                          *)

\* The session is looked up, and the row read by token or ID.
JoinLookup(j, u, i, via) ==
  /\ SessionListed
  /\ join[j].pc = "idle"
  /\ created[i]
  /\ join' = [join EXCEPT ![j] = [pc |-> "read", user |-> u, inv |-> i, via |-> via,
                                  row |-> Row(i), held |-> FALSE]]
  /\ UNCHANGED <<room, rows, sessionIs, invite, revoke, barred>>

\* The invitee of the row is not compared with the caller.
MayJoinFault(q) ==
  /\ Active(q.row, q.inv)
  /\ q.user # Owner

\* validateJoinInvitation and the head of JoinRoom, up to the two access checks,
\* whose answers are the access store's and free here: a request that may join
\* may still be refused.  Only the latter looks at the
\* kick before the invitation is consumed.
MayJoin(q) ==
  /\ Active(q.row, q.inv)
  /\ IsLink(q.row) \/ q.row.invitee = q.user
  /\ q.user # Owner
  /\ q.via = "service" => ~(opened /\ q.user \in kicked)

JoinValidate(j) ==
  /\ join[j].pc = "read"
  /\ \/ /\ MayJoin(join[j])
        /\ join' = [join EXCEPT ![j].pc = "valid", ![j].via = "terminal", ![j].row = ZeroRow]
     \/ join' = [join EXCEPT ![j] = IdleJoin]
  /\ UNCHANGED <<room, rows, sessionIs, invite, revoke, barred>>

\* The invitation is only consumed after the viewer was added.
JoinConsumeFault(j) ==
  /\ join[j].pc = "valid"
  /\ join' = [join EXCEPT ![j].pc = "used"]
  /\ UNCHANGED <<room, rows, sessionIs, invite, revoke, barred>>

\* Store.RecordUse: refused, recorded, or recorded with the insert failing.
JoinConsume(j) ==
  /\ join[j].pc = "valid"
  /\ \/ /\ ~AdmitsUse(join[j].inv)
        /\ join' = [join EXCEPT ![j] = IdleJoin]
        /\ UNCHANGED rows
     \/ /\ RecordUse(join[j].inv, join[j].user, TRUE)
        /\ join' = [join EXCEPT ![j].pc = "used"]
     \/ /\ RecordUse(join[j].inv, join[j].user, FALSE)
        /\ join' = [join EXCEPT ![j] = IdleJoin]
  /\ UNCHANGED <<room, sessionIs, invite, revoke, barred>>

JoinEnsureRoom(j) ==
  /\ join[j].pc = "used"
  /\ EnsureRoom
  /\ join' = [join EXCEPT ![j].pc = "room", ![j].held = TRUE]
  /\ UNCHANGED <<rows, sessionIs, invite, revoke, barred>>

\* handleAdminWatchSession, up to EnsureRoom.
AdminWatchSession(j, u) ==
  /\ SessionListed
  /\ join[j].pc = "idle"
  /\ u # Owner
  /\ EnsureRoom
  /\ join' = [join EXCEPT ![j] = [IdleJoin EXCEPT !.pc = "room", !.user = u,
                                                !.inv = AdminWatch, !.held = TRUE]]
  /\ UNCHANGED <<rows, sessionIs, invite, revoke, barred>>

\* IsKicked and AddViewer on the room the request holds; an admin who is in the
\* room already stays as they are.
JoinAddViewer(j) ==
  /\ join[j].pc = "room"
  /\ IF /\ join[j].held
        /\ join[j].user \notin kicked
        /\ join[j].inv = AdminWatch => join[j].user \notin members
     THEN AddViewer(join[j].user, join[j].inv)
     ELSE UNCHANGED room
  /\ join' = [join EXCEPT ![j] = IdleJoin]
  /\ UNCHANGED <<rows, sessionIs, invite, revoke, barred>>

------------------------------------------------------------------------------
(* The session ends, and the world moves.                                   *)

\* Requests that got hold of the room go on writing to it when it is removed from
\* the registry, in vain.
Orphaned ==
  /\ join' = [j \in Joins |-> [join[j] EXCEPT !.held = FALSE]]
  /\ revoke' = [revoke EXCEPT !.victims = {}]

\* The room is removed while the manager still lists the session: by the deferred
\* Remove of runDetachableBridge, and before that by stopSessionsOwnedBy when the
\* owner's account goes.
SessionEnds ==
  /\ sessionIs # "gone"
  /\ sessionIs' = "ended"
  /\ Remove
  /\ Orphaned
  /\ UNCHANGED <<rows, invite, barred>>

\* The manager's goroutine deletes the session; a Stop by the owner or an admin
\* is followed by another Remove, a natural end is not.  (A Stop that gives up on
\* the goroutine is in SessionLifecycle.)
SessionGone ==
  /\ sessionIs = "ended"
  /\ sessionIs' = "gone"
  /\ \/ UNCHANGED <<room, join, revoke>>
     \/ Remove /\ Orphaned
  /\ UNCHANGED <<rows, invite, barred>>

Expiry(i) ==
  /\ clock[i] # "after"
  /\ PassExpiry(i)
  /\ UNCHANGED <<room, sessionIs, join, invite, revoke, barred>>

------------------------------------------------------------------------------
JoinNext ==
  \/ \E i \in Invitations :
       \/ \E to \in Users \ {Owner}, pardon \in BOOLEAN : InviteCreate(i, to, 0, pardon)
       \/ \E cap \in 0..MaxLinkUses : InviteCreate(i, NoUser, cap, FALSE)
       \/ RevokeMark(i)
       \/ Expiry(i)
  \/ InviteRoom
  \/ \E u \in Users : Kick(u) \/ RevokeDisconnect(u)
  \/ RevokeList
  \/ RevokeDone
  \/ \E j \in Joins :
       \/ \E u \in Users, i \in Invitations, via \in Paths : JoinLookup(j, u, i, via)
       \/ \E u \in Admins : AdminWatchSession(j, u)
       \/ JoinValidate(j)
       \/ JoinConsume(j)
       \/ JoinEnsureRoom(j)
       \/ JoinAddViewer(j)
  \/ SessionEnds
  \/ SessionGone

JoinSpec == JoinInit /\ [][JoinNext]_joinVars

------------------------------------------------------------------------------
\* The type of every variable of the composition.
JoinTypeOK ==
  /\ RoomTypeOK
  /\ StoreTypeOK
  /\ sessionIs \in {"running", "ended", "gone"}
  /\ join \in [Joins -> [pc : {"idle", "read", "valid", "used", "room"}, user : Users,
                         inv : Labels \cup {NoInvitation}, via : Paths,
                         row : [invitee : Users \cup {NoUser}, maxUses : 0..MaxLinkUses,
                                useCount : Nat, used : BOOLEAN, revoked : BOOLEAN],
                         held : BOOLEAN]]
  /\ invite \in [pc : {"idle", "created"}, user : Users \cup {NoUser}, pardon : BOOLEAN]
  /\ revoke \in [pc : {"idle", "marked", "listed"}, inv : Invitations \cup {NoInvitation},
                 victims : SUBSET Users]
  /\ barred \in SUBSET Users

\* Nobody but a watching admin is in the room on an invitation they did not consume,
\* however joins, kicks, revocations and re-invitations interleave (RecordUse before
\* AddViewer).
ViewersConsumed ==
  \A u \in Viewers : \/ invitationID[u] = AdminWatch /\ u \in Admins
                     \/ \E i \in Invitations : invitationID[u] = i /\ u \in consumers[i]

\* An invitation issued to one user is consumed by that user only, although joins
\* decide on a copy of the row and the row may have changed since.
ConsumedByAddressee ==
  \A i \in Invitations : issuedTo[i] # NoUser => consumers[i] \subseteq {issuedTo[i]}

\* "Shareable links, tag and group invitations do not lift" a kick (registry.go,
\* Unkick): as long as the room lives, a removed user is back only if the owner
\* has invited them by name since.
RejoinNeedsNamedInvite == sessionIs = "running" => barred \cap members = {}

------------------------------------------------------------------------------
(* What the comments and docs say, and the code does not do.                *)

\* service.go:50: "A kicked user is refused BEFORE the invitation is consumed".
KickedNeverConsumes ==
  [][\A u \in kicked, i \in Invitations : u \in consumers'[i] => u \in consumers[i]]_joinVars

\* docs/collaborative-sessions.md:40: "Revoking an invitation disconnects active
\* viewers who joined via that invite": once the revocation is over and no request
\* is in flight, no viewer is left who came with it.
RevokedViewersGone ==
  (revoke = IdleRevoke /\ \A j \in Joins : join[j] = IdleJoin) =>
    \A i \in Invitations : revoked[i] => ParticipantsVia(i) = {}

\* Every viewer in the room was admitted by an invitation that counted the use, and
\* one made out to a user was used by that user only.
AdmissionsPaid == JoinTypeOK /\ ViewersConsumed /\ ConsumedByAddressee

=============================================================================
