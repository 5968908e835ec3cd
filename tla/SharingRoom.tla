---------------------------- MODULE SharingRoom ----------------------------
(***************************************************************************)
(* The sharing room of one session: internal/sharing/registry.go.          *)
(*                                                                         *)
(* A Room is guarded by its own mutex and the Registry by another, so each *)
(* exported method is one atomic action here.  An early return that leaves *)
(* the room untouched is the action not being enabled; the one error path  *)
(* that does write (GrantWrite finding its requester gone) is kept.        *)
(*                                                                         *)
(* memberByID is split into the set of its keys and the invitation each    *)
(* participant joined with; requests into a status (absent when the map    *)
(* has no such key) and a requester.  Usernames and timestamps are left    *)
(* out: no operation branches on them.                                     *)
(***************************************************************************)
EXTENDS Sharing

CONSTANT RequestIDs   \* write-request IDs; newSharingID never repeats one

VARIABLES
  opened,        \* Registry.rooms has an entry for the session
  members,       \* keys of memberByID
  invitationID,  \* Participant.InvitationID of each member
  writerID,      \* the user holding the write token
  kicked,        \* users removed, who may not rejoin
  status,        \* WriteRequest.Status by request ID
  requester      \* WriteRequest.RequesterID by request ID

requests == <<status, requester>>
room == <<opened, members, invitationID, writerID, kicked, status, requester>>

Decided == {"granted", "denied", "canceled"}
Statuses == Decided \cup {"absent", "pending"}

\* Role: the owner is the participant EnsureRoom records, everyone else is a viewer.
Viewers == members \ {Owner}

PendingOf(u) == {r \in RequestIDs : status[r] = "pending" /\ requester[r] = u}

\* The fields of a session without a room.
NoRoom ==
  /\ opened = FALSE
  /\ members = {}
  /\ invitationID = [u \in Users |-> NoInvitation]
  /\ writerID = Owner
  /\ kicked = {}
  /\ status = [r \in RequestIDs |-> "absent"]
  /\ requester = [r \in RequestIDs |-> Owner]

RoomInit == NoRoom

------------------------------------------------------------------------------
(* Registry *)

EnsureRoom ==
  IF opened
  THEN UNCHANGED room
  ELSE /\ opened' = TRUE
       /\ members' = {Owner}
       /\ UNCHANGED <<invitationID, writerID, kicked, requests>>

\* Registry.Remove drops the room with everything in it.
Remove ==
  /\ opened
  /\ opened' = FALSE
  /\ members' = {}
  /\ invitationID' = [u \in Users |-> NoInvitation]
  /\ writerID' = Owner
  /\ kicked' = {}
  /\ status' = [r \in RequestIDs |-> "absent"]
  /\ requester' = [r \in RequestIDs |-> Owner]

------------------------------------------------------------------------------
(* Room.  The operators named ...Fault are the mistakes the checks must be  *)
(* able to notice; no behaviour of the specification uses them.             *)

\* Re-adding a participant keeps the entry but takes the new invitation.
AddViewer(u, inv) ==
  /\ opened
  /\ u \notin kicked
  /\ members' = members \cup {u}
  /\ invitationID' = [invitationID EXCEPT ![u] =
                        IF u \in members /\ inv = NoInvitation THEN @ ELSE inv]
  /\ UNCHANGED <<opened, writerID, kicked, requests>>

Unkick(u) ==
  /\ opened
  /\ u \in kicked
  /\ kicked' = kicked \ {u}
  /\ UNCHANGED <<opened, members, invitationID, writerID, requests>>

\* The leaver's pending requests survive, and so does its write token.
RemoveParticipantFault(u) ==
  /\ opened
  /\ u # Owner
  /\ u \in members
  /\ members' = members \ {u}
  /\ invitationID' = [invitationID EXCEPT ![u] = NoInvitation]
  /\ kicked' = kicked \cup {u}
  /\ UNCHANGED <<opened, writerID, requests>>

RemoveParticipant(u) ==
  /\ opened
  /\ u # Owner
  /\ u \in members
  /\ members' = members \ {u}
  /\ invitationID' = [invitationID EXCEPT ![u] = NoInvitation]
  /\ kicked' = kicked \cup {u}
  /\ status' = [r \in RequestIDs |-> IF r \in PendingOf(u) THEN "canceled" ELSE status[r]]
  /\ writerID' = IF writerID = u THEN Owner ELSE writerID
  /\ UNCHANGED <<opened, requester>>

\* r is fresh: its ID comes from newSharingID.
RequestWrite(r, u) ==
  /\ opened
  /\ status[r] = "absent"
  /\ u \in members
  /\ writerID # u
  /\ status' = [q \in RequestIDs |-> IF q = r THEN "pending"
                                     ELSE IF q \in PendingOf(u) THEN "canceled"
                                     ELSE status[q]]
  /\ requester' = [requester EXCEPT ![r] = u]
  /\ UNCHANGED <<opened, members, invitationID, writerID, kicked>>

\* The status of the request is not looked at.
GrantWriteFault(r, by) ==
  /\ opened
  /\ status[r] # "absent"
  /\ by = writerID
  /\ requester[r] \in members
  /\ writerID' = requester[r]
  /\ status' = [status EXCEPT ![r] = "granted"]
  /\ UNCHANGED <<opened, members, invitationID, kicked, requester>>

GrantWrite(r, by) ==
  /\ opened
  /\ status[r] = "pending"
  /\ by = writerID
  /\ IF requester[r] \in members
     THEN /\ writerID' = requester[r]
          /\ status' = [status EXCEPT ![r] = "granted"]
     ELSE /\ writerID' = writerID
          /\ status' = [status EXCEPT ![r] = "canceled"]
  /\ UNCHANGED <<opened, members, invitationID, kicked, requester>>

DenyWrite(r, by) ==
  /\ opened
  /\ status[r] = "pending"
  /\ by = writerID
  /\ status' = [status EXCEPT ![r] = "denied"]
  /\ UNCHANGED <<opened, members, invitationID, writerID, kicked, requester>>

ReleaseWrite(u) ==
  /\ opened
  /\ writerID = u
  /\ u # Owner
  /\ writerID' = Owner
  /\ UNCHANGED <<opened, members, invitationID, kicked, requests>>

\* ParticipantUserIDsForInvitation(inv)
ParticipantsVia(inv) == {u \in Viewers : invitationID[u] = inv /\ inv # NoInvitation}

------------------------------------------------------------------------------
(* The room driven by arbitrary callers.  Joins are refused to the owner    *)
(* before they reach AddViewer.                                             *)

RoomNext ==
  \/ EnsureRoom
  \/ Remove
  \/ \E u \in Users \ {Owner}, inv \in Labels : AddViewer(u, inv)
  \/ \E u \in Users : Unkick(u) \/ RemoveParticipant(u) \/ ReleaseWrite(u)
  \/ \E r \in RequestIDs, u \in Users :
        RequestWrite(r, u) \/ GrantWrite(r, u) \/ DenyWrite(r, u)

RoomSpec == RoomInit /\ [][RoomNext]_room

------------------------------------------------------------------------------
(* Every variable stays in its type: Go's map and string types.             *)
RoomTypeOK ==
  /\ opened \in BOOLEAN
  /\ members \in SUBSET Users
  /\ invitationID \in [Users -> Labels \cup {NoInvitation}]
  /\ writerID \in Users
  /\ kicked \in SUBSET Users
  /\ status \in [RequestIDs -> Statuses]
  /\ requester \in [RequestIDs -> Users]

\* "The owner is always present in the participant list" (registry.go, RoleOwner).
OwnerPresent == opened => Owner \in members

\* The token is always with someone in the room, "so the session is never
\* input-orphaned" (registry.go, RemoveParticipant).
WriterPresent == opened => writerID \in members

\* Nobody is at once a participant and barred from rejoining.
KickedAbsent == members \cap kicked = {}

\* A pending request belongs to a participant: RemoveParticipant cancels the
\* leaver's, so GrantWrite never meets a requester who is gone, and a grant can
\* never hand the token to a removed user.
PendingRequesterPresent ==
  \A r \in RequestIDs : status[r] = "pending" => requester[r] \in members

\* A user has at most one pending request: RequestWrite cancels the prior one.
OnePendingPerUser ==
  \A r, q \in RequestIDs :
    (status[r] = "pending" /\ status[q] = "pending" /\ requester[r] = requester[q]) => r = q

\* Only participants carry an invitation, so revoking one finds exactly the
\* people who are in the room on its strength (RemoveParticipant drops the entry).
InvitationOnlyOfViewers ==
  \A u \in Users : invitationID[u] # NoInvitation => u \in Viewers

\* The consistency of a room: the conjunction the proofs show to be inductive.
RoomInv ==
  /\ OwnerPresent
  /\ WriterPresent
  /\ KickedAbsent
  /\ PendingRequesterPresent
  /\ OnePendingPerUser
  /\ InvitationOnlyOfViewers
  /\ ~opened => NoRoom

\* While the room lives, the token moves to a user other than the owner only by
\* the holder granting a request of theirs that was still pending, and no decided
\* request is ever decided again.
HandoffStep ==
  opened' =>
    /\ (writerID' # writerID /\ writerID' # Owner) =>
         \E r \in RequestIDs : /\ requester[r] = writerID'
                               /\ status[r] = "pending"
                               /\ status'[r] = "granted"
    /\ \A r \in RequestIDs : status[r] \in Decided => status'[r] = status[r]
HandoffOnlyByGrant == [][HandoffStep]_room
=============================================================================
