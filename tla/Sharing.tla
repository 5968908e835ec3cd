------------------------------ MODULE Sharing ------------------------------
(***************************************************************************)
(* Identities shared by the specifications of collaborative sessions.      *)
(* Go's empty string plays two roles in the code: the InvitationID of a    *)
(* participant who used none, and the InviteeUserID of a link invitation.  *)
(***************************************************************************)
CONSTANTS
  Users,         \* user IDs
  Owner,         \* the user that started the session
  NoUser,        \* the empty user ID
  Invitations,   \* invitation IDs
  NoInvitation,  \* the empty invitation ID
  AdminWatch     \* "admin-watch", in place of an invitation ID

ASSUME OwnerIsUser == Owner \in Users
ASSUME NoUserIsNone == NoUser \notin Users
ASSUME NoInvitationIsNone == NoInvitation \notin Invitations \cup {AdminWatch}
ASSUME AdminWatchIsNone == AdminWatch \notin Invitations

\* What a viewer can be in the room on the strength of.
Labels == Invitations \cup {AdminWatch}
=============================================================================
