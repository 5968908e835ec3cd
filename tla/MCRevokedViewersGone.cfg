SPECIFICATION JoinsSpec
CONSTANTS
  Users = {alice, bob, carol}
  Owner = alice
  NoUser = nobody
  Invitations = {inv1}
  NoInvitation = none
  AdminWatch = adminwatch
  RequestIDs = {}
  MaxLinkUses = 2
  MaxTokens = 1
  Joins = {j1, j2}
  Admins = {}
  Focuses = {"cap"}
SYMMETRY Symmetry
CHECK_DEADLOCK FALSE
INVARIANT RevokedViewersGone
