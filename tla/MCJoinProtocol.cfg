SPECIFICATION JoinsSpec
CONSTANTS
  Users = {alice, bob, carol}
  Owner = alice
  NoUser = nobody
  Invitations = {inv1, inv2}
  NoInvitation = none
  AdminWatch = adminwatch
  RequestIDs = {}
  MaxLinkUses = 2
  MaxTokens = 1
  Joins = {j1, j2}
  Admins = {bob}
  Focuses = {"cap", "kick"}
SYMMETRY Symmetry
INVARIANTS UsesWithinCap AdmissionsPaid RejoinNeedsNamedInvite
CHECK_DEADLOCK FALSE
