SPECIFICATION JoinsSpec
CONSTANTS
  Users = {alice, bob}
  Owner = alice
  NoUser = nobody
  Invitations = {inv1, inv2}
  NoInvitation = none
  AdminWatch = adminwatch
  RequestIDs = {}
  MaxLinkUses = 1
  MaxTokens = 1
  Joins = {j1}
  Admins = {bob}
  Focuses = {"kick"}
SYMMETRY Symmetry
CHECK_DEADLOCK FALSE
PROPERTY KickedNeverConsumes
