SPECIFICATION WriterSpec
CONSTANTS
  Users = {alice, bob}
  Owner = alice
  NoUser = nobody
  Invitations = {inv1}
  NoInvitation = none
  AdminWatch = adminwatch
  RequestIDs = {q1}
  Conns = {c1, c2, c3}
  FirstConn = c1
  Handlers = {h1, h2}
  AttachBuffer = 1
SYMMETRY Symmetry
INVARIANTS OneWritingUser InputOnlyFromHolders
CHECK_DEADLOCK FALSE
