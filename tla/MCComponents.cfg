SPECIFICATION ComponentsSpec
CONSTANTS
  Pair = {a1, a2}
  OtherPair = {b1, b2}
  Users = {alice, bob, carol}
  Owner = alice
  NoUser = nobody
  Invitations = {inv1, inv2}
  NoInvitation = none
  AdminWatch = adminwatch
  RequestIDs = {q1, q2, q3}
  MaxLinkUses = 2
  MaxTokens = 2
  Bridges = {a1, a2, a3}
  Conns = {b1, b2, b3}
  Sizes = {small, large}
  Captures = {a1, a2}
  Finishers = {b1, b2}
  LiveSlots = 1
  Jobs = {a1, a2}
  Deleters = {b1, b2}
  Recordings = {r1}
  Erasers = {b1, b2}
  ExportSlots = 2
  MayRefuse = TRUE
  MaxRestarts = 1
  Printed = {"x", "ESC", "[", "]", "BACKSLASH", "BEL", "BS", "CR", "1", "2", "K", "D", "@", "("}
  Shown = {"h", "$", "x", "y"}
  Keys = {"x", "y"}
  MaxEcho = 4
  MaxTyped = 3
  MaxCommands = 1
  Keep = 1
  MaxBackups = 4
  Stagers = {a1, a2}
  Inodes = {i1, i2, i3, i4}
  MaxTx = 2
SYMMETRY Symmetry
INVARIANTS RoomInv AdmitsOnlyActive BridgesListed RecordingSettles ExportsConsistent RecordingFilesSound CommandLogSound GoodBackupRemains RestoreSound
PROPERTIES HandoffOnlyByGrant StoreMonotone
CHECK_DEADLOCK FALSE
