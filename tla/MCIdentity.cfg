SPECIFICATION IdentitySpec
CONSTANTS
  Pair = {a1, a2}
  OtherPair = {b1, b2}
  SpareKey = c3
  IPs = {i1, i2}
  AccountKeys = {u1}
  Attempts = {a1, a2}
  MaxIP = 2
  MaxUser = 1
  Window = 1
  GcInterval = 1
  PurgeBackoff = 2
  MaxEntries = 1
  MaxBucket = 2
  Requests = {a1, a2}
  Tokens = {t1}
  Sessions = {b1, b2}
  Passkeys = {c1, c2, c3}
  MaxMFAFailures = 1
  MaxPasskeys = 1
  MaxSecret = 2
  MaxPassword = 1
  MaxRequests = 4
  People = {b1, b2}
  AdminCalls = {a1, a2}
  Bridges = {x1}
  TokenIds = {c1, c2, c3}
  MaxAPITokens = 1
  Nobody = nobody
  SSHKeys = {b1, b2}
  Identities = {i1}
  LinkTargets = {t1}
  CredCalls = {a1, a2}
  NoRef = none
  Columns = {"role", "max_uses", "key_type"}
  MaxStarts = 3
  Forwarders = {b1, b2}
  Puts = {a1, a2}
  FwdBuffer = 1
  NoForwarder = none
SYMMETRY Symmetry
INVARIANTS LimiterSound SecondFactorSound SessionsRevoked AccountsSound LibrarySound MigrationSound ForwarderSound
CHECK_DEADLOCK FALSE
