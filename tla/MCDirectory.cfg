SPECIFICATION DirectorySpec
CONSTANTS
  Pair = {a1, a2}
  OtherPair = {b1, b2}
  AccessGroups = {g1}
  RequestRows = {b1, b2, q3}
  LoginStates = {b1, b2}
  Handlers = {a1, a2}
  Viewers = {v1, v2}
  TargetIds = {t1, t2}
  SpareTarget = t2
  SpareViewer = v2
  ListLimit = 1
  InviteLimit = 1
  Tags = {x1}
  Paths <- GroupPaths
  Edits = {a1, a2}
  Streams = {b1, b2}
  Publishers = {a1, a2}
  Capacity = 2
  MaxVersion = 2
  Devices = {b1, b2}
  Calls = {a1, a2}
  MaxCount = 3
  Endpoints = {"e1"}
  HookSecrets = {"s1"}
  PutCalls = {a1, a2}
  HookWorkers = {w1}
  HookTests = {t1}
  HookQueue = 1
  HookRetries = 1
  EnvHooks <- HooksFromEnv
  MaxOffered = 3
SYMMETRY Symmetry
INVARIANTS PendingBounded OidcSound  StreamsSound  WebhooksSound
PROPERTIES DecisionFinal
CHECK_DEADLOCK FALSE
