SPECIFICATION SessionSpec
CONSTANTS
  Stoppers = {s1, s2}
  FirstStop = s1
  Cap = 2
  Data = {0, 1, 2, 3}
  Zero = 0
  Chunks <- AllChunks
  Pumps = {p1, p2}
  Viewers = {v1}
  MaxOutput = 3
  Octets = {"x", "IAC", "DO", "WILL", "SB", "SE", "NAWS"}
  MaxStream = 5
  Tabs = {t1, t2}
  VncUsers = {w1, w2}
INVARIANTS EndsClean OutputComplete SplitIrrelevant VncSound
PROPERTIES StopUnlists EndsUnlessHung ReplayIsTail
CHECK_DEADLOCK FALSE
