SPECIFICATION TransferSpec
CONSTANTS
  Uploads = {u1}
  Downloads = {d1}
  Callers = {c1}
  MaxHistory = 1
  MaxFaults = 1
  MaxCrashes = 1
INVARIANTS WorkersOwnJobs FilesAccounted
PROPERTIES JobSettles
CHECK_DEADLOCK FALSE
