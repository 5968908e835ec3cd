SPECIFICATION TransferSpec
CONSTANTS
  Uploads = {u1}
  Downloads = {d1}
  Callers = {c1}
  MaxHistory = 1
  MaxFaults = 0
  MaxCrashes = 0
CHECK_DEADLOCK FALSE
PROPERTY CancelledStays
