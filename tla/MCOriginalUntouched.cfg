SPECIFICATION FilesSpec
CONSTANTS
  Recordings = {r1}
  Erasers = {}
  ExportSlots = 2
  MayRefuse = FALSE
  MaxRestarts = 0
INVARIANT OriginalUntouched
CHECK_DEADLOCK FALSE
