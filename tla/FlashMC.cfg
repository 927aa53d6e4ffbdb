SPECIFICATION Spec
CONSTANTS
  Units = 3
  Sectors <- MCSectors
  Pages = 2
  Images <- MCImages
  Serials = {"1001", "1002"}
  Modes = {0, 2, 3}
  ResetDelay = 2
  MaxStarts = 2
  MaxWrites = 4
CHECK_DEADLOCK FALSE
INVARIANTS BootsWhole RecordsKept
