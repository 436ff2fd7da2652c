SPECIFICATION CopiesSpec
CONSTANTS
  Loop = {l1}
  MaxInstance = 3
  MaxCopyStarts = 1
  MaxOutages = 0
  MaxLong = 1
INVARIANT
  LostHasEnded
CHECK_DEADLOCK FALSE
