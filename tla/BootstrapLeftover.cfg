CONSTANTS
  Attempts = {1, 2}
  Dirs = {1, 2}
  Tokens = {"t"}
  Keep = 1
  Floor = 0
  TTL = 1
  MaxClock = 1
  MaxForeign = 2
  MaxFaults = 0
  Sponsor = 0
  None = None
SPECIFICATION Spec
INVARIANT FailedLeavesNothing
\* Every attempt made, every invite used and every clock run out.
CHECK_DEADLOCK FALSE
