CONSTANTS
  Digest <- MCDigest
  Genesis = 1
  Prev <- MCPrev
  Weight <- MCWeight
  Valid = {1, 2, 3, 4, 5, 6, 7}
  Guarded = {}
  Roots = {1}
  Inherited = {2, 8}
  None = None
  Faults = {}
SPECIFICATION FairSpec
PROPERTIES EventuallyOpens CompactionIsComplete
