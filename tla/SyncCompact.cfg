CONSTANTS
  na = na
  nb = nb
  nc = nc
  Node <- Pair
  Links <- PairLinks
  Digest <- CutDigest
  Genesis = 1
  Prev <- CutPrev
  Weight <- CutWeight
  None = None
  Guarded = {3}
  Start <- CutStart
  Own <- CutOwn
  Cuts <- CutCuts
  MaxBatch = 1
  MaxDrops = 0
SPECIFICATION Spec
CHECK_DEADLOCK FALSE
INVARIANTS TypeOK NeverBlamed Sound Agreement QuietMeansHeld EarlyEndFollowed
