CONSTANTS
  na = na
  nb = nb
  nc = nc
  Node <- Row
  Links <- RowLinks
  Digest <- RowDigest
  Genesis = 1
  Prev <- RowPrev
  Weight <- RowWeight
  None = None
  Guarded = {}
  Start <- RowStart
  Own <- Nothing
  Cuts <- Nothing
  MaxBatch = 1
  MaxDrops = 1
SPECIFICATION FairSpec
CHECK_DEADLOCK FALSE
PROPERTY Converges
