CONSTANTS
  Clients = {"client"}
  Requests <- Calls
  Writes <- Written
  Own <- MCOwn
  Listed <- MCListed
  Wanted <- MCWanted
  Unknown = {"z"}
  Other = Other
  Overhead = 0
  Filter <- Watched
  Capacity = 1
  MaxCalls = 1
  MaxFaults = 1
  None = None
SPECIFICATION FairSpec
INVARIANTS PendingIsExact OrphanTold StaysReachable
PROPERTIES PublishSettles CloseEnds
\* A daemon that has closed stays closed.
CHECK_DEADLOCK FALSE
