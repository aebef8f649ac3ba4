CONSTANTS
  me = me
  p = p
  e0 = e0
  e1 = e1
  e2 = e2
  None = None
  Self = me
  Node <- Two
  Endpoint <- Machines
  Own = e0
  Via = {1, 2}
  Home <- Homes
  Start <- At2
  Lists <- OnOff
  Relist = TRUE
  Faults = {}
  Limit = 1
  MaxHead = 3
  MaxFaults = 0
  MaxTasks = 3
  MaxConns = 2
SPECIFICATION FairSpec
CHECK_DEADLOCK FALSE
PROPERTY TableSettles
