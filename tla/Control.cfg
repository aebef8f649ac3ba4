CONSTANTS
  IntMin <- MCIntMin
  IntMax = 3
  MaxU32 = 3
  KeyIds = {}
  Endpoints = {}
  Addrs = {}
  Keep = 1
  Endpoint = TRUE
  c1 = c1
  c2 = c2
  Conns = {c1, c2}
  Scripts <- MCScripts
  Foreign <- MCForeign
  Genesis <- MCGenesis
  PrefixLen = 2
  MaxLen = 2
  Buffer = 1
  MaxMinted = 3
SPECIFICATION Spec
CHECK_DEADLOCK FALSE
INVARIANTS WritesAsTold PrefixOfAnswer WatchedIsFresh Told
PROPERTY CallsEnd
