CONSTANTS
  IntMin <- MCIntMin
  IntMax = 4
  MaxU32 = 3
  KeyIds = {"k1", "k2", "k3"}
  Endpoints = {"e1"}
  Addrs <- MCAddrs
  Catalogue <- MCCatalogue
  Genesis = "genesis"
  Probes <- MCProbes
  Adoptable <- MCAdoptable
  MaxClock = 1
  MaxVersions = 2
  MaxDepth = 3
  Loggable <- MCLoggable
  MaxId = 24
SPECIFICATION Spec
INVARIANTS RowsSound RulesHold NeverPanics SignedByTrusted
PROPERTY Implements
