CONSTANTS
  Digest <- MCDigest
  Genesis = 1
  Prev <- MCPrev
  Weight <- MCWeight
  Valid = {1, 2, 3, 4, 5, 6, 7}
  Guarded = {4}
  Roots = {1, 3}
  Inherited = {}
  None = None
  Faults = {"crash"}
SPECIFICATION Spec
INVARIANTS TypeOK OldestOpenable ReopensAtHead PathHeld OrphansStayOff
