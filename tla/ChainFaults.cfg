CONSTANTS
  Digest <- TinyDigest
  Genesis = 1
  Prev <- TinyPrev
  Weight <- TinyWeight
  Valid = {1, 2, 3, 4}
  Guarded = {}
  Roots = {1}
  Inherited = {}
  None = None
  Faults = {"crash", "storage", "power"}
SPECIFICATION Spec
INVARIANT NoDowngrade
\* A database rolled back behind the oldest-envelope file does not open again.
CHECK_DEADLOCK FALSE
