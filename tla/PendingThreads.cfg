SPECIFICATION Spec
CONSTANTS
  NPENDINGCALLS = 3
  Registrars = {r1, r2}
  Calls = {c1, c2}
  NoCall = NoCall
  Parallel = TRUE
  MaxRegistry = 3
SYMMETRY Symmetric
INVARIANT NothingLost
CHECK_DEADLOCK FALSE
