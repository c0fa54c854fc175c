SPECIFICATION Spec
CONSTANTS
  NPENDINGCALLS = 3
  Registrars = {r1, r2}
  Calls = {c1, c2}
  NoCall = NoCall
  Parallel = FALSE
  MaxRegistry = 4
SYMMETRY Symmetric
INVARIANT BusyMarksCriticalSection
CHECK_DEADLOCK FALSE
