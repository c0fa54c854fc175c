\* Three keys in tables that fail to grow, with destructors that use the table.
SPECIFICATION Spec
CONSTANTS
  a = a
  b = b
  c = c
  d = d
  v = v
  w = w
  Keys = {a, b, c}
  Values = {v, w}
  NULL = NULL
  Dummy = Dummy
  Hash <- MCHash
  Probe <- MCProbe
  Sizes <- MCSizes
  Others <- FewOthers
  AllocFails = TRUE
  Reenters = TRUE
INVARIANTS NoKeyIsLost
CHECK_DEADLOCK FALSE
