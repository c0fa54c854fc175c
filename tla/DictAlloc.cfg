SPECIFICATION Spec
CONSTANTS
  a = a
  b = b
  c = c
  d = d
  v = v
  w = w
  Keys = {a, b, c, d}
  Values = {v, w}
  NULL = NULL
  Dummy = Dummy
  Hash <- MCHash
  Probe <- MCProbe
  Sizes <- MCSizes
  Others <- MCOthers
  AllocFails = TRUE
  Reenters = FALSE
INVARIANTS OneNullKey
