SPECIFICATION MCSpec
CONSTANTS
  a = a
  b = b
  c = c
  d = d
  v = v
  w = w
  Keys = {a, b, c, d}
  Values = {v, w}
  NULL = NULL
  Dummy = Dummy
  Hash <- MCHash
  Probe <- MCProbe
  Sizes <- MCSizes
  Others <- MCOthers
  AllocFails = FALSE
  Reenters = FALSE
  MaxLog = 12
  AllHashes = 128
INVARIANTS OneNullKey LookupIsRight FullCycle
CHECK_DEADLOCK FALSE
PROPERTIES ImplementsMap
