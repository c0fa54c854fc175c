\* Two record objects on two records, with room for three buffers.
CONSTANTS
  Databases = {d1, d2}
  RecObjects = {r1, r2}
  Buffers = {b1, b2, b3}
  Handles = {h1, h2}
  None = None
  MaxLocks = 2
SPECIFICATION PalmSpec
SYMMETRY MCSymmetry
INVARIANTS ValidIsLocked EverythingIsReturned
CHECK_DEADLOCK FALSE
