\* Room for four objects and three records; counts stay from 3 on, which the program and
\* the objects reach together.  All databases and resources of at most two modules, with
\* a table of three.
CONSTANTS
  Objects = {o1, o2, o3, o4}
  Records = {r1, r2, r3}
  Texts = {x}
  NULL = NULL
  PALMDM_REFCNT = 3
  MaxRefs = 2
  a = a
  b = b
  c = c
  d = d
  Table <- MCTable
  Contents <- MCContents
  NoCode = NoCode
SPECIFICATION MCSpec
SYMMETRY MCSymmetry
INVARIANTS ReferencesAreCounted ModulesKeepTheirCode
CHECK_DEADLOCK FALSE
