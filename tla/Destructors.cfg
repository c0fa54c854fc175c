\* Two dictionaries with room for three tables of each kind, cleared three deep, also one inside
\* its own clearing; two forms, two callbacks, and two wrappers of an event, with calls three deep.
CONSTANTS
  Dicts = {d1, d2}
  Records = {r1, r2, r3}
  Blocks = {b1, b2, b3}
  NULL = NULL
  MaxActive = 3
  MallocFails = TRUE
  SelfReenters = TRUE
  Forms = {f1, f2}
  Callbacks = {c1, c2}
  Wrappers = {w1, w2}
  Events = {e1}
  AppEvent = AppEvent
  NoWrapper = NoWrapper
  MaxDepth = 3
SPECIFICATION MCSpec
INVARIANTS OwnedOnce IndexTellsTheTable HandlersAreThere EventsAreFreedOnce
CHECK_DEADLOCK FALSE
