\* Three threads in the interpreter, imports nested twice; three threads at a queue, one of
\* which only gets and one whose _put may raise, without a limit, with one place and two.
CONSTANTS
  Threads = {m, t, u}
  Main = m
  NoThread = NoThread
  MaxLevel = 2
  Users = {a, b, c}
  Items = {x, y}
  NoItem = NoItem
  Sizes = {0, 1, 2}
  Failers = {b}
  Getter = c
  MaxPuts = 3
SPECIFICATION MCFairSpec
INVARIANTS OneRuns NoFatalError OneImporter ReleasesAreMatched LocksTellTheLimits
PROPERTIES ImportGoesOn ImplementsFIFO PutReturns
