SPECIFICATION FairSpec
CONSTANTS
  NPENDINGCALLS = 3
  Registrars = {r1, r2}
  Calls = {c1, c2}
  NoCall = NoCall
  Parallel = FALSE
  MaxRegistry = 3
INVARIANTS OneRegistrarInside NothingLost NoLostWakeup
PROPERTIES ImplementsQueue RegistrationReturns
CHECK_DEADLOCK FALSE
