\* Two signals behind a ring of two calls, with scans three deep; three threads at one
\* condition with an RLock, one semaphore or one event.
CONSTANTS
  NSIG = 3
  SIGINT = 2
  RingSize = 2
  MaxArrivals = 2
  MaxScans = 3
  Threads = {a, b, c}
  NoThread = NoThread
  Kinds = {"condition", "semaphore", "event"}
  MaxCount = 2
  MaxValue = 2
SPECIFICATION MCFairSpec
INVARIANTS OnlyOverrunsAreForgotten HandledOncePerArrival MonitorHolds WaitersAreListed NoReleaseIsLost OnlyTimeoutsWasteANotify
PROPERTIES TrippedIsHandled EventWakesAll
CHECK_DEADLOCK FALSE
