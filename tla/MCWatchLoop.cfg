SPECIFICATION FairSpec
CONSTANTS
  NumWatches = 2
  MaxRevision = 2
  MaxFailures = 1
  MaxDisturbances = 2
INVARIANTS
  NoMissedChange
  Frugal
PROPERTIES
  KeepsPromise
  Converges
  GoroutinesEnd
CHECK_DEADLOCK FALSE
