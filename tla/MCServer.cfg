\* One viewer suffices: a get() of one viewer touches no other viewer's state.
SPECIFICATION LifetimeSpec
CONSTANTS
  Readers = {r1}
  DefaultSize = 3
  Sizes = {3, 4}
  MaxPut = 3
  BuffSize = 3
  Aligned = 2
  SharedWorker = TRUE
  MaxBytes = 9
  MaxGeneration = 4
  WorkerThreads = {0, 1, 2}
  WorkerConnections = 2
  FileFaults = {"absent", "later"}
  MaxManagers = 2
  MaxOpen = 1
CHECK_DEADLOCK FALSE
INVARIANTS InOrder NothingFreedInUse
PROPERTIES FeedSpec Drains RetiredFreed
