SPECIFICATION ServerSpec
CONSTANTS
  WorkerThreads = {1}
  WorkerConnections = 2
  FileFaults = {"first", "later"}
  MaxManagers = 2
  MaxOpen = 1
INVARIANTS ConfOutlivesManager 
CHECK_DEADLOCK FALSE
