CONSTANTS
  Recordings = {1, 2}
  QueueCap = 2
  MaxChunks <- MCMaxChunks
  MaxCrashes = 1
SPECIFICATION Spec
INVARIANTS TypeOK NothingLost RemovedOnlyWhenFinal
PROPERTY ImplementsCustody
CHECK_DEADLOCK FALSE
