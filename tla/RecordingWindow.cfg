\* One recording that starts while the retry looks for files.
CONSTANTS
  Recordings = {1}
  QueueCap = 1
  MaxChunks <- MCMaxChunks
  MaxCrashes = 0
SPECIFICATION Spec
INVARIANTS RetryLeavesWriters
CHECK_DEADLOCK FALSE
