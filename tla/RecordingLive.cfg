CONSTANTS
  Recordings = {1, 2}
  QueueCap = 2
  MaxChunks <- MCMaxChunks
  MaxCrashes = 1
  Half = 2
  MaxIdleTime = 8
  Gaps = {1, 2, 10}
  MaxRead = 2
  MaxBytes = 4
SPECIFICATION MCSpec
INVARIANTS TextIsKept TimeIsKept
PROPERTIES PendingGoesOut
CHECK_DEADLOCK FALSE
