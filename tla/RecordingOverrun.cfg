\* One recording whose live upload is slower than the session.
CONSTANTS
  Recordings = {1}
  QueueCap = 1
  MaxChunks <- MCMaxChunks
  MaxCrashes = 0
SPECIFICATION Spec
INVARIANTS QueueFullAbandons
CHECK_DEADLOCK FALSE
