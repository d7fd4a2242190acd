\* The service keeps running while the command enrolls the host again, and is restarted
\* afterwards. Nothing fails.
CONSTANTS
  Nokkus = {A, B}
  None = None
  Ephemeral = {}
  Overlaps = {"cli"}
  MaxCommands = 1
  MaxFaults = 0
SPECIFICATION Spec
INVARIANTS
  OldTrustDropped
