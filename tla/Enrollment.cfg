\* The operator stops the service before a command and starts it afterwards.
CONSTANTS
  Nokkus = {A, B}
  None = None
  Ephemeral = {B}
  Overlaps = {}
  MaxCommands = 2
  MaxFaults = 2
SPECIFICATION Spec
INVARIANTS
  TypeOK
  OldTrustDroppedUnlessTorn
  CertFollowsEnrollment
PROPERTIES
  ServiceNeverMoves
