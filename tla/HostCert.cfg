CONSTANTS
  CAs = {k1, k2}
  NoCA = NoCA
  Garbled = Garbled
  MaxRollovers = 2
  MaxCrashes = 1
SPECIFICATION FairHostSpec
INVARIANTS
  HostTypeOK
  ServedIsStored
  NoLostWakeup
PROPERTIES
  CertCatchesUp
