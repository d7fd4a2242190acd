CONSTANTS
  c1 = c1 c2 = c2 root = root bad = bad p1 = p1 p2 = p2 k1 = k1 k2 = k2 record = record
  NoCA = NoCA Garbled = Garbled Nil = Nil Syncer = Syncer Deleted = Deleted Quiet = Quiet
  Conns = {c1, c2}
  Users = {root}
  ValidUsers = {root}
  Principals = {p1}
  CAs = {k1}
  Flags = {record}
  DefaultPolicy <- MCDefaultPolicy
  Answers <- MCCoreAnswers
  MaxTime = 0
  CoreLists <- MCCoreLists
  Workloads <- MCWorkloads
SPECIFICATION FairControlSpec
INVARIANTS ControlTypeOK
PROPERTIES RevokeTakesEffect CoreIsObeyed ImplementsGate
CHECK_DEADLOCK FALSE
