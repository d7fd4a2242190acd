SPECIFICATION FairSpec
CONSTANTS
  MaxOut = 1
  MaxSignals = 2
INVARIANTS
  TypeOK
  NothingLeftBehind
  UnrecordedOnlyAtTheEnd
  TheEndIsOnRecord
  SignalsInOrder
  OutputIsDrained
PROPERTIES
  SessionEnds
  FullSessionEnds
CHECK_DEADLOCK FALSE
