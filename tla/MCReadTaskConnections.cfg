SPECIFICATION Spec
SYMMETRY AnyThread
CONSTANTS
  Columns <- OneScan
  StringColumns <- Strings
  t1 = t1
  t2 = t2
  Threads <- TwoThreads
  PersistentCaps = {0, 1}
  MaxAttempts = 2
  ReadFunctions <- TwoFunctions
  Systems <- MCSystems
  FailSets <- OneOrBothFail
  Batches = 2
  MaxSets = 1
INVARIANTS
  ThreadAffinity
  SlotsRespected
  NothingLeftOpen
  AttemptsAreLimited
CHECK_DEADLOCK FALSE
