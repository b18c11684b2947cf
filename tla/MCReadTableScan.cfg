SPECIFICATION FairSpec
CONSTANTS
  STANDARD_VECTOR_SIZE = 4
  NCols = 3
  Scans <- MCScans
  ThreadCaps = {0, 2}
  Budgets = {25, 100}
INVARIANTS
  LegalRowSkips
  LockStep
  CardinalitiesAgree
  ThreadsRespected
  ReleasedAtEnd
  BuffersWithinBudget
PROPERTIES
  Implements
  ScanEnds
CHECK_DEADLOCK FALSE
