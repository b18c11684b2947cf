CONSTANTS
  s1 = s1
  s2 = s2
  Sessions <- MCSessions
  Tables <- MCTables
  TablesAtFirst <- MCTablesAtFirst
  Secrets <- MCSecrets
  SapSecrets <- MCSecrets
  NoSecret = NoSecret
  TablesOptions <- MCTablesOptions
  MAX_ATTACH_TABLE_EXPANSION = 2
  MaxVersion = 1
  MaxEvents = 1
  MaxCalls = 3
SPECIFICATION Spec
INVARIANTS
  LookupNeverHides
  CreatedAllMeansAll
  NoInternalError
  OwnSystem
PROPERTY CatalogCallsReturn
CHECK_DEADLOCK FALSE
