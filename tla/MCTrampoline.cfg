CONSTANTS
  p1 = p1
  p2 = p2
  a = a
  b = b
  c = c
  Processes <- MCProcesses
  Databases <- MCDatabases
  Home <- MCHome
  Platforms <- MCPlatforms
  Libraries <- MCLibraries
  Companions <- MCCompanions
  Extensions <- MCExtensions
  SdkLibrary = "sapnwrfc"
  MaxLoads = 3
  MaxFaults = 1
SPECIFICATION Spec
SYMMETRY EitherDatabase
INVARIANTS
  TypeOK
  FreshLoadRecovers
  NeverAnOldExtension
PROPERTY OwnMappingsKept
CHECK_DEADLOCK FALSE
