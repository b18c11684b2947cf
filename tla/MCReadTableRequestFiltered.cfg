CONSTANTS
  FieldNames <- MCFieldNames
  FieldKind <- MCFieldKind
  FieldWidth <- MCFieldWidth
  NameLength <- MCNameLength
  Values <- MCValues
  ValueLength <- MCValueLength
  Greater <- MCGreater
  Rows <- MCRows
  ReadTableFunctions <- MCReadTableFunctions
  Parameters <- MCParameters
  ResultTables <- MCResultTables
  TableWidth <- MCTableWidth
  TableCandidates <- MCTableCandidates
  MAX_OPTION_LEN = 12
  MAX_IN_VALUES = 2
  Projections <- MCProjections
  Filters <- MCFilters
  Statements <- MCStatements
  MaxExecutions = 2
SPECIFICATION Spec
INVARIANT FiltersApplied
CHECK_DEADLOCK FALSE
