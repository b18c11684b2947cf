SPECIFICATION FairSpec
CONSTANTS
  STANDARD_VECTOR_SIZE = 2
  Invocations <- MCInvocations
  MaxExecutions = 2
INVARIANTS
  TypeOK
  ColumnsHoldTheirRows
  EndsComplete
PROPERTIES
  ChunksFit
  ExecutionsEnd
CHECK_DEADLOCK FALSE
