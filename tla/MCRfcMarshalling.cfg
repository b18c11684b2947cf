CONSTANTS
  Calls <- MCCalls
SPECIFICATION Spec
INVARIANTS
  ComesBack
  ColumnsAgreeWithResults
CHECK_DEADLOCK FALSE
