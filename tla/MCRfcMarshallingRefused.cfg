CONSTANTS
  Calls <- MCCalls
SPECIFICATION Spec
INVARIANT RefusedArgumentIsAnError
CHECK_DEADLOCK FALSE
