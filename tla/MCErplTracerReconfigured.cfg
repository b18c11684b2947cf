SPECIFICATION FairTracerSpec
CONSTANTS
  Threads = {t1}
  Levels = {"DEBUG"}
  MaxTraces = 2
PROPERTY
  CallsAlwaysReturn
CHECK_DEADLOCK FALSE
