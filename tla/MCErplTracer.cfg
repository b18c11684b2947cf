SPECIFICATION FairTracerSpec
CONSTANTS
  Threads = {t1, t2, t3}
  Levels = {"WARN", "INFO", "TRACE"}
  MaxTraces = 5
INVARIANTS
  FileFollowsEnabled
PROPERTIES
  NothingWrittenWhenOff
  CallsReturn
CHECK_DEADLOCK FALSE
