CONSTANTS
  Counter = {k1, k2}
  MaxValue = 2
  MaxCalls = 3
SPECIFICATION Spec
INVARIANTS
  FileIsMemory
PROPERTIES
  NeverFalls
CHECK_DEADLOCK FALSE
