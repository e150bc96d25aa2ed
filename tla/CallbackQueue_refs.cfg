SPECIFICATION Spec
CONSTANTS
  MAX_TASKS = 3
  MaxMsgs = 2
INVARIANT CallerTaskAllocated
CHECK_DEADLOCK FALSE
