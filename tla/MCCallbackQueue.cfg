SPECIFICATION Spec
CONSTANTS
  MAX_TASKS = 3
  MaxMsgs = 5
INVARIANTS
  WorkerTaskAllocated
  DeliveredInOrder
  InvocationOnStack
  FreedLast
PROPERTIES
  ShimReturns
CHECK_DEADLOCK FALSE
