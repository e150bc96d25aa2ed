CONSTANTS
  Callers = {c1, c2, c3}
  MaxCalls = 3
SPECIFICATION Spec
INVARIANTS
  CompletedIsPrefix
  ParkedForAReason
  InfoInOrder
PROPERTIES
  BlockedCallReturns
  DestroyReturns
CHECK_DEADLOCK FALSE
