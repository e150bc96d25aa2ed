CONSTANTS
  Clients = {c1, c2, call}
  CallThread = call
  Nobody = nobody
  MaxTasks = 2
SPECIFICATION FairSpec
INVARIANTS
  FrontIsRunning
  QueueIsFresh
  StopIsSeen
  NoLostWakeup
  ReportsWellFormed
PROPERTIES
  RefinesTaskService
  StopQuiesces
  DestroyReturns
CHECK_DEADLOCK FALSE
