CONSTANTS
  Clients = {c1, call}
  CallThread = call
  Nobody = nobody
  MaxTasks = 2
SPECIFICATION FairSpec
PROPERTY StoppedIsReported
CHECK_DEADLOCK FALSE
