CONSTANTS
  Clients = {c1, call}
  CallThread = call
  Nobody = nobody
  MaxTasks = 2
SPECIFICATION FairSpec
INVARIANT ConnectExcludesChain
CHECK_DEADLOCK FALSE
