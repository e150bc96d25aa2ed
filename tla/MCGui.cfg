CONSTANTS
  UI = ui
  CallThread = pool
  Clients = {ui, pool}
  Nobody = nobody
  MaxTasks = 2
  MaxEnabled = 2
  MaxClicks = 2
SPECIFICATION GuiSpec
PROPERTIES
  UiReturns
  StartedRuns
CHECK_DEADLOCK FALSE
