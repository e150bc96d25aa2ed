SPECIFICATION Spec
CONSTANTS
  MaxLate = 4
  ReconnectTimes = 1
  HasDisplayId = FALSE
  HasEventId = TRUE
  SerialAddress = FALSE
  ScreencapTimes = 1
  Systems = {"Posix", "Win32", "Android"}
  LiteSystems = {"Posix"}
INVARIANTS NcServed NoNestedReconnect StopHeeded NullUse Lifted
PROPERTY Returns
