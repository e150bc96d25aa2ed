SPECIFICATION Spec
CONSTANTS
  home = home
  btn = btn
  page = page
  retry = retry
  end = end
  enter = enter
  popup = popup
  close = close
  None = None
  Task <- MCTask
  NextOf <- MCNextOf
  OnErrorNext <- MCOnErrorNext
  ExceededNext <- MCExceededNext
  Sub <- MCSub
  ReduceOther <- MCReduceOther
  MaxTimes <- MCMaxTimes
  JustReturn <- MCJustReturn
  StopAction <- MCStopAction
  SubErrorIgnored <- MCSubErrorIgnored
  RetryTimes = 1
  Package <- MCPackage
INVARIANTS
  AtMostOneLateAction
  WithinLimit
  VerdictMatchesErrors
PROPERTIES
  StopReturns
CHECK_DEADLOCK FALSE
