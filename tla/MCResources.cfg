SPECIFICATION Spec
CONSTANTS
  MaxTasks = 12
  MaxBytes = 2
  PlanBytes <- MCPlanBytes
  Installations <- MCInstallations
  Threads = {t1, t2}
  MaxChecking = 12
  NoData <- EmptyData
  LoadTasks <- TaskLoads
  GetTask <- Get
  Masked <- MaskedMatch
SYMMETRY Symmetry
INVARIANTS
  ExpressionsMean
  TemplatesLoaded
  CheckedClosed
  AnswersLikeFresh
  PlanMatches
  CacheAccounted
CHECK_DEADLOCK FALSE
