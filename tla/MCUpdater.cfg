SPECIFICATION ProcSpec
CONSTANTS
  exe = exe
  gone = gone
  res = res
  lib = lib
  tmp = tmp
  fresh = fresh
  out = out
  Path = {exe, gone, res, lib, tmp, fresh, out}
  Dir = {res, lib, tmp}
  Recycled = {res}
  Illegal = {out}
  Installed = {exe, gone, res, lib, tmp}
  Stale = {exe, lib}
  Plan <- MCPlan
  MaxRuns = 2
  Named = TRUE
  DriveRoot <- MCDriveRoot
  Root <- MCRoot
  Lower <- MCLower
  Digits <- MCDigits
INVARIANTS
  OldKept
  PlanAsWritten
  Exclusive
  StatusTruthful
CHECK_DEADLOCK FALSE
