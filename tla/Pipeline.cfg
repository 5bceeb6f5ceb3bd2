SPECIFICATION CrashSpec
CONSTANTS
  Runs = {r1, r2}
  Claims = {c1}
  FreshRows <- MCFreshRows
  MaxConcurrent = 1
  PreflightMayThrow = TRUE
  MaxAge = 0
  DbMayFail = TRUE
  MayRerun = TRUE
SYMMETRY RunSymmetry
INVARIANTS
  StopsMatchSlots
PROPERTIES
  UsesSlots
  ImplementsPublishedReport
  OnlyWatchdogFailsCompleted
