SPECIFICATION RecoverySpec
CONSTANTS
  Runs = {r1}
  Claims = {c1}
  FreshRows <- MCFreshRows
  MaxConcurrent = 1
  PreflightMayThrow = FALSE
  MaxAge = 1
  DbMayFail = FALSE
  MayRerun = TRUE
  JobDbMayFail = FALSE
  Jobs = {j1}
  Documented = {c1}
  MaxRetries = 0
  Due <- MCDue
INVARIANTS
  NoBlindSpot
