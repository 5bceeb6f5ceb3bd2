SPECIFICATION RecoverySpec
CONSTANTS
  Runs = {r1}
  Claims = {c1}
  FreshRows <- MCFreshRows
  MaxConcurrent = 1
  PreflightMayThrow = FALSE
  MaxAge = 0
  DbMayFail = FALSE
  MayRerun = TRUE
  JobDbMayFail = TRUE
  Jobs = {j1}
  Documented = {c1}
  MaxRetries = 1
  Due <- MCDue
INVARIANTS
  RecoveryTypeOK
  CompletedHasReport
  RetriesBounded
