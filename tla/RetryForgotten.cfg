SPECIFICATION RecoverySpec
CONSTANTS
  Runs = {r1}
  Claims = {c1}
  FreshRows <- MCFreshRows
  MaxConcurrent = 1
  PreflightMayThrow = FALSE
  MaxAge = 1
  DbMayFail = FALSE
  MayRerun = FALSE
  JobDbMayFail = FALSE
  Jobs = {j1}
  Documented = {c1}
  MaxRetries = 1
  Due <- MCDue
INVARIANTS
  RetryKeepsApproval
