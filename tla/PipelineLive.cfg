SPECIFICATION FairPipeSpec
CONSTANTS
  Runs = {r1, r2}
  Claims = {c1}
  FreshRows <- MCFreshRows
  MaxConcurrent = 1
  PreflightMayThrow = FALSE
  MaxAge = 0
  DbMayFail = FALSE
  MayRerun = FALSE
INVARIANTS
  NeverLeftTransient
PROPERTIES
  EveryRunEnds
  TransientEnds
