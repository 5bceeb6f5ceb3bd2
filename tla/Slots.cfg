SPECIFICATION FairSlotsSpec
CONSTANTS
  Runs = {r1, r2, r3, r4, r5}
  MaxConcurrent = 2
  PreflightMayThrow = TRUE
INVARIANTS
  SlotAccounting
  AtMostMax
  NoLostWakeup
PROPERTIES
  FirstComeFirstServed
  ImplementsAdmission
  ServedUnlessLeaked
