SPECIFICATION LeaseSpec
CONSTANTS
  Executions = {e1, e2, e3}
  Nobody = nobody
  Effects = {f1, f2}
  NoEffect = noEffect
  Lease = 2
  MaxNow = 5
SYMMETRY LeaseSymmetry
INVARIANTS
  LeaseTypeOK
  PromiseKept
  TransactionOwnsWindow
PROPERTIES
  ImplementsFencedWindow
CHECK_DEADLOCK FALSE
