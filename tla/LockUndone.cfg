SPECIFICATION DecisionSpec
CONSTANTS
  Requests = {q1, q2}
  NoRequest = noRequest
  NoRow = noRow
  MaxSnapshots = 1
SYMMETRY RequestSymmetry
INVARIANTS
  LockIsTerminal
