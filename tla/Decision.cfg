SPECIFICATION DecisionSpec
CONSTANTS
  Requests = {q1, q2}
  NoRequest = noRequest
  NoRow = noRow
  MaxSnapshots = 2
SYMMETRY RequestSymmetry
INVARIANTS
  DecisionTypeOK
  LockedHasRecord
  OneLegalRecord
  FinalisedCanBeLocked
  RecordsKept
PROPERTIES
  DecisionStands
