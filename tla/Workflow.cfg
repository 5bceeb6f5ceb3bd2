SPECIFICATION WorkflowSpec
CONSTANTS
  manager = manager
  repairer = repairer
  System = system
  Users <- MCUsers
  Role <- MCRole
  Requests = {q1, q2}
  NoRequest = noRequest
  MaxStages = 2
  RiskManagerEnabled = TRUE
  SetTo = {"internal_review", "closed"}
  Overlap = FALSE
  MaxBroken = 0
SYMMETRY RequestSymmetry
INVARIANTS
  WorkflowTypeOK
  StagesInOrder
  AssessmentFirst
  DutiesSegregated
  RecordsTrue
