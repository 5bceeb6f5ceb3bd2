SPECIFICATION IntakeSpec
CONSTANTS
  Calls = {u1, u2, u3}
  Keys = {k1, k2}
  Contents = {h1, h2}
  DbMayFail = TRUE
SYMMETRY IntakeSymmetry
INVARIANTS
  IntakeTypeOK
  OneClaimPerKey
  AnswersAgree
  ReplayStartsNothing
  OutcomeIsRecorded
PROPERTIES
  ImplementsIdempotentIntake
