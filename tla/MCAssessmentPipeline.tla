------------------------- MODULE MCAssessmentPipeline -------------------------
(* AssessmentPipeline for TLC: the ways claims are created, and symmetry. *)
EXTENDS AssessmentPipeline, TLC

MCFreshRows == {IntakeRow, SubmittedRow}
RunSymmetry == Permutations(Runs)
==============================================================================
