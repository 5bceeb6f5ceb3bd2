---------------------------- MODULE MCStuckRecovery ----------------------------
(***************************************************************************)
(* StuckRecovery for TLC.  Clocks count up to MaxAge; with MaxAge = 1 a    *)
(* row is new or old enough for every case.                                *)
(***************************************************************************)
EXTENDS StuckRecovery, TLC

MCFreshRows == {SubmittedRow}
MCIntakeRows == {IntakeRow}
MCDue == [k \in Cases |-> MaxAge]
RunSymmetry == Permutations(Runs)
==============================================================================
