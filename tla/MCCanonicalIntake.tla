-------------------------- MODULE MCCanonicalIntake --------------------------
(* CanonicalIntake for TLC: calls, keys and contents are interchangeable. *)
EXTENDS CanonicalIntake, TLC

IntakeSymmetry == Permutations(Calls) \union Permutations(Keys) \union Permutations(Contents)
==============================================================================
