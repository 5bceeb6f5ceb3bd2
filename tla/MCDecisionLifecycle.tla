------------------------ MODULE MCDecisionLifecycle ------------------------
(* DecisionLifecycle for TLC. *)
EXTENDS DecisionLifecycle, TLC

RequestSymmetry == Permutations(Requests)
=============================================================================
