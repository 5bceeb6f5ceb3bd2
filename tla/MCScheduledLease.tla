-------------------------- MODULE MCScheduledLease --------------------------
(* ScheduledLease for TLC. *)
EXTENDS ScheduledLease, TLC

LeaseSymmetry == Permutations(Executions) \cup Permutations(Effects)
=============================================================================
