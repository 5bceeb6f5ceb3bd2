-------------------------- MODULE MCClaimWorkflow --------------------------
(* ClaimWorkflow for TLC. *)
EXTENDS ClaimWorkflow, TLC

CONSTANTS manager, repairer

MCUsers == {manager, repairer}
MCRole == (manager :> "claims_manager") @@ (repairer :> "panel_beater") @@ (System :> "system")

RequestSymmetry == Permutations(Requests)
=============================================================================
