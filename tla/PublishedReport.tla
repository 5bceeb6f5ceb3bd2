--------------------------- MODULE PublishedReport ---------------------------
(***************************************************************************)
(* What a reader of the claims table is promised about the AI assessment:  *)
(* a claim is flagged completed only when its full report is stored, and   *)
(* the report of a claim is replaced only while it is not so flagged.  The *)
(* flag may be withdrawn at any time, and the old report stays until then. *)
(***************************************************************************)
CONSTANT Claims

VARIABLES
  completed,  \* claims.aiAssessmentCompleted
  report      \* the best row ai_assessments holds for a claim: none, a stub, a full report

vars == <<completed, report>>

Init ==
  /\ completed = [c \in Claims |-> FALSE]
  /\ report = [c \in Claims |-> "none"]

Withdraw(c) ==
  /\ completed' = [completed EXCEPT ![c] = FALSE]
  /\ UNCHANGED report

\* The old report goes, a new one comes, or a stub where there is none.
Replace(c) ==
  /\ ~completed[c]
  /\ \/ report' = [report EXCEPT ![c] = "none"]
     \/ report' = [report EXCEPT ![c] = "full"]
     \/ report[c] = "none" /\ report' = [report EXCEPT ![c] = "stub"]
  /\ UNCHANGED completed

Publish(c) ==
  /\ ~completed[c] /\ report[c] = "full"
  /\ completed' = [completed EXCEPT ![c] = TRUE]
  /\ UNCHANGED report

Next == \E c \in Claims : Withdraw(c) \/ Replace(c) \/ Publish(c)

Spec == Init /\ [][Next]_vars
=============================================================================
