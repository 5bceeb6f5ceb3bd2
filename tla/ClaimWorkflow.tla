--------------------------- MODULE ClaimWorkflow ---------------------------
(***************************************************************************)
(* The workflow of one claim: transition() of src/server/workflow-         *)
(* engine.ts, the endpoints that call it, and those that write             *)
(* claims.workflowState beside it, as far as anything in the repository    *)
(* calls or serves them.  An endpoint reads the claim, and hands           *)
(* the state it has read to the engine as fromState.  The engine checks    *)
(* it, reads the user's involvement and the assessment, updates the claim, *)
(* and inserts the audit entry and the involvement: every step is an await *)
(* of its own, there is no transaction, and no statement looks at the      *)
(* state again.  Statements name their claim, so claims do not meet.       *)
(***************************************************************************)
EXTENDS Naturals, FiniteSets

CONSTANTS
  Users,              \* people with an account
  System,             \* user 0, for whom the pipeline and the jobs act
  Role,               \* the role each of them has
  Requests,           \* identifiers of requests that are being served
  NoRequest,          \* an identifier that is free
  MaxStages,          \* maxSequentialStagesByUser of the tenant
  RiskManagerEnabled, \* riskManagerEnabled of the tenant
  SetTo,              \* bound: the states that updateClaimState is asked to set
  Overlap,            \* whether one user's requests may overlap
  MaxBroken           \* bound: nothing fails half-way once so many are broken

States == {"intake_queue", "intake_verified", "created", "assigned", "under_assessment",
           "internal_review", "technical_approval", "financial_decision",
           "payment_authorized", "closed", "disputed",
           "ai_assessment_pending", "ai_assessment_completed", "manual_review"}

Roles == {"claims_processor", "assessor_internal", "assessor_external", "risk_manager",
          "claims_manager", "executive", "insurer_admin", "recovery_officer", "panel_beater",
          "system"}
People == Roles \ {"system"}

Steps == {"asked", "cleared", "moving", "overriding", "moved", "logged", "writing"}
RequestRecord == [by : Users \cup {System}, to : States, auditable : BOOLEAN, step : Steps]

ASSUME WorkflowAssumption ==
  /\ System \notin Users
  /\ Role \in [Users \cup {System} -> Roles]
  /\ Role[System] = "system" /\ \A u \in Users : Role[u] \in People
  /\ MaxStages \in Nat
  /\ RiskManagerEnabled \in BOOLEAN
  /\ Overlap \in BOOLEAN
  /\ MaxBroken \in Nat /\ SetTo \subseteq States
  /\ NoRequest \notin RequestRecord

-----------------------------------------------------------------------------
(* The tables of rbac.ts and of the engine.                                *)

Allowed == [s \in States |->
  CASE s = "intake_queue"            -> {"created", "assigned", "under_assessment"}
    [] s = "created"                 -> {"assigned", "under_assessment", "disputed"}
    [] s = "assigned"                -> {"under_assessment", "disputed"}
    [] s = "under_assessment"        -> {"internal_review", "disputed", "under_assessment"}
    [] s = "internal_review"         -> {"technical_approval", "under_assessment", "disputed"}
    [] s = "technical_approval"      -> {"financial_decision", "internal_review",
                                         "payment_authorized", "disputed", "under_assessment"}
    [] s = "financial_decision"      -> {"payment_authorized", "technical_approval", "disputed"}
    [] s = "payment_authorized"      -> {"closed", "disputed"}
    [] s = "closed"                  -> {"disputed"}
    [] s = "disputed"                -> {"internal_review"}
    [] s = "intake_verified"         -> {"assigned", "under_assessment"}
    [] s = "ai_assessment_pending"   -> {"ai_assessment_completed", "manual_review"}
    [] s = "ai_assessment_completed" -> {"internal_review", "technical_approval",
                                         "under_assessment"}
    [] s = "manual_review"           -> {"internal_review", "technical_approval"}]

\* A transition without an entry in ROLE_TRANSITION_PERMISSIONS is open to all.
Permitted(from, to) ==
  CASE from \in {"intake_queue", "created"} /\ to # "disputed" -> {"claims_processor"}
    [] from = "assigned" /\ to = "under_assessment" ->
         {"assessor_internal", "assessor_external", "claims_processor"}
    [] from = "under_assessment" /\ to = "internal_review" -> {"assessor_internal"}
    [] from = "internal_review" /\ to = "technical_approval" -> {"risk_manager", "executive"}
    [] from = "internal_review" /\ to = "under_assessment" -> {"risk_manager"}
    [] from = "technical_approval" /\ to = "financial_decision" ->
         {"claims_manager", "executive"}
    [] from = "technical_approval" /\ to = "internal_review" -> {"claims_manager"}
    [] from = "financial_decision" /\ to = "payment_authorized" ->
         {"claims_manager", "executive"}
    [] from = "financial_decision" /\ to = "technical_approval" -> {"claims_manager"}
    [] from = "payment_authorized" /\ to = "closed" -> {"claims_manager", "executive"}
    [] from = "closed" -> {"claims_manager", "executive"}
    [] from = "disputed" -> {"risk_manager", "executive"}
    [] OTHER -> Roles

Stages == {"assessment", "technical_approval", "financial_decision", "payment_authorization"}

\* The critical stages a state belongs to: one or none.
StageOf(s) ==
  CASE s \in {"under_assessment", "internal_review"} -> {"assessment"}
    [] s = "technical_approval" -> {"technical_approval"}
    [] s = "financial_decision" -> {"financial_decision"}
    [] s = "payment_authorized" -> {"payment_authorization"}
    [] OTHER -> {}

Milestones == {"technical_approval", "payment_authorized", "closed"}

\* The milestones that a claim in this state should have behind it.
Presupposed(s) ==
  CASE s \in {"technical_approval", "financial_decision"} -> {"technical_approval"}
    [] s = "payment_authorized" -> {"technical_approval", "payment_authorized"}
    [] s = "closed" -> Milestones
    [] OTHER -> {}

\* The states and roles that the columns of workflow_audit_trail can hold.
AuditedStates == States \ {"ai_assessment_pending", "ai_assessment_completed", "manual_review"}
AuditedRoles == People \ {"panel_beater"}

NeedsAssessment == {"internal_review", "technical_approval", "financial_decision",
                    "payment_authorized", "closed"}

-----------------------------------------------------------------------------
(* The endpoints: who may call, in which states of the claim, for which    *)
(* state, with which role (that of the user, unless the endpoint names     *)
(* one), with executiveOverride or not, through the engine or past it.     *)

Managers == {"claims_manager", "insurer_admin", "executive"}

Call(roles, from, to, as, override, engine) ==
  [roles : {roles}, from : {from}, to : to, as : {as}, override : {override},
   engine : {engine}]
Ordinary(roles, from, to) == Call(roles, from, to, "user", FALSE, TRUE)
Overriding(roles, from, to) == Call(roles, from, to, "user", TRUE, TRUE)
Direct(roles, from, to) == Call(roles, from, to, "user", FALSE, FALSE)

TriggerAssessment == Call(People, States, {"created", "assigned", "under_assessment"},
                          "claims_processor", FALSE, TRUE)
AssignToAssessor  == Ordinary(People, States, {"assigned"})
AcceptAssignment  == Ordinary({"assessor_internal", "assessor_external"}, States,
                              {"under_assessment"})
SubmitLastQuote   == Ordinary({"panel_beater"}, States \ {"technical_approval"},
                              {"technical_approval"})
ApproveClaim      == Ordinary(People, States, {"financial_decision"})
AuthorizePayment  == Ordinary(People, States, {"payment_authorized"})
SendBack          == Ordinary(Managers, {"technical_approval"}, {"internal_review"})
                     \cup Ordinary(Managers, {"financial_decision"}, {"technical_approval"})
CloseForProcessing == Ordinary(Managers, {"payment_authorized", "technical_approval",
                                          "financial_decision"}, {"closed"})
CompleteClaim     == Ordinary(People, {"payment_authorized"}, {"closed"})
EscalateClaim     == Ordinary(Managers, States \ {"closed"}, {"disputed", "manual_review"})
ReopenClaim       == Ordinary(Managers, {"closed"}, {"disputed"})
                     \cup Overriding({"claims_manager", "executive"}, {"closed"}, {"disputed"})
\* A faulty fast track that approves the claim itself.
FastTrackApproving == Call({"system"}, States, {"technical_approval", "internal_review",
                                                "under_assessment"}, "executive", TRUE, TRUE)
FastTrack         == Call({"system"}, States, {"financial_decision", "internal_review",
                                               "under_assessment"}, "executive", TRUE, TRUE)
AssignProcessor   == Direct({"claims_manager", "insurer_admin"}, {"intake_queue"}, {"assigned"})
AutoAssign        == Direct({"system"}, {"intake_queue"}, {"assigned"})
OverrideIntake    == Direct(Managers, States, {"assigned", "under_assessment"})
AcceptSettlement  == Direct(People, {"payment_authorized"}, {"closed"})

Endpoints ==
  TriggerAssessment \cup AssignToAssessor \cup AcceptAssignment \cup SubmitLastQuote
  \cup ApproveClaim
  \cup AuthorizePayment \cup SendBack \cup CloseForProcessing \cup CompleteClaim
  \cup EscalateClaim \cup ReopenClaim \cup FastTrack \cup AssignProcessor \cup AutoAssign
  \cup OverrideIntake \cup AcceptSettlement

-----------------------------------------------------------------------------
VARIABLES
  wf,         \* claims.workflowState
  assessed,   \* whether ai_assessments has a row of the claim
  audit,      \* workflow_audit_trail: the stages that the engine's entries of each user show
  involved,   \* claim_involvement_tracking: the stages of each user
  request,    \* the requests that are being served
  visited,    \* the milestones the claim has reached or was set past (history)
  evaluated,  \* whether it has had an assessment or was set past it (history)
  entered,    \* the stages each user has moved it into, without override, as long
              \* as none of his requests has broken off half-way (history)
  broken      \* the users of whom a request failed after its update (history)

vars == <<wf, assessed, audit, involved, request,
          visited, evaluated, entered, broken>>
tables == <<wf, assessed, audit, involved>>
history == <<visited, evaluated, entered, broken>>

WorkflowInit ==
  /\ wf \in {"intake_queue", "created"} /\ visited = {}
  /\ assessed = FALSE /\ evaluated = FALSE
  /\ audit = [u \in Users |-> {}]
  /\ involved = [u \in Users |-> {}]
  /\ request = [q \in Requests |-> NoRequest]
  /\ entered = [u \in Users |-> {}]
  /\ broken = {}

Serving(q, step) == request[q] # NoRequest /\ request[q].step = step
Goto(q, step) == request' = [request EXCEPT ![q].step = step]
Done(q) == request' = [request EXCEPT ![q] = NoRequest]

\* The claim is updated, and not everything written down.
HalfWay(q) == request[q] # NoRequest /\ request[q].step \in {"moved", "logged"}

Breaks(u) == broken' = broken \cup {u} /\ entered' = [entered EXCEPT ![u] = {}]

SetState(s) == wf' = s /\ visited' = visited \cup ({s} \cap Milestones)

\* A faulty engine that leaves the table to its endpoints.
LegalByRole(e, from, role) == e.override \/ role \in Permitted(from, e.to)

\* The checks of the engine that look at what the endpoint has read and at the
\* tenant's configuration only: the table, the role, and the risk manager the
\* tenant may have disabled.
Legal(e, from, role) ==
  /\ e.to \in Allowed[from]
  /\ e.override \/ role \in Permitted(from, e.to)
  /\ \/ RiskManagerEnabled \/ role # "risk_manager"
     \/ "technical_approval" \notin {from, e.to}

\* An endpoint reads the claim.  What is refused here changes nothing.
Ask(q, u, e) ==
  LET role == IF e.as = "user" THEN Role[u] ELSE e.as
  IN /\ request[q] = NoRequest
     /\ Overlap \/ \A p \in Requests : request[p] # NoRequest => request[p].by # u
     /\ Role[u] \in e.roles /\ wf \in e.from
     /\ e.engine => Legal(e, wf, role)
     /\ request' = [request EXCEPT ![q] =
          [by |-> u, to |-> e.to,
           auditable |-> {wf, e.to} \subseteq AuditedStates /\ role \in AuditedRoles,
           step |-> IF ~e.engine THEN "writing"
                    ELSE IF e.override THEN "overriding" ELSE "asked"]]
     /\ UNCHANGED <<tables, history>>

\* A faulty count that leaves out the stage to be entered.
CheckPastDuties(q) ==
  /\ Serving(q, "asked")
  /\ IF Cardinality(involved[request[q].by]) <= MaxStages
     THEN Goto(q, IF request[q].to \in NeedsAssessment THEN "cleared" ELSE "moving")
     ELSE Done(q)
  /\ UNCHANGED <<tables, history>>

\* Segregation of duties.
CheckDuties(q) ==
  /\ Serving(q, "asked")
  /\ LET r == request[q]
     IN IF Cardinality(involved[r.by] \cup StageOf(r.to)) <= MaxStages
        THEN Goto(q, IF r.to \in NeedsAssessment THEN "cleared" ELSE "moving")
        ELSE Done(q)
  /\ UNCHANGED <<tables, history>>

\* The guard 4.5: no assessment on record, no progress.
CheckAssessment(q) ==
  /\ Serving(q, "cleared")
  /\ IF assessed THEN Goto(q, "moving") ELSE Done(q)
  /\ UNCHANGED <<tables, history>>

\* The update of the claim.  What is written down of the system no check reads.
Move(q) ==
  /\ Serving(q, "moving") \/ Serving(q, "overriding")
  /\ SetState(request[q].to)
  /\ entered' = IF Serving(q, "overriding") \/ request[q].by \in broken THEN entered
                ELSE [entered EXCEPT ![request[q].by] = @ \cup StageOf(request[q].to)]
  /\ IF request[q].by = System THEN Done(q) ELSE Goto(q, "moved")
  /\ UNCHANGED <<assessed, audit, involved, evaluated, broken>>

\* A faulty tail that ends with the audit entry.
LogOnly(q) ==
  /\ Serving(q, "moved") /\ request[q].auditable
  /\ audit' = [audit EXCEPT ![request[q].by] = @ \cup StageOf(request[q].to)]
  /\ Done(q)
  /\ UNCHANGED <<wf, assessed, involved, history>>

\* The audit entry.  Only critical stages are tracked.
Log(q) ==
  /\ Serving(q, "moved") /\ request[q].auditable
  /\ audit' = [audit EXCEPT ![request[q].by] = @ \cup StageOf(request[q].to)]
  /\ IF StageOf(request[q].to) = {} THEN Done(q) ELSE Goto(q, "logged")
  /\ UNCHANGED <<wf, assessed, involved, history>>

\* The database refuses an entry its columns cannot hold.  The update stands.
LogRefused(q) ==
  /\ Serving(q, "moved") /\ ~request[q].auditable
  /\ Done(q)
  /\ Breaks(request[q].by)
  /\ UNCHANGED <<tables, visited, evaluated>>

Track(q) ==
  /\ Serving(q, "logged")
  /\ involved' = [involved EXCEPT ![request[q].by] = @ \cup StageOf(request[q].to)]
  /\ Done(q)
  /\ UNCHANGED <<wf, assessed, audit, history>>

\* A faulty endpoint that writes a state the column does not have.
WriteUnknownState(q) ==
  /\ Serving(q, "writing")
  /\ SetState("rejected")
  /\ Done(q)
  /\ UNCHANGED <<assessed, audit, involved, evaluated, entered, broken>>

\* An endpoint that does not use the engine.
WriteDirectly(q) ==
  /\ Serving(q, "writing")
  /\ SetState(request[q].to)
  /\ Done(q)
  /\ UNCHANGED <<assessed, audit, involved, evaluated, entered, broken>>

\* workflowAudit.updateClaimState sets the state for anybody, in one transaction and
\* whatever it was.  What such a write passes over is not asked of the claim again.
UpdateClaimState ==
  /\ \E s \in SetTo :
       /\ wf' = s
       /\ visited' = visited \cup Presupposed(s)
       /\ evaluated' = (evaluated \/ s \in NeedsAssessment)
  /\ UNCHANGED <<assessed, audit, involved, request, entered, broken>>

\* A statement fails, or the server restarts.
Fail(q) ==
  /\ request[q] # NoRequest
  /\ HalfWay(q) => Cardinality(broken) < MaxBroken
  /\ Done(q)
  /\ IF HalfWay(q) THEN Breaks(request[q].by) ELSE UNCHANGED <<entered, broken>>
  /\ UNCHANGED <<tables, visited, evaluated>>

\* The pipeline and the recovery job write the state: a claim is only ever shown
\* as assessed after its assessment was stored ...
PipelineSetsState ==
  /\ \E s \in {"intake_queue", "under_assessment", "ai_assessment_completed"} :
       (s = "ai_assessment_completed" => evaluated) /\ SetState(s)
  /\ UNCHANGED <<assessed, audit, involved, request, evaluated, entered, broken>>

\* ... and they insert it, as the rerun of ai-rerun-service does with an empty one, and
\* delete the one of an earlier run.
PipelineStores ==
  /\ assessed' \in BOOLEAN
  /\ evaluated' = (evaluated \/ assessed')
  /\ UNCHANGED <<wf, audit, involved, request, visited, entered, broken>>

EngineStep(q) ==
  \/ CheckDuties(q) \/ CheckAssessment(q) \/ Move(q) \/ Log(q) \/ LogRefused(q) \/ Track(q)

WorkflowNext ==
  \/ \E q \in Requests :
       \/ \E u \in Users \cup {System}, e \in Endpoints : Ask(q, u, e)
       \/ EngineStep(q) \/ WriteDirectly(q) \/ Fail(q)
  \/ UpdateClaimState \/ PipelineSetsState \/ PipelineStores

WorkflowSpec == WorkflowInit /\ [][WorkflowNext]_vars

-----------------------------------------------------------------------------
(* Types of the variables. *)
WorkflowTypeOK ==
  /\ wf \in States /\ visited \subseteq Milestones
  /\ assessed \in BOOLEAN /\ evaluated \in BOOLEAN
  /\ audit \in [Users -> SUBSET Stages] /\ involved \in [Users -> SUBSET Stages]
  /\ entered \in [Users -> SUBSET Stages]
  /\ request \in [Requests -> RequestRecord \cup {NoRequest}]
  /\ broken \subseteq Users

(* No claim is paid that was never technically approved, and none is closed  *)
(* whose payment was never authorised: by overrides, by endpoints past the   *)
(* engine or by requests that act on a state the claim has left.  Nothing    *)
(* but updateClaimState, which looks at nothing, sets it past a milestone.   *)
StagesInOrder ==
  /\ "payment_authorized" \in visited => "technical_approval" \in visited
  /\ "closed" \in visited => "payment_authorized" \in visited

(* No claim is technically approved, paid or closed that never had an        *)
(* assessment: neither the endpoints past the engine nor the overrides,      *)
(* which skip its guard, lead past a state that guard protects.  Only        *)
(* updateClaimState sets a claim past its assessment.                        *)
AssessmentFirst == visited # {} => evaluated

(* A user whose requests come one after the other, and of whom none failed   *)
(* after its update, has not moved the claim into more critical stages than  *)
(* the tenant allows, whatever is overridden and the others do meanwhile.    *)
DutiesSegregated ==
  ~Overlap => \A u \in Users \ broken : Cardinality(entered[u]) <= MaxStages

InFlight(u) == {q \in Requests : HalfWay(q) /\ request[q].by = u}

(* The tables tell the truth about the stages: nobody is counted for a stage *)
(* whose transition is not in the audit trail, and a stage entered by a      *)
(* request that did not fail is counted once the request has ended.          *)
RecordsTrue ==
  \A u \in Users :
    /\ involved[u] \subseteq audit[u]
    /\ u \notin broken /\ InFlight(u) = {} => entered[u] \subseteq involved[u]
=============================================================================
