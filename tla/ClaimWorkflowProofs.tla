------------------------ MODULE ClaimWorkflowProofs ------------------------
(***************************************************************************)
(* Proofs about ClaimWorkflow, for every set of users and of requests in   *)
(* flight, every assignment of roles and every configuration.  The         *)
(* inductive invariant says what a request that has been let through still *)
(* knows when it writes, however long ago it read the claim: not the state *)
(* of the claim, which may have changed, but what the claim has been       *)
(* through, which cannot be undone.  The last part bounds what overlapping *)
(* requests of one user can do to the segregation of duties.               *)
(***************************************************************************)
EXTENDS ClaimWorkflow, FiniteSetTheorems, TLAPS

Open(q) == request[q] # NoRequest

(* What the state of the claim tells about its past. *)
Reached ==
  /\ wf \in Milestones => wf \in visited
  /\ wf = "financial_decision" => "technical_approval" \in visited
  /\ assessed => evaluated

(* What the target and the step of a request tell about the claim's past. *)
Knows(r) ==
  /\ r.to = "closed" => "payment_authorized" \in visited
  /\ r.to \in {"financial_decision", "payment_authorized"} => "technical_approval" \in visited
  /\ r.step = "moving" /\ r.to \in NeedsAssessment => evaluated
  /\ r.step = "writing" /\ r.to \in Milestones => evaluated
  /\ r.step = "overriding" => r.to \notin Milestones
  /\ r.by = System => r.step \in {"overriding", "writing"}
  /\ r.step = "logged" => StageOf(r.to) \subseteq audit[r.by]
Informed == \A q \in Requests : Open(q) => Knows(request[q])

(* Of a user who is not broken every stage is on record or about to be. *)
Pending ==
  \A u \in Users \ broken : \A s \in entered[u] :
    s \in involved[u] \/ \E q \in InFlight(u) : s \in StageOf(request[q].to)

(* One user's requests do not overlap, and one that the engine has let       *)
(* through keeps its user within the limit.                                  *)
Serial ==
  ~Overlap => \A p, q \in Requests :
                Open(p) /\ Open(q) /\ request[p].by = request[q].by => p = q
WithinLimit ==
  ~Overlap => \A q \in Requests :
    Open(q) /\ request[q].step \in {"cleared", "moving"}
      => Cardinality(involved[request[q].by] \cup StageOf(request[q].to)) <= MaxStages

WorkflowInv ==
  /\ WorkflowTypeOK /\ StagesInOrder /\ AssessmentFirst /\ DutiesSegregated
  /\ (\A u \in Users : involved[u] \subseteq audit[u])
  /\ Reached /\ Informed /\ Pending /\ Serial /\ WithinLimit

-----------------------------------------------------------------------------
(* The tables. *)

LEMMA MilestonesInTable ==
  ASSUME NEW s \in States
  PROVE  /\ "closed" \in Allowed[s] => s = "payment_authorized"
         /\ "payment_authorized" \in Allowed[s]
              => s \in {"technical_approval", "financial_decision"}
         /\ "financial_decision" \in Allowed[s] => s = "technical_approval"
BY DEF Allowed, States

LEMMA StagesFinite ==
  ASSUME NEW S, S \subseteq Stages
  PROVE  IsFiniteSet(S)
<1>1. IsFiniteSet({"assessment"}) BY FS_Singleton
<1>2. IsFiniteSet({"assessment"} \cup {"technical_approval"})
  BY <1>1, FS_AddElement
<1>3. IsFiniteSet({"assessment"} \cup {"technical_approval"} \cup {"financial_decision"})
  BY <1>2, FS_AddElement
<1>4. IsFiniteSet({"assessment"} \cup {"technical_approval"} \cup {"financial_decision"}
                   \cup {"payment_authorization"})
  BY <1>3, FS_AddElement
<1>5. Stages = {"assessment"} \cup {"technical_approval"} \cup {"financial_decision"}
                \cup {"payment_authorization"}
  BY DEF Stages
<1> QED BY <1>4, <1>5, FS_Subset

LEMMA StageIsStage == ASSUME NEW s PROVE StageOf(s) \subseteq Stages
BY DEF StageOf, Stages

LEMMA EndpointsTyped ==
  ASSUME NEW e \in Endpoints
  PROVE  /\ e.to \in States
         /\ e.engine \in BOOLEAN /\ e.override \in BOOLEAN
         /\ ~e.engine => e.to \notin Milestones
              \/ (e.to = "closed" /\ e.from = {"payment_authorized"})
         /\ ~e.engine => e.to \notin {"financial_decision", "payment_authorized"}
         /\ e.override => e.engine /\ e.to \notin Milestones
         /\ "system" \in e.roles => ~e.engine \/ e.override
BY DEF Endpoints, Call, Ordinary, Overriding, Direct, TriggerAssessment, AssignToAssessor,
       AcceptAssignment, SubmitLastQuote, ApproveClaim, AuthorizePayment, SendBack,
       CloseForProcessing, CompleteClaim, EscalateClaim, ReopenClaim, FastTrack, AssignProcessor, AutoAssign,
       OverrideIntake, AcceptSettlement, States, Milestones, Managers, People, Roles
-----------------------------------------------------------------------------
(* Requests come and go. *)

(* A request that is over leaves everything the others know as it is. *)
LEMMA OneDone ==
  ASSUME WorkflowTypeOK, Informed, Serial, WithinLimit, NEW q \in Requests, Done(q),
         UNCHANGED <<wf, visited, evaluated, involved>>, \A u \in Users : audit[u] \subseteq audit'[u]
  PROVE  /\ request' \in [Requests -> RequestRecord \cup {NoRequest}]
         /\ Informed' /\ Serial' /\ WithinLimit'
<1>1. request' \in [Requests -> RequestRecord \cup {NoRequest}]
  BY DEF WorkflowTypeOK, Done
<1>2. \A p \in Requests : Open(p)' => p # q /\ Open(p) /\ request'[p] = request[p]
  BY DEF WorkflowTypeOK, Done, Open
<1>3. Informed'
  BY <1>1, <1>2, WorkflowAssumption DEF Informed, Knows, RequestRecord, WorkflowTypeOK, Open
<1> QED BY <1>1, <1>2, <1>3 DEF Serial, WithinLimit

LEMMA OneGoes ==
  ASSUME WorkflowTypeOK, Serial, NEW q \in Requests, NEW step \in Steps, Open(q), Goto(q, step)
  PROVE  /\ request' \in [Requests -> RequestRecord \cup {NoRequest}]
         /\ \A p \in Requests \ {q} : request'[p] = request[p]
         /\ request'[q] = [request[q] EXCEPT !.step = step]
         /\ request[q] \in RequestRecord /\ request'[q] \in RequestRecord
         /\ \A p \in Requests : Open(p)' <=> Open(p)
         /\ Serial'
<1>1. request[q] \in RequestRecord BY DEF WorkflowTypeOK, Open
<1>2. [request[q] EXCEPT !.step = step] \in RequestRecord BY <1>1 DEF RequestRecord
<1>3. /\ request' \in [Requests -> RequestRecord \cup {NoRequest}]
      /\ \A p \in Requests \ {q} : request'[p] = request[p]
      /\ request'[q] = [request[q] EXCEPT !.step = step]
  BY <1>2 DEF WorkflowTypeOK, Goto
<1>4. \A p \in Requests : (Open(p)' <=> Open(p)) /\ (Open(p) => request'[p].by = request[p].by)
  BY <1>1, <1>2, <1>3, WorkflowAssumption DEF Open, RequestRecord
<1> QED BY <1>1, <1>2, <1>3, <1>4 DEF Serial

(* A step of a request that only reads, or that ends it before its update. *)
LEMMA QuietStep ==
  ASSUME WorkflowInv, UNCHANGED <<tables, history>>,
         \A q \in Requests : HalfWay(q) => HalfWay(q)' /\ request'[q].by = request[q].by
                                            /\ request'[q].to = request[q].to
  PROVE  /\ StagesInOrder' /\ AssessmentFirst' /\ DutiesSegregated' /\ Reached' /\ Pending'
         /\ (\A u \in Users : involved'[u] \subseteq audit'[u])
         /\ (request' \in [Requests -> RequestRecord \cup {NoRequest}] => WorkflowTypeOK')
<1> USE DEF WorkflowInv, tables, history
<1>1. Pending' BY DEF Pending, InFlight
<1> QED BY <1>1 DEF StagesInOrder, AssessmentFirst, DutiesSegregated, Reached, WorkflowTypeOK

-----------------------------------------------------------------------------
(* One lemma per action. *)

LEMMA InitKeeps == WorkflowInit => WorkflowInv
<1> SUFFICES ASSUME WorkflowInit PROVE WorkflowInv OBVIOUS
<1> USE WorkflowAssumption DEF WorkflowInit
<1>1. WorkflowTypeOK BY DEF WorkflowTypeOK, States, Milestones
<1>2. \A q \in Requests : ~Open(q) BY DEF Open
<1>3. DutiesSegregated BY FS_EmptySet DEF DutiesSegregated
<1>4. StagesInOrder /\ AssessmentFirst /\ Reached
  BY DEF StagesInOrder, AssessmentFirst, Reached, Milestones
<1> QED BY <1>1, <1>2, <1>3, <1>4
        DEF WorkflowInv, Informed, Pending, Serial, WithinLimit

LEMMA AskKeeps ==
  ASSUME WorkflowInv, NEW q \in Requests, NEW u \in Users \cup {System}, NEW e \in Endpoints,
         Ask(q, u, e)
  PROVE  WorkflowInv'
<1> DEFINE r == request'[q]
<1>1. WorkflowTypeOK BY DEF WorkflowInv
<1>2. UNCHANGED <<tables, history>> BY DEF Ask
<1>3. /\ r = [by |-> u, to |-> e.to, auditable |-> r.auditable, step |-> r.step]
      /\ r.auditable \in BOOLEAN
      /\ r.step = IF ~e.engine THEN "writing" ELSE IF e.override THEN "overriding" ELSE "asked"
  BY <1>1 DEF Ask, WorkflowTypeOK
<1>4. r \in RequestRecord /\ r # NoRequest
  BY <1>3, EndpointsTyped, WorkflowAssumption DEF RequestRecord, Steps
<1>5. ~Open(q) /\ \A p \in Requests \ {q} : request'[p] = request[p]
  BY <1>1 DEF Ask, Open, WorkflowTypeOK
<1>6. request' \in [Requests -> RequestRecord \cup {NoRequest}]
  BY <1>1, <1>4, <1>5 DEF Ask, WorkflowTypeOK
<1>7. \A p \in Requests : HalfWay(p) => HalfWay(p)' /\ request'[p] = request[p]
  BY <1>5 DEF HalfWay, Open
<1>8. Knows(request[q])'
  <2>1. wf \in States /\ wf \in e.from BY <1>1 DEF Ask, WorkflowTypeOK
  <2>2. e.engine => e.to \in Allowed[wf] BY DEF Ask, Legal
  <2>3. r.to = "closed" => "payment_authorized" \in visited
    BY <2>1, <2>2, <1>3, MilestonesInTable, EndpointsTyped DEF WorkflowInv, Reached, Milestones
  <2>4. r.to \in {"financial_decision", "payment_authorized"} => "technical_approval" \in visited
    BY <2>1, <2>2, <1>3, MilestonesInTable, EndpointsTyped DEF WorkflowInv, Reached, Milestones
  <2>5. r.step = "writing" /\ r.to \in Milestones => evaluated
    BY <2>3, <1>3, EndpointsTyped DEF WorkflowInv, AssessmentFirst, Milestones
  <2>6. r.step = "overriding" => r.to \notin Milestones BY <1>3, EndpointsTyped
  <2>7. r.by = System => r.step \in {"overriding", "writing"}
    <3> SUFFICES ASSUME u = System PROVE r.step \in {"overriding", "writing"} BY <1>3
    <3>1. "system" \in e.roles BY WorkflowAssumption DEF Ask
    <3> QED BY <1>3, <3>1, EndpointsTyped
  <2>8. r.step \notin {"moving", "logged"} BY <1>3
  <2> QED BY <2>3, <2>4, <2>5, <2>6, <2>7, <2>8, <1>2 DEF Knows, tables, history
<1>9. Informed'
  BY <1>2, <1>5, <1>8 DEF WorkflowInv, Informed, Knows, Open, tables, history
<1>10. Serial'
  BY <1>3, <1>5 DEF Ask, WorkflowInv, Serial, Open
<1>11. WithinLimit'
  BY <1>2, <1>3, <1>5 DEF WorkflowInv, WithinLimit, Open, tables
<1> QED BY <1>2, <1>6, <1>7, <1>9, <1>10, <1>11, QuietStep DEF WorkflowInv

LEMMA CheckDutiesKeeps ==
  ASSUME WorkflowInv, NEW q \in Requests, CheckDuties(q)
  PROVE  WorkflowInv'
<1>1. /\ WorkflowTypeOK /\ Serial /\ Informed /\ WithinLimit
      /\ Open(q) /\ request[q].step = "asked"
      /\ UNCHANGED <<tables, history>>
  BY DEF WorkflowInv, CheckDuties, Serving, Open
<1>2. CASE Done(q)
  <2>1. \A p \in Requests : HalfWay(p) => HalfWay(p)' /\ request'[p] = request[p]
    BY <1>1, <1>2 DEF Done, HalfWay, WorkflowTypeOK
  <2> QED BY <1>1, <1>2, <2>1, OneDone, QuietStep DEF WorkflowInv, tables, history
<1>3. CASE /\ Cardinality(involved[request[q].by] \cup StageOf(request[q].to)) <= MaxStages
           /\ \E step \in {"cleared", "moving"} :
                /\ Goto(q, step)
                /\ step = "moving" => request[q].to \notin NeedsAssessment
  <2>1. PICK step \in {"cleared", "moving"} :
          /\ Goto(q, step)
          /\ step = "moving" => request[q].to \notin NeedsAssessment
    BY <1>3
  <2>2. step \in Steps BY DEF Steps
  <2>3. /\ request' \in [Requests -> RequestRecord \cup {NoRequest}]
        /\ \A p \in Requests \ {q} : request'[p] = request[p]
        /\ request'[q] = [request[q] EXCEPT !.step = step]
        /\ request[q] \in RequestRecord
        /\ \A p \in Requests : Open(p)' <=> Open(p)
        /\ Serial'
    BY <1>1, <2>1, <2>2, OneGoes
  <2>4. /\ request'[q].by = request[q].by /\ request'[q].to = request[q].to
        /\ request'[q].step = step
    BY <2>3 DEF RequestRecord
  <2>5. \A p \in Requests : HalfWay(p) => HalfWay(p)' /\ request'[p] = request[p]
    BY <1>1, <2>3 DEF HalfWay, Open
  <2>6. Informed'
    BY <1>1, <2>1, <2>3, <2>4 DEF Informed, Knows, tables, history
  <2>7. WithinLimit'
    BY <1>1, <1>3, <2>3, <2>4 DEF WithinLimit, tables
  <2> QED BY <1>1, <2>3, <2>5, <2>6, <2>7, QuietStep DEF WorkflowInv
<1> QED BY <1>2, <1>3 DEF CheckDuties

LEMMA CheckAssessmentKeeps ==
  ASSUME WorkflowInv, NEW q \in Requests, CheckAssessment(q)
  PROVE  WorkflowInv'
<1>1. /\ WorkflowTypeOK /\ Serial /\ Informed /\ WithinLimit /\ Reached
      /\ Open(q) /\ request[q].step = "cleared"
      /\ UNCHANGED <<tables, history>>
  BY DEF WorkflowInv, CheckAssessment, Serving, Open
<1>2. CASE Done(q)
  <2>1. \A p \in Requests : HalfWay(p) => HalfWay(p)' /\ request'[p] = request[p]
    BY <1>1, <1>2 DEF Done, HalfWay, WorkflowTypeOK
  <2> QED BY <1>1, <1>2, <2>1, OneDone, QuietStep DEF WorkflowInv, tables, history
<1>3. CASE assessed /\ Goto(q, "moving")
  <2>1. "moving" \in Steps BY DEF Steps
  <2>2. /\ request' \in [Requests -> RequestRecord \cup {NoRequest}]
        /\ \A p \in Requests \ {q} : request'[p] = request[p]
        /\ request'[q] = [request[q] EXCEPT !.step = "moving"]
        /\ request[q] \in RequestRecord
        /\ \A p \in Requests : Open(p)' <=> Open(p)
        /\ Serial'
    BY <1>1, <1>3, <2>1, OneGoes
  <2>3. /\ request'[q].by = request[q].by /\ request'[q].to = request[q].to
        /\ request'[q].step = "moving"
    BY <2>2 DEF RequestRecord
  <2>4. \A p \in Requests : HalfWay(p) => HalfWay(p)' /\ request'[p] = request[p]
    BY <1>1, <2>2 DEF HalfWay, Open
  <2>5. evaluated BY <1>1, <1>3 DEF Reached
  <2>6. Informed'
    <3>1. \A p \in Requests \ {q} : Open(p)' => Knows(request[p])'
      BY <1>1, <2>2 DEF Informed, Knows, tables, history
    <3>2. Knows(request[q])'
      BY <1>1, <2>3, <2>5 DEF Informed, Knows, tables, history
    <3> QED BY <3>1, <3>2 DEF Informed
  <2>7. WithinLimit'
    BY <1>1, <2>2, <2>3 DEF WithinLimit, tables
  <2> QED BY <1>1, <2>2, <2>4, <2>6, <2>7, QuietStep DEF WorkflowInv
<1> QED BY <1>2, <1>3 DEF CheckAssessment

(* A write of the state, by the engine or past it: what is visited stays so. *)
LEMMA StateWritten ==
  ASSUME WorkflowInv, NEW s \in States, SetState(s), UNCHANGED <<assessed, evaluated>>,
         s = "closed" => "payment_authorized" \in visited,
         s \in {"financial_decision", "payment_authorized"} => "technical_approval" \in visited,
         s \in Milestones => evaluated
  PROVE  /\ StagesInOrder' /\ AssessmentFirst' /\ Reached'
         /\ wf' \in States /\ visited' \subseteq Milestones /\ visited \subseteq visited'
<1> USE DEF WorkflowInv, SetState
<1>1. wf' \in States /\ visited' \subseteq Milestones /\ visited \subseteq visited'
  BY DEF WorkflowTypeOK
<1>2. StagesInOrder' BY DEF StagesInOrder, Milestones
<1>3. AssessmentFirst' BY DEF AssessmentFirst
<1>4. Reached' BY DEF Reached, Milestones
<1> QED BY <1>1, <1>2, <1>3, <1>4

LEMMA WriteDirectlyKeeps ==
  ASSUME WorkflowInv, NEW q \in Requests, WriteDirectly(q)
  PROVE  WorkflowInv'
<1>1. /\ WorkflowTypeOK /\ Serial /\ Informed /\ WithinLimit /\ Pending
      /\ Open(q) /\ request[q].step = "writing" /\ request[q] \in RequestRecord
      /\ SetState(request[q].to) /\ Done(q)
      /\ UNCHANGED <<assessed, audit, involved, evaluated, entered, broken>>
  BY DEF WorkflowInv, WriteDirectly, Serving, Open, WorkflowTypeOK
<1>2. /\ StagesInOrder' /\ AssessmentFirst' /\ Reached'
      /\ wf' \in States /\ visited' \subseteq Milestones /\ visited \subseteq visited'
  BY <1>1, StateWritten DEF Informed, Knows, RequestRecord
<1>3. \A p \in Requests : Open(p)' => p # q /\ Open(p) /\ request'[p] = request[p]
  BY <1>1 DEF WorkflowTypeOK, Done, Open
<1>4. WorkflowTypeOK' BY <1>1, <1>2 DEF WorkflowTypeOK, Done
<1>5. Informed' BY <1>1, <1>2, <1>3 DEF Informed, Knows
<1>6. Serial' /\ WithinLimit' BY <1>1, <1>3 DEF Serial, WithinLimit
<1>7. Pending'
  <2>1. \A p \in Requests : HalfWay(p) => HalfWay(p)' /\ request'[p] = request[p]
    BY <1>1 DEF Done, HalfWay, WorkflowTypeOK
  <2> QED BY <1>1, <2>1 DEF Pending, InFlight
<1> QED BY <1>1, <1>2, <1>4, <1>5, <1>6, <1>7 DEF WorkflowInv, DutiesSegregated


(* What happens to the tables while a request waits takes nothing from it. *)
LEMMA OthersKnow ==
  ASSUME WorkflowTypeOK, Informed, NEW q \in Requests,
         \A p \in Requests \ {q} : request'[p] = request[p],
         visited \subseteq visited', evaluated => evaluated',
         \A u \in Users : audit[u] \subseteq audit'[u]
  PROVE  \A p \in Requests \ {q} : Open(p)' => Knows(request[p])'
<1> SUFFICES ASSUME NEW p \in Requests \ {q}, Open(p)' PROVE Knows(request[p])'
  OBVIOUS
<1>1. Open(p) /\ Knows(request[p]) /\ request[p] \in RequestRecord
  BY DEF Open, Informed, WorkflowTypeOK
<1>2. request[p].step = "logged" => request[p].by \in Users
  BY <1>1 DEF Knows, RequestRecord
<1> QED BY <1>1, <1>2 DEF Knows

(* A stage that a user in line enters is one that the engine has counted. *)
LEMMA EnteredIsCounted ==
  ASSUME WorkflowInv, NEW q \in Requests, Open(q), request[q].step = "moving",
         request[q].by \in Users \ broken, ~Overlap
  PROVE  entered[request[q].by] \subseteq involved[request[q].by]
<1> DEFINE u == request[q].by
<1>1. Pending /\ Serial BY DEF WorkflowInv
<1>2. SUFFICES ASSUME NEW s \in entered[u], s \notin involved[u] PROVE FALSE
  OBVIOUS
<1>3. PICK p \in InFlight(u) : s \in StageOf(request[p].to) BY <1>1, <1>2 DEF Pending
<1>4. p \in Requests /\ Open(p) /\ request[p].by = u /\ request[p].step # "moving"
  BY <1>3 DEF InFlight, HalfWay, Open
<1> QED BY <1>1, <1>4 DEF Serial

LEMMA MoveKeeps ==
  ASSUME WorkflowInv, NEW q \in Requests, Move(q)
  PROVE  WorkflowInv'
<1> DEFINE r == request[q]
<1>1. /\ WorkflowTypeOK /\ Serial /\ Informed /\ WithinLimit /\ Pending /\ DutiesSegregated
      /\ Open(q) /\ r.step \in {"moving", "overriding"} /\ r \in RequestRecord
      /\ SetState(r.to) /\ Knows(r)
      /\ UNCHANGED <<assessed, audit, involved, evaluated, broken>>
  BY DEF WorkflowInv, Move, Serving, Open, WorkflowTypeOK, Informed
<1>2. /\ StagesInOrder' /\ AssessmentFirst' /\ Reached'
      /\ wf' \in States /\ visited' \subseteq Milestones /\ visited \subseteq visited'
  <2>1. r.to \in States BY <1>1 DEF RequestRecord
  <2>2. r.to \in Milestones => evaluated
    BY <1>1 DEF Knows, Milestones, NeedsAssessment
  <2>3. /\ r.to = "closed" => "payment_authorized" \in visited
        /\ r.to \in {"financial_decision", "payment_authorized"}
             => "technical_approval" \in visited
    BY <1>1 DEF Knows
  <2> QED BY <1>1, <2>1, <2>2, <2>3, StateWritten
<1>3. CASE r.by = System
  <2>1. r.step = "overriding" BY <1>1, <1>3 DEF Knows
  <2>2. Done(q) /\ entered' = entered BY <1>3, <2>1 DEF Move, Serving, Open
  <2>3. \A p \in Requests : Open(p)' => p # q /\ Open(p) /\ request'[p] = request[p]
    BY <1>1, <2>2 DEF WorkflowTypeOK, Done, Open
  <2>4. WorkflowTypeOK' BY <1>1, <1>2, <2>2 DEF WorkflowTypeOK, Done
  <2>5. \A p \in Requests \ {q} : request'[p] = request[p]
    BY <1>1, <2>2 DEF WorkflowTypeOK, Done
  <2>6. Informed' BY <1>1, <1>2, <2>3, <2>5, OthersKnow DEF Informed
  <2>7. Serial' /\ WithinLimit' BY <1>1, <2>3 DEF Serial, WithinLimit
  <2>8. Pending'
    <3>1. \A p \in Requests : HalfWay(p) => HalfWay(p)' /\ request'[p] = request[p]
      BY <1>1, <2>2 DEF Done, HalfWay, WorkflowTypeOK
    <3> QED BY <1>1, <2>2, <3>1 DEF Pending, InFlight
  <2> QED BY <1>1, <1>2, <2>2, <2>4, <2>6, <2>7, <2>8 DEF WorkflowInv, DutiesSegregated
<1>4. CASE r.by # System
  <2>1. r.by \in Users /\ Goto(q, "moved") /\ "moved" \in Steps
    BY <1>1, <1>4 DEF RequestRecord, Move, Steps
  <2>2. /\ request' \in [Requests -> RequestRecord \cup {NoRequest}]
        /\ \A p \in Requests \ {q} : request'[p] = request[p]
        /\ request'[q] = [r EXCEPT !.step = "moved"]
        /\ \A p \in Requests : Open(p)' <=> Open(p)
        /\ Serial'
    BY <1>1, <2>1, OneGoes
  <2>3. request'[q].by = r.by /\ request'[q].to = r.to /\ request'[q].step = "moved"
    BY <1>1, <2>2 DEF RequestRecord
  <2>4. \A p \in Requests : HalfWay(p) => HalfWay(p)' /\ request'[p] = request[p]
    BY <1>1, <2>2 DEF HalfWay, Open
  <2>5. HalfWay(q)' BY <1>1, <2>2, <2>3 DEF HalfWay, Open
  <2>6. Informed'
    <3>1. \A p \in Requests \ {q} : Open(p)' => Knows(request[p])'
      BY <1>1, <1>2, <2>2, OthersKnow
    <3>2. Knows(request[q])' BY <1>1, <1>2, <2>3, <1>4 DEF Knows
    <3> QED BY <3>1, <3>2 DEF Informed
  <2>7. WithinLimit' BY <1>1, <2>2, <2>3 DEF WithinLimit
  <2>8. CASE r.step = "overriding" \/ r.by \in broken
    <3>1. entered' = entered BY <1>1, <2>8 DEF Move, Serving, Open
    <3>2. Pending' BY <1>1, <2>4, <3>1 DEF Pending, InFlight
    <3>3. WorkflowTypeOK' BY <1>1, <1>2, <2>2, <3>1 DEF WorkflowTypeOK
    <3> QED BY <1>1, <1>2, <2>2, <2>6, <2>7, <3>1, <3>2, <3>3
            DEF WorkflowInv, DutiesSegregated
  <2>9. CASE r.step = "moving" /\ r.by \notin broken
    <3>1. entered' = [entered EXCEPT ![r.by] = @ \cup StageOf(r.to)]
      BY <2>9 DEF Move, Serving
    <3>2. /\ entered' \in [Users -> SUBSET Stages]
          /\ entered'[r.by] = entered[r.by] \cup StageOf(r.to)
          /\ \A u \in Users \ {r.by} : entered'[u] = entered[u]
      BY <1>1, <2>1, <3>1, StageIsStage DEF WorkflowTypeOK
    <3>3. WorkflowTypeOK' BY <1>1, <1>2, <2>2, <3>2 DEF WorkflowTypeOK
    <3>4. Pending'
      <4> SUFFICES ASSUME NEW u \in Users \ broken, NEW s \in entered'[u]
                   PROVE  \/ s \in involved[u]
                          \/ \E p \in InFlight(u)' : s \in StageOf(request'[p].to)
        BY <1>1 DEF Pending
      <4>1. CASE s \in entered[u]
        BY <1>1, <2>4, <4>1 DEF Pending, InFlight
      <4>2. CASE u = r.by /\ s \in StageOf(r.to)
        BY <2>3, <2>5, <4>2 DEF InFlight
      <4> QED BY <3>2, <4>1, <4>2
    <3>5. DutiesSegregated'
      <4> SUFFICES ASSUME ~Overlap, NEW u \in Users \ broken
                   PROVE  Cardinality(entered'[u]) <= MaxStages
        BY <1>1 DEF DutiesSegregated
      <4>1. CASE u # r.by BY <1>1, <3>2, <4>1 DEF DutiesSegregated
      <4>2. CASE u = r.by
        <5> DEFINE counted == involved[u] \cup StageOf(r.to)
        <5>1. entered'[u] \subseteq counted
          BY <1>1, <2>9, <3>2, <4>2, EnteredIsCounted
        <5>2. IsFiniteSet(counted) /\ IsFiniteSet(entered'[u])
          BY <1>1, <3>2, StageIsStage, StagesFinite DEF WorkflowTypeOK
        <5>3. Cardinality(counted) <= MaxStages BY <1>1, <2>9, <4>2 DEF WithinLimit
        <5>4. Cardinality(entered'[u]) <= Cardinality(counted) BY <5>1, <5>2, FS_Subset
        <5>5. Cardinality(entered'[u]) \in Nat /\ Cardinality(counted) \in Nat
          BY <5>2, FS_CardinalityType
        <5> QED BY <5>3, <5>4, <5>5, WorkflowAssumption
      <4> QED BY <4>1, <4>2
    <3> QED BY <1>1, <1>2, <2>2, <2>6, <2>7, <3>3, <3>4, <3>5 DEF WorkflowInv
  <2> QED BY <1>1, <2>8, <2>9
<1> QED BY <1>3, <1>4

LEMMA LogKeeps ==
  ASSUME WorkflowInv, NEW q \in Requests, Log(q)
  PROVE  WorkflowInv'
<1> DEFINE r == request[q]
<1>1. /\ WorkflowTypeOK /\ Serial /\ Informed /\ WithinLimit /\ Pending
      /\ Open(q) /\ r.step = "moved" /\ r \in RequestRecord /\ Knows(r) /\ HalfWay(q)
      /\ audit' = [audit EXCEPT ![r.by] = @ \cup StageOf(r.to)]
      /\ UNCHANGED <<wf, assessed, involved, history>>
  BY DEF WorkflowInv, Log, Serving, Open, WorkflowTypeOK, Informed, HalfWay
<1>2. r.by \in Users BY <1>1 DEF Knows, RequestRecord
<1>3. /\ audit' \in [Users -> SUBSET Stages]
      /\ \A u \in Users : audit[u] \subseteq audit'[u]
      /\ StageOf(r.to) \subseteq audit'[r.by]
  BY <1>1, <1>2, StageIsStage DEF WorkflowTypeOK
<1>4. \A u \in Users : involved'[u] \subseteq audit'[u]
  BY <1>1, <1>3 DEF WorkflowInv
<1>5. StagesInOrder' /\ AssessmentFirst' /\ DutiesSegregated' /\ Reached'
  BY <1>1 DEF WorkflowInv, StagesInOrder, AssessmentFirst, DutiesSegregated, Reached, history
<1>6. request' \in [Requests -> RequestRecord \cup {NoRequest}] => WorkflowTypeOK'
  BY <1>1, <1>3 DEF WorkflowTypeOK, history
<1>7. CASE StageOf(r.to) = {} /\ Done(q)
  <2>1. /\ request' \in [Requests -> RequestRecord \cup {NoRequest}]
        /\ Informed' /\ Serial' /\ WithinLimit'
    BY <1>1, <1>3, <1>7, OneDone DEF history
  <2>2. \A p \in Requests \ {q} : HalfWay(p) => HalfWay(p)' /\ request'[p] = request[p]
    BY <1>1, <1>7 DEF Done, HalfWay, WorkflowTypeOK
  <2>3. Pending'
    <3> SUFFICES ASSUME NEW u \in Users \ broken, NEW s \in entered[u], s \notin involved[u]
                 PROVE  \E p \in InFlight(u)' : s \in StageOf(request'[p].to)
      BY <1>1 DEF Pending, history
    <3>1. PICK p \in InFlight(u) : s \in StageOf(request[p].to) BY <1>1 DEF Pending
    <3>2. p # q BY <1>7, <3>1
    <3> QED BY <2>2, <3>1, <3>2 DEF InFlight
  <2> QED BY <1>4, <1>5, <1>6, <2>1, <2>3 DEF WorkflowInv
<1>8. CASE Goto(q, "logged")
  <2>1. "logged" \in Steps BY DEF Steps
  <2>2. /\ request' \in [Requests -> RequestRecord \cup {NoRequest}]
        /\ \A p \in Requests \ {q} : request'[p] = request[p]
        /\ request'[q] = [r EXCEPT !.step = "logged"]
        /\ \A p \in Requests : Open(p)' <=> Open(p)
        /\ Serial'
    BY <1>1, <1>8, <2>1, OneGoes
  <2>3. request'[q].by = r.by /\ request'[q].to = r.to /\ request'[q].step = "logged"
    BY <1>1, <2>2 DEF RequestRecord
  <2>4. \A p \in Requests : HalfWay(p) => HalfWay(p)' /\ request'[p].by = request[p].by
                                           /\ request'[p].to = request[p].to
    BY <1>1, <2>2, <2>3 DEF HalfWay, Open
  <2>5. Informed'
    <3>1. \A p \in Requests \ {q} : Open(p)' => Knows(request[p])'
      BY <1>1, <1>3, <2>2, OthersKnow DEF history
    <3>2. Knows(request[q])' BY <1>1, <1>2, <1>3, <2>3, WorkflowAssumption DEF Knows, history
    <3> QED BY <3>1, <3>2 DEF Informed
  <2>6. WithinLimit' BY <1>1, <2>2, <2>3 DEF WithinLimit
  <2>7. Pending' BY <1>1, <2>4 DEF Pending, InFlight, history
  <2> QED BY <1>4, <1>5, <1>6, <2>2, <2>5, <2>6, <2>7 DEF WorkflowInv
<1> QED BY <1>7, <1>8 DEF Log

LEMMA TrackKeeps ==
  ASSUME WorkflowInv, NEW q \in Requests, Track(q)
  PROVE  WorkflowInv'
<1> DEFINE r == request[q]
<1>1. /\ WorkflowTypeOK /\ Serial /\ Informed /\ WithinLimit /\ Pending
      /\ Open(q) /\ r.step = "logged" /\ r \in RequestRecord /\ Knows(r) /\ Done(q)
      /\ involved' = [involved EXCEPT ![r.by] = @ \cup StageOf(r.to)]
      /\ UNCHANGED <<wf, assessed, audit, history>>
  BY DEF WorkflowInv, Track, Serving, Open, WorkflowTypeOK, Informed
<1>2. r.by \in Users BY <1>1 DEF Knows, RequestRecord
<1>3. /\ involved' \in [Users -> SUBSET Stages]
      /\ involved'[r.by] = involved[r.by] \cup StageOf(r.to)
      /\ \A u \in Users \ {r.by} : involved'[u] = involved[u]
  BY <1>1, <1>2, StageIsStage DEF WorkflowTypeOK
<1>4. /\ request' \in [Requests -> RequestRecord \cup {NoRequest}]
      /\ \A p \in Requests \ {q} : request'[p] = request[p]
  BY <1>1 DEF WorkflowTypeOK, Done
<1>5. \A p \in Requests : Open(p)' => p # q /\ Open(p) /\ request'[p] = request[p]
  BY <1>1 DEF WorkflowTypeOK, Done, Open
<1>6. WorkflowTypeOK' BY <1>1, <1>3, <1>4 DEF WorkflowTypeOK, history
<1>7. StagesInOrder' /\ AssessmentFirst' /\ DutiesSegregated' /\ Reached'
  BY <1>1 DEF WorkflowInv, StagesInOrder, AssessmentFirst, DutiesSegregated, Reached, history
<1>8. \A u \in Users : involved'[u] \subseteq audit'[u]
  BY <1>1, <1>3 DEF WorkflowInv, Knows
<1>9. Informed' BY <1>1, <1>4, <1>5, OthersKnow DEF Informed, history
<1>10. Serial' BY <1>1, <1>5 DEF Serial
<1>11. WithinLimit'
  <2> SUFFICES ASSUME ~Overlap, NEW p \in Requests, Open(p)',
                      request'[p].step \in {"cleared", "moving"}
               PROVE  Cardinality(involved'[request'[p].by] \cup StageOf(request'[p].to))
                        <= MaxStages
    BY DEF WithinLimit
  <2>1. p # q /\ Open(p) /\ request'[p] = request[p] BY <1>5
  <2>2. request[p].by # r.by BY <1>1, <2>1 DEF Serial
  <2>3. request[p].by \in Users
    BY <1>1, <2>1 DEF Informed, Knows, WorkflowTypeOK, RequestRecord, Open
  <2> QED BY <1>1, <1>3, <2>1, <2>2, <2>3 DEF WithinLimit
<1>12. Pending'
  <2> SUFFICES ASSUME NEW u \in Users \ broken, NEW s \in entered[u], s \notin involved'[u]
               PROVE  \E p \in InFlight(u)' : s \in StageOf(request'[p].to)
    BY <1>1 DEF Pending, history
  <2>1. s \notin involved[u] BY <1>3
  <2>2. PICK p \in InFlight(u) : s \in StageOf(request[p].to) BY <1>1, <2>1 DEF Pending
  <2>3. p # q BY <1>3, <2>2 DEF InFlight
  <2>4. p \in InFlight(u)' /\ request'[p] = request[p]
    BY <1>4, <2>2, <2>3 DEF InFlight, HalfWay
  <2> QED BY <2>2, <2>4
<1> QED BY <1>6, <1>7, <1>8, <1>9, <1>10, <1>11, <1>12 DEF WorkflowInv

(* A request breaks off, before its update or half-way through. *)
LEMMA BreakOffKeeps ==
  ASSUME WorkflowInv, NEW q \in Requests, Open(q), Done(q),
         UNCHANGED <<tables, visited, evaluated>>,
         IF HalfWay(q) THEN Breaks(request[q].by) ELSE UNCHANGED <<entered, broken>>
  PROVE  WorkflowInv'
<1>1. /\ WorkflowTypeOK /\ Serial /\ Informed /\ WithinLimit /\ Pending
      /\ request[q] \in RequestRecord /\ Knows(request[q])
  BY DEF WorkflowInv, WorkflowTypeOK, Informed, Open
<1>2. HalfWay(q) => request[q].by \in Users BY <1>1 DEF Knows, RequestRecord, HalfWay
<1>3. /\ request' \in [Requests -> RequestRecord \cup {NoRequest}]
      /\ Informed' /\ Serial' /\ WithinLimit'
  BY <1>1, OneDone DEF tables
<1>4. /\ broken \subseteq broken' /\ broken' \subseteq Users
      /\ entered' \in [Users -> SUBSET Stages]
      /\ \A u \in Users \ broken' : entered'[u] = entered[u]
  BY <1>1, <1>2 DEF WorkflowTypeOK, Breaks
<1>5. WorkflowTypeOK' BY <1>1, <1>3, <1>4 DEF WorkflowTypeOK, tables
<1>6. /\ StagesInOrder' /\ AssessmentFirst' /\ DutiesSegregated' /\ Reached'
      /\ \A u \in Users : involved'[u] \subseteq audit'[u]
  BY <1>4 DEF WorkflowInv, StagesInOrder, AssessmentFirst, DutiesSegregated, Reached, tables
<1>7. Pending'
  <2> SUFFICES ASSUME NEW u \in Users \ broken', NEW s \in entered[u], s \notin involved[u]
               PROVE  \E p \in InFlight(u)' : s \in StageOf(request'[p].to)
    BY <1>4 DEF Pending, tables
  <2>1. PICK p \in InFlight(u) : s \in StageOf(request[p].to) BY <1>1, <1>4 DEF Pending
  <2>2. p # q BY <2>1 DEF InFlight, Breaks
  <2>3. request'[p] = request[p] BY <1>1, <2>1, <2>2 DEF InFlight, Done, WorkflowTypeOK
  <2>4. p \in InFlight(u)' BY <2>1, <2>3 DEF InFlight, HalfWay
  <2> QED BY <2>1, <2>3, <2>4
<1> QED BY <1>3, <1>5, <1>6, <1>7 DEF WorkflowInv

(* The pipeline and the job write no record of a request. *)
LEMMA RequestsStay ==
  ASSUME WorkflowInv, UNCHANGED <<request, audit, involved, entered, broken>>,
         visited \subseteq visited', evaluated => evaluated'
  PROVE  /\ Informed' /\ Pending' /\ Serial' /\ WithinLimit' /\ DutiesSegregated'
         /\ \A u \in Users : involved'[u] \subseteq audit'[u]
<1>1. Informed' BY DEF WorkflowInv, Informed, Knows, Open
<1>2. Pending' BY DEF WorkflowInv, Pending, InFlight, HalfWay
<1>3. Serial' /\ WithinLimit' BY DEF WorkflowInv, Serial, WithinLimit, Open
<1> QED BY <1>1, <1>2, <1>3 DEF WorkflowInv, DutiesSegregated

LEMMA PipelineSetsStateKeeps ==
  ASSUME WorkflowInv, PipelineSetsState
  PROVE  WorkflowInv'
<1>1. PICK s \in {"intake_queue", "under_assessment", "ai_assessment_completed"} : SetState(s)
  BY DEF PipelineSetsState
<1>2. UNCHANGED <<assessed, audit, involved, request, evaluated, entered, broken>>
  BY DEF PipelineSetsState
<1>3. s \in States /\ s \notin Milestones /\ s # "financial_decision"
  BY DEF States, Milestones
<1>4. /\ StagesInOrder' /\ AssessmentFirst' /\ Reached'
      /\ wf' \in States /\ visited' \subseteq Milestones /\ visited \subseteq visited'
  BY <1>1, <1>2, <1>3, StateWritten DEF Milestones
<1>5. WorkflowTypeOK' BY <1>2, <1>4 DEF WorkflowInv, WorkflowTypeOK
<1> QED BY <1>2, <1>4, <1>5, RequestsStay DEF WorkflowInv

(* What updateClaimState passes over counts as behind the claim. *)
LEMMA UpdateClaimStateKeeps ==
  ASSUME WorkflowInv, UpdateClaimState
  PROVE  WorkflowInv'
<1>1. PICK s \in SetTo : /\ wf' = s
                         /\ visited' = visited \cup Presupposed(s)
                         /\ evaluated' = (evaluated \/ s \in NeedsAssessment)
  BY DEF UpdateClaimState
<1>2. UNCHANGED <<assessed, audit, involved, request, entered, broken>>
  BY DEF UpdateClaimState
<1>3. /\ WorkflowTypeOK /\ StagesInOrder /\ AssessmentFirst /\ Reached
      /\ s \in States /\ evaluated \in BOOLEAN
  BY WorkflowAssumption DEF WorkflowInv, WorkflowTypeOK
<1>4. /\ Presupposed(s) \subseteq Milestones
      /\ s \in Milestones => s \in Presupposed(s)
      /\ s = "financial_decision" => "technical_approval" \in Presupposed(s)
      /\ "payment_authorized" \in Presupposed(s) => "technical_approval" \in Presupposed(s)
      /\ "closed" \in Presupposed(s) => "payment_authorized" \in Presupposed(s)
      /\ Presupposed(s) # {} => s \in NeedsAssessment
  BY DEF Presupposed, Milestones, NeedsAssessment
<1>5. WorkflowTypeOK'
  BY <1>1, <1>2, <1>3, <1>4 DEF WorkflowTypeOK
<1>6. StagesInOrder' /\ AssessmentFirst' /\ Reached'
  BY <1>1, <1>2, <1>3, <1>4 DEF StagesInOrder, AssessmentFirst, Reached
<1> QED BY <1>1, <1>2, <1>5, <1>6, RequestsStay DEF WorkflowInv

LEMMA PipelineStoresKeeps ==
  ASSUME WorkflowInv, PipelineStores
  PROVE  WorkflowInv'
<1>1. /\ UNCHANGED <<wf, audit, involved, request, visited, entered, broken>>
      /\ assessed' \in BOOLEAN /\ evaluated' = (evaluated \/ assessed')
  BY DEF PipelineStores
<1>2. WorkflowTypeOK /\ StagesInOrder /\ AssessmentFirst /\ Reached BY DEF WorkflowInv
<1>3. evaluated \in BOOLEAN /\ assessed \in BOOLEAN BY <1>2 DEF WorkflowTypeOK
<1>4. (evaluated => evaluated') /\ (assessed' => evaluated') /\ evaluated' \in BOOLEAN
  BY <1>1, <1>3
<1>5. WorkflowTypeOK' BY <1>1, <1>2, <1>4 DEF WorkflowTypeOK
<1>6. StagesInOrder' /\ AssessmentFirst' /\ Reached'
  BY <1>1, <1>2, <1>4 DEF StagesInOrder, AssessmentFirst, Reached
<1> QED BY <1>1, <1>4, <1>5, <1>6, RequestsStay DEF WorkflowInv

LEMMA StepKeeps ==
  ASSUME WorkflowInv, [WorkflowNext]_vars
  PROVE  WorkflowInv'
<1>1. CASE UNCHANGED vars
  BY <1>1 DEF WorkflowInv, vars, WorkflowTypeOK, StagesInOrder, AssessmentFirst,
       DutiesSegregated, Reached, Informed, Knows, Pending, InFlight, HalfWay, Serial,
       WithinLimit, Open
<1>2. ASSUME NEW q \in Requests, EngineStep(q) PROVE WorkflowInv'
  <2>1. CASE LogRefused(q)
    <3>1. Open(q) /\ HalfWay(q) BY <2>1 DEF LogRefused, Serving, Open, HalfWay
    <3> QED BY <2>1, <3>1, BreakOffKeeps DEF LogRefused
  <2> QED BY <1>2, <2>1, CheckDutiesKeeps, CheckAssessmentKeeps, MoveKeeps, LogKeeps,
             TrackKeeps DEF EngineStep
<1>3. ASSUME NEW q \in Requests, Fail(q) PROVE WorkflowInv'
  BY <1>3, BreakOffKeeps DEF Fail, Open
<1> QED BY <1>1, <1>2, <1>3, AskKeeps, WriteDirectlyKeeps, UpdateClaimStateKeeps, PipelineSetsStateKeeps,
           PipelineStoresKeeps DEF WorkflowNext

-----------------------------------------------------------------------------
(* The results. *)

(* In every behaviour of the workflow the inductive invariant holds.        *)
THEOREM WorkflowInvariant == WorkflowSpec => []WorkflowInv
BY InitKeeps, StepKeeps, PTL DEF WorkflowSpec

(* The tables, the requests in flight and the histories keep their types.   *)
THEOREM WorkflowTypeCorrect == WorkflowSpec => []WorkflowTypeOK
<1>1. WorkflowInv => WorkflowTypeOK BY DEF WorkflowInv
<1> QED BY <1>1, WorkflowInvariant, PTL

(* Nothing is paid that was not technically approved or closed that was not *)
(* paid, whoever acts on whatever state he read, and whatever fails.        *)
THEOREM WorkflowStagesInOrder == WorkflowSpec => []StagesInOrder
<1>1. WorkflowInv => StagesInOrder BY DEF WorkflowInv
<1> QED BY <1>1, WorkflowInvariant, PTL

(* Nothing is approved, paid or closed that never had an assessment.        *)
THEOREM WorkflowAssessmentFirst == WorkflowSpec => []AssessmentFirst
<1>1. WorkflowInv => AssessmentFirst BY DEF WorkflowInv
<1> QED BY <1>1, WorkflowInvariant, PTL

(* The duties of a user are segregated, if his requests come one after the  *)
(* other and none of them broke off after its update.                       *)
THEOREM WorkflowDutiesSegregated == WorkflowSpec => []DutiesSegregated
<1>1. WorkflowInv => DutiesSegregated BY DEF WorkflowInv
<1> QED BY <1>1, WorkflowInvariant, PTL

(* Every stage that is counted is in the audit trail, and every stage       *)
(* entered by a request that did not break off is counted.                  *)
THEOREM WorkflowRecordsTrue == WorkflowSpec => []RecordsTrue
<1>1. WorkflowInv => RecordsTrue BY DEF WorkflowInv, RecordsTrue, Pending
<1> QED BY <1>1, WorkflowInvariant, PTL

-----------------------------------------------------------------------------
(* What overlapping requests of one user can do to the limit.              *)

(* The requests of a user that were let through and have not moved the claim. *)
Cleared(u) ==
  {q \in Requests : Open(q) /\ request[q].by = u /\ request[q].step \in {"cleared", "moving"}}
StagesOf(Q) == UNION {StageOf(request[q].to) : q \in Q}
Owed(u) == entered[u] \cup StagesOf(Cleared(u))

(* What a user has entered and what he has been let through to enter.        *)
OwedInv ==
  \A u \in Users \ broken : Cardinality(Owed(u)) <= MaxStages + (Cardinality(Requests) - 1)

(* n requests are for n stages at most.                                      *)
LEMMA FewStages ==
  ASSUME IsFiniteSet(Requests), NEW Q, Q \subseteq Requests
  PROVE  IsFiniteSet(StagesOf(Q)) /\ Cardinality(StagesOf(Q)) <= Cardinality(Q)
<1> DEFINE T == StagesOf(Q)
           P == {q \in Q : StageOf(request[q].to) # {}}
           f == [q \in P |-> CHOOSE s \in StageOf(request[q].to) : TRUE]
<1>1. \A s : \A x, y \in StageOf(s) : x = y
  BY DEF StageOf
<1>2. \A q \in P : f[q] \in StageOf(request[q].to) /\ StageOf(request[q].to) \subseteq T
  BY DEF StagesOf
<1>3. f \in [P -> T]
  BY <1>2
<1>4. ASSUME NEW t \in T PROVE \E q \in P : f[q] = t
  <2>1. PICK q \in Q : t \in StageOf(request[q].to)
    BY DEF StagesOf
  <2>2. q \in P
    BY <2>1
  <2> QED BY <1>1, <1>2, <2>1, <2>2
<1>5. f \in Surjection(P, T)
  BY <1>3, <1>4 DEF Surjection
<1>6. IsFiniteSet(Q) /\ IsFiniteSet(P) /\ Cardinality(P) <= Cardinality(Q)
  <2>1. P \subseteq Q
    OBVIOUS
  <2>2. IsFiniteSet(Q)
    BY FS_Subset
  <2> QED BY <2>1, <2>2, FS_Subset
<1>7. IsFiniteSet(T) /\ Cardinality(T) <= Cardinality(P)
  BY <1>5, <1>6, FS_Surjection
<1>8. Cardinality(T) \in Nat /\ Cardinality(P) \in Nat /\ Cardinality(Q) \in Nat
  BY <1>6, <1>7, FS_CardinalityType
<1> QED BY <1>6, <1>7, <1>8

(* The duties are counted against what is on record.  What is not on record  *)
(* yet belongs to another request, so that all others together add at most   *)
(* one stage each.                                                           *)
LEMMA PassingKeepsLimit ==
  ASSUME IsFiniteSet(Requests), WorkflowInv, NEW q \in Requests, NEW step \in {"cleared", "moving"},
         Open(q), request[q].step = "asked", Goto(q, step), UNCHANGED <<tables, history>>,
         NEW u \in Users \ broken, request[q].by = u,
         Cardinality(involved[u] \cup StageOf(request[q].to)) <= MaxStages
  PROVE  Cardinality(Owed(u)') <= MaxStages + (Cardinality(Requests) - 1)
<1> DEFINE counted == involved[u] \cup StageOf(request[q].to)
           rest == StagesOf(Requests \ {q})
<1>1. WorkflowTypeOK /\ Serial /\ Pending /\ step \in Steps
  BY DEF WorkflowInv, Steps
<1>2. /\ \A p \in Requests \ {q} : request'[p] = request[p]
      /\ request'[q] = [request[q] EXCEPT !.step = step] /\ request[q] \in RequestRecord
  BY <1>1, OneGoes
<1>3. request'[q].to = request[q].to
  BY <1>2 DEF RequestRecord
<1>4. \A p \in Requests : request'[p].to = request[p].to
  BY <1>2, <1>3
<1>5. entered[u] \subseteq counted \cup rest
  <2> SUFFICES ASSUME NEW s \in entered[u], s \notin involved[u] PROVE s \in rest
    OBVIOUS
  <2>1. PICK p \in InFlight(u) : s \in StageOf(request[p].to)
    BY <1>1 DEF Pending
  <2>2. p \in Requests \ {q}
    BY <2>1 DEF InFlight, HalfWay
  <2> QED BY <2>1, <2>2 DEF StagesOf
<1>6. StagesOf(Cleared(u))' \subseteq counted \cup rest
  <2> SUFFICES ASSUME NEW s, NEW p \in Requests, s \in StageOf(request'[p].to)
               PROVE  s \in counted \cup rest
    BY DEF StagesOf, Cleared
  <2> QED BY <1>4 DEF StagesOf
<1>7. Owed(u)' \subseteq counted \cup rest
  BY <1>5, <1>6 DEF Owed, history
<1>8. IsFiniteSet(counted) /\ IsFiniteSet(rest) /\ Cardinality(rest) <= Cardinality(Requests \ {q})
  BY <1>1, FewStages, StageIsStage, StagesFinite DEF WorkflowTypeOK
<1>9. Cardinality(Requests \ {q}) = Cardinality(Requests) - 1
  BY FS_RemoveElement
<1>10. /\ IsFiniteSet(counted \cup rest)
       /\ Cardinality(counted \cup rest) <= Cardinality(counted) + Cardinality(rest)
  <2> HIDE DEF counted, rest
  <2>1. IsFiniteSet(counted \cap rest)
    BY <1>8, FS_Intersection
  <2>2. Cardinality(counted \cap rest) \in Nat /\ Cardinality(counted) \in Nat
        /\ Cardinality(rest) \in Nat
    BY <1>8, <2>1, FS_CardinalityType
  <2>3. /\ IsFiniteSet(counted \cup rest)
        /\ Cardinality(counted \cup rest)
             = Cardinality(counted) + Cardinality(rest) - Cardinality(counted \cap rest)
    BY <1>8, FS_Union
  <2> QED BY <2>2, <2>3
<1>11. IsFiniteSet(Owed(u)') /\ Cardinality(Owed(u)') <= Cardinality(counted \cup rest)
  BY <1>7, <1>10, FS_Subset
<1>12. /\ Cardinality(Owed(u)') \in Nat /\ Cardinality(counted \cup rest) \in Nat
       /\ Cardinality(counted) \in Nat /\ Cardinality(rest) \in Nat /\ Cardinality(Requests) \in Nat
  BY <1>8, <1>10, <1>11, FS_CardinalityType
<1> QED BY <1>8, <1>9, <1>10, <1>11, <1>12, WorkflowAssumption DEF WorkflowAssumption

(* The other steps let nobody through.                                       *)
LEMMA OwedShrinks ==
  ASSUME WorkflowInv, OwedInv, IsFiniteSet(Requests), NEW u \in Users \ broken,
         Owed(u)' \subseteq Owed(u)
  PROVE  Cardinality(Owed(u)') <= MaxStages + (Cardinality(Requests) - 1)
<1>1. Owed(u) \subseteq Stages
  BY StageIsStage DEF Owed, StagesOf, WorkflowInv, WorkflowTypeOK
<1>2. IsFiniteSet(Owed(u))
  BY <1>1, StagesFinite
<1>3. IsFiniteSet(Owed(u)') /\ Cardinality(Owed(u)') <= Cardinality(Owed(u))
  BY <1>2, FS_Subset
<1>4. Cardinality(Owed(u)') \in Nat /\ Cardinality(Owed(u)) \in Nat /\ Cardinality(Requests) \in Nat
  BY <1>2, <1>3, FS_CardinalityType
<1> QED BY <1>3, <1>4, WorkflowAssumption DEF OwedInv, WorkflowAssumption

(* A step that lets nobody through and moves nobody in.                      *)
LEMMA NobodyPasses ==
  ASSUME NEW u \in Users, entered'[u] = entered[u],
         \A p \in Requests :
           Open(p)' /\ request'[p].by = u /\ request'[p].step \in {"cleared", "moving"}
             => /\ Open(p) /\ request[p].by = u /\ request[p].step \in {"cleared", "moving"}
                /\ request'[p].to = request[p].to
  PROVE  Owed(u)' \subseteq Owed(u)
BY DEF Owed, StagesOf, Cleared

(* A request that is over, or goes on from a step, is where it was or past it. *)
LEMMA GoneOrOn ==
  ASSUME WorkflowInv, NEW q \in Requests, Open(q), NEW u \in Users, entered'[u] = entered[u],
         \/ Done(q)
         \/ \E step \in Steps :
              /\ Goto(q, step)
              /\ step \in {"cleared", "moving"} => request[q].step = "cleared"
  PROVE  Owed(u)' \subseteq Owed(u)
<1>1. WorkflowTypeOK /\ Serial
  BY DEF WorkflowInv
<1>2. CASE Done(q)
  <2>1. \A p \in Requests : Open(p)' => Open(p) /\ request'[p] = request[p]
    BY <1>1, <1>2 DEF Done, Open, WorkflowTypeOK
  <2> QED BY <2>1, NobodyPasses
<1>3. ASSUME NEW step \in Steps, Goto(q, step),
             step \in {"cleared", "moving"} => request[q].step = "cleared"
      PROVE  Owed(u)' \subseteq Owed(u)
  <2>1. /\ \A p \in Requests \ {q} : request'[p] = request[p]
        /\ request'[q] = [request[q] EXCEPT !.step = step]
        /\ request[q] \in RequestRecord
        /\ \A p \in Requests : Open(p)' <=> Open(p)
    BY <1>1, <1>3, OneGoes
  <2>2. request'[q].by = request[q].by /\ request'[q].to = request[q].to /\ request'[q].step = step
    BY <2>1 DEF RequestRecord
  <2> QED BY <1>3, <2>1, <2>2, NobodyPasses
<1> QED BY <1>2, <1>3

(* The move turns a stage that a user was let through to enter into one he has. *)
LEMMA MoveOwes ==
  ASSUME WorkflowInv, NEW q \in Requests, Move(q), NEW u \in Users \ broken
  PROVE  Owed(u)' \subseteq Owed(u)
<1>1. /\ WorkflowTypeOK /\ Serial /\ Open(q) /\ request[q] \in RequestRecord
      /\ request[q].step \in {"moving", "overriding"} /\ "moved" \in Steps
  BY DEF WorkflowInv, Move, Serving, Open, WorkflowTypeOK, Steps
<1>2. Done(q) \/ Goto(q, "moved")
  BY DEF Move
<1>3. CASE request[q].step = "overriding" \/ request[q].by # u
  <2>1. \A p \in Requests :
          Open(p)' /\ request'[p].step \in {"cleared", "moving"} => Open(p) /\ request'[p] = request[p]
    <3>1. CASE Done(q)
      BY <1>1, <3>1 DEF Done, Open, WorkflowTypeOK
    <3>2. CASE Goto(q, "moved")
      <4>1. /\ \A p \in Requests \ {q} : request'[p] = request[p]
            /\ request'[q] = [request[q] EXCEPT !.step = "moved"]
            /\ \A p \in Requests : Open(p)' <=> Open(p)
        BY <1>1, <3>2, OneGoes
      <4>2. request'[q].step = "moved"
        BY <1>1, <4>1 DEF RequestRecord
      <4> QED BY <4>1, <4>2
    <3> QED BY <1>2, <3>1, <3>2
  <2>2. entered'[u] = entered[u]
    BY <1>1, <1>3 DEF Move, Serving, Open, WorkflowTypeOK
  <2> QED BY <2>1, <2>2 DEF Owed, StagesOf, Cleared
<1>4. CASE request[q].step = "moving" /\ request[q].by = u
  <2>1. u # System /\ Goto(q, "moved")
    BY <1>4, WorkflowAssumption DEF WorkflowAssumption, Move
  <2>2. /\ \A p \in Requests \ {q} : request'[p] = request[p]
        /\ request'[q] = [request[q] EXCEPT !.step = "moved"]
        /\ \A p \in Requests : Open(p)' <=> Open(p)
    BY <1>1, <2>1, OneGoes
  <2>3. request'[q].step = "moved"
    BY <1>1, <2>2 DEF RequestRecord
  <2>4. StagesOf(Cleared(u))' \subseteq StagesOf(Cleared(u))
    BY <2>2, <2>3 DEF StagesOf, Cleared
  <2>5. entered'[u] = entered[u] \cup StageOf(request[q].to)
    BY <1>1, <1>4 DEF Move, Serving, WorkflowTypeOK
  <2>6. StageOf(request[q].to) \subseteq StagesOf(Cleared(u))
    BY <1>1, <1>4 DEF StagesOf, Cleared
  <2> QED BY <2>4, <2>5, <2>6 DEF Owed
<1> QED BY <1>1, <1>3, <1>4

LEMMA StepKeepsOwed ==
  ASSUME WorkflowInv, OwedInv, IsFiniteSet(Requests), [WorkflowNext]_vars
  PROVE  OwedInv'
<1> SUFFICES ASSUME NEW u \in Users \ broken'
             PROVE  Cardinality(Owed(u)') <= MaxStages + (Cardinality(Requests) - 1)
  BY DEF OwedInv
<1>1. broken \subseteq broken'
  BY DEF WorkflowNext, EngineStep, Ask, CheckDuties, CheckAssessment, Move, Log, LogRefused, Track,
         WriteDirectly, Fail, Breaks, UpdateClaimState, PipelineSetsState, PipelineStores, history, vars
<1>2. u \in Users \ broken /\ u \in Users
  BY <1>1
<1>3. SUFFICES \/ Owed(u)' \subseteq Owed(u)
               \/ Cardinality(Owed(u)') <= MaxStages + (Cardinality(Requests) - 1)
  BY <1>2, OwedShrinks
<1>4. WorkflowTypeOK /\ Serial
  BY DEF WorkflowInv
<1>5. CASE UNCHANGED request /\ entered' = entered
  BY <1>2, <1>5, NobodyPasses DEF Open
<1>6. ASSUME NEW q \in Requests, NEW v \in Users \cup {System}, NEW e \in Endpoints, Ask(q, v, e)
      PROVE  Owed(u)' \subseteq Owed(u)
  <2>1. request'[q].step \in {"asked", "overriding", "writing"}
    BY <1>4, <1>6 DEF Ask, WorkflowTypeOK
  <2>2. \A p \in Requests \ {q} : request'[p] = request[p]
    BY <1>4, <1>6 DEF Ask, WorkflowTypeOK
  <2>3. entered' = entered
    BY <1>6 DEF Ask, history
  <2> QED BY <1>2, <2>1, <2>2, <2>3, NobodyPasses DEF Open
<1>7. ASSUME NEW q \in Requests, CheckDuties(q)
      PROVE  \/ Owed(u)' \subseteq Owed(u)
             \/ Cardinality(Owed(u)') <= MaxStages + (Cardinality(Requests) - 1)
  <2>1. Open(q) /\ request[q].step = "asked" /\ UNCHANGED <<tables, history>> /\ entered' = entered
    BY <1>7 DEF CheckDuties, Serving, Open, history
  <2>2. CASE Done(q)
    BY <1>2, <2>1, <2>2, GoneOrOn
  <2>3. ASSUME NEW step \in {"cleared", "moving"}, Goto(q, step),
               Cardinality(involved[request[q].by] \cup StageOf(request[q].to)) <= MaxStages
        PROVE  \/ Owed(u)' \subseteq Owed(u)
               \/ Cardinality(Owed(u)') <= MaxStages + (Cardinality(Requests) - 1)
    <3>1. CASE request[q].by = u
      BY <1>2, <2>1, <2>3, <3>1, PassingKeepsLimit
    <3>2. CASE request[q].by # u
      <4>1. step \in Steps
        BY DEF Steps
      <4>2. /\ \A p \in Requests \ {q} : request'[p] = request[p]
            /\ request'[q] = [request[q] EXCEPT !.step = step] /\ request[q] \in RequestRecord
        BY <1>4, <2>1, <2>3, <4>1, OneGoes
      <4>3. request'[q].by # u
        BY <3>2, <4>2 DEF RequestRecord
      <4> QED BY <1>2, <2>1, <4>2, <4>3, NobodyPasses DEF Open
    <3> QED BY <3>1, <3>2
  <2> QED BY <1>7, <2>2, <2>3 DEF CheckDuties
<1>8. ASSUME NEW q \in Requests, CheckAssessment(q) \/ Log(q) \/ LogRefused(q) \/ Track(q)
                                 \/ WriteDirectly(q) \/ Fail(q)
      PROVE  Owed(u)' \subseteq Owed(u)
  <2>1. Open(q) /\ entered'[u] = entered[u]
    <3>1. Open(q)
      BY <1>8 DEF CheckAssessment, Log, LogRefused, Track, WriteDirectly, Fail, Serving, Open
    <3>2. Breaks(request[q].by) => u # request[q].by
      BY DEF Breaks
    <3>3. Breaks(request[q].by) => entered'[u] = entered[u]
      BY <1>2, <1>4, <3>2 DEF Breaks, WorkflowTypeOK
    <3>4. Breaks(request[q].by) \/ entered' = entered
      BY <1>8 DEF CheckAssessment, Log, LogRefused, Track, WriteDirectly, Fail, history
    <3> QED BY <3>1, <3>3, <3>4
  <2>2. "moving" \in Steps /\ "logged" \in Steps
    BY DEF Steps
  <2>3. \/ Done(q)
        \/ Goto(q, "moving") /\ request[q].step = "cleared"
        \/ Goto(q, "logged")
    BY <1>8 DEF CheckAssessment, Log, LogRefused, Track, WriteDirectly, Fail, Serving
  <2> QED BY <1>2, <2>1, <2>2, <2>3, GoneOrOn
<1>9. CASE UpdateClaimState \/ PipelineSetsState \/ PipelineStores \/ UNCHANGED vars
  BY <1>5, <1>9 DEF UpdateClaimState, PipelineSetsState, PipelineStores, vars
<1> QED BY <1>2, <1>6, <1>7, <1>8, <1>9, MoveOwes DEF WorkflowNext, EngineStep

(* The count of duties is read an await or two before it is used, and so a user who sends *)
(* several requests at once passes with each.  How far that goes: n requests that are     *)
(* served at a time take him at most n - 1 stages past maxSequentialStagesByUser.         *)
THEOREM OverlapCostsOneStageEach ==
  ASSUME IsFiniteSet(Requests), Requests # {}
  PROVE  WorkflowSpec
           => [](\A u \in Users \ broken :
                   Cardinality(entered[u]) <= MaxStages + (Cardinality(Requests) - 1))
<1>1. WorkflowInit => OwedInv
  <2> SUFFICES ASSUME WorkflowInit, NEW u \in Users
               PROVE  Cardinality(Owed(u)) <= MaxStages + (Cardinality(Requests) - 1)
    BY DEF OwedInv
  <2>1. Owed(u) = {}
    BY DEF WorkflowInit, Owed, StagesOf, Cleared, Open
  <2>2. Cardinality(Requests) \in Nat /\ Cardinality(Requests) # 0
    BY FS_CardinalityType, FS_EmptySet
  <2> QED BY <2>1, <2>2, FS_EmptySet, WorkflowAssumption DEF WorkflowAssumption
<1>2. WorkflowInv /\ OwedInv
        => \A u \in Users \ broken :
             Cardinality(entered[u]) <= MaxStages + (Cardinality(Requests) - 1)
  <2> SUFFICES ASSUME WorkflowInv, OwedInv, NEW u \in Users \ broken
               PROVE  Cardinality(entered[u]) <= MaxStages + (Cardinality(Requests) - 1)
    OBVIOUS
  <2>1. Owed(u) \subseteq Stages
    BY StageIsStage DEF Owed, StagesOf, WorkflowInv, WorkflowTypeOK
  <2>2. IsFiniteSet(Owed(u)) /\ entered[u] \subseteq Owed(u)
    BY <2>1, StagesFinite DEF Owed
  <2>3. IsFiniteSet(entered[u]) /\ Cardinality(entered[u]) <= Cardinality(Owed(u))
    BY <2>2, FS_Subset
  <2>4. /\ Cardinality(entered[u]) \in Nat /\ Cardinality(Owed(u)) \in Nat
        /\ Cardinality(Requests) \in Nat
    BY <2>2, <2>3, FS_CardinalityType
  <2> QED BY <2>3, <2>4, WorkflowAssumption DEF OwedInv, WorkflowAssumption
<1>3. WorkflowInv /\ OwedInv /\ [WorkflowNext]_vars => OwedInv'
  BY StepKeepsOwed
<1> QED BY <1>1, <1>2, <1>3, WorkflowInvariant, PTL DEF WorkflowSpec
=============================================================================
