-------------------------- MODULE StuckRecoveryProofs --------------------------
(***************************************************************************)
(* Proofs about the recovery job beside the pipeline (RecoverySpec), for   *)
(* every set of runs, claims and overlapping jobs: the job uses the        *)
(* semaphore only through triggerAiAssessment, its writes keep the types,  *)
(* it publishes reports as the pipeline does, its retries stay below the   *)
(* maximum and the number of jobs, it looks for all that the pipeline can  *)
(* leave behind, and all that can make it forget a retry is listed.        *)
(***************************************************************************)
EXTENDS StuckRecovery, AssessmentPipelineProofs

JobRecords == [case : Cases \union {"none"}, step : Steps, todo : SUBSET Claims,
               claim : Claims \union {"none"}]

\* The steps in which an invocation of the job has a claim at hand.
Busy == {"mark", "reset", "count", "dispatch", "write"}

\* A record an invocation of the job can have.
Proper(b) ==
  /\ b \in JobRecords
  /\ b.step \in Busy => b.claim \in Claims
  /\ b.step # "query" => b.case \in Cases
  /\ b.step = "write" => b.case \in Rewriting
  /\ b.step = "reset" => b.case \in HasReset

JobOK ==
  /\ job \in [Jobs -> JobRecords]
  /\ \A j \in Jobs : Proper(job[j])
  /\ staggered \subseteq Claims

\* Steps of the job that do not touch the pipeline or trigger a run, and
\* everything the pipeline and its users do.
PipeStep == [PipeNext \/ ServerRestart]_pipeVars

\* The write of one row by an invocation of the job.
JobWrite ==
  /\ \/ UNCHANGED row
     \/ \E c \in Claims : \E x \in Rows :
          /\ SetRow(c, x)
          /\ x.completed => row[c].completed
  /\ UNCHANGED <<slotVars, report, runVars>>

------------------------------------------------------------------------------
(* The records of the job. *)

LEMMA CaseNames ==
  /\ Len(CaseOrder) = 15
  /\ \A i \in 1..15 : CaseOrder[i] \in Cases
  /\ {"bootA", "bootB", "3", "5B", "1", "2", "4", "6", "7", "7b", "8", "9", "10", "11", "12"} = Cases
<1>1. Len(CaseOrder) = 15
  BY DEF CaseOrder
<1>2. \A i \in 1..15 : CaseOrder[i] \in Cases
  BY <1>1 DEF Cases
<1>3. {"bootA", "bootB", "3", "5B", "1", "2", "4", "6", "7", "7b", "8", "9", "10", "11", "12"} \subseteq Cases
  BY <1>1 DEF Cases, CaseOrder
<1>4. ASSUME NEW i \in 1..15
      PROVE  CaseOrder[i] \in {"bootA", "bootB", "3", "5B", "1", "2", "4", "6", "7", "7b", "8", "9", "10", "11", "12"}
  BY <1>4 DEF CaseOrder
<1> QED
  BY <1>1, <1>2, <1>3, <1>4 DEF Cases

LEMMA JobStates ==
  /\ Idle \in JobRecords /\ Idle.step = "query"
  /\ \A k \in Cases : At(k) \in JobRecords /\ At(k).step = "query"
  /\ \A k \in Cases : AfterCase(k) \in JobRecords /\ AfterCase(k).step = "query"
<1>1. Idle \in JobRecords /\ Idle.step = "query"
  BY DEF Idle, JobRecords, Steps
<1>2. ASSUME NEW k \in Cases
      PROVE  At(k) \in JobRecords /\ At(k).step = "query"
  BY DEF At, JobRecords, Steps
<1>3. ASSUME NEW k \in Cases
      PROVE  AfterCase(k) \in JobRecords /\ AfterCase(k).step = "query"
  <2>1. CASE k = CaseOrder[Len(CaseOrder)]
    BY <1>1, <2>1 DEF AfterCase
  <2>2. CASE k # CaseOrder[Len(CaseOrder)]
    <3> DEFINE i == CHOOSE i \in 1..Len(CaseOrder) : CaseOrder[i] = k
    <3>1. i \in 1..15 /\ CaseOrder[i] = k
      BY CaseNames DEF Cases
    <3> HIDE DEF i
    <3>2. 1 + i \in 1..15
      <4>1. i # 15
        BY <2>2, <3>1, CaseNames
      <4> QED
        BY <3>1, <4>1
    <3>3. CaseOrder[1 + i] \in Cases
      BY <3>2, CaseNames
    <3>4. AfterCase(k) = At(CaseOrder[1 + i])
      BY <2>2 DEF AfterCase, i
    <3> QED
      BY <3>3, <3>4, <1>2
  <2> QED
    BY <2>1, <2>2
<1> QED
  BY <1>1, <1>2, <1>3

(* What an invocation of the job does once it is done with a claim. *)
LEMMA AfterClaimOK ==
  ASSUME NEW b \in JobRecords, b.case \in Cases
  PROVE  Proper(AfterClaim(b)) /\ AfterClaim(b).step \in {"query", "next"}
<1>1. CASE b.todo = {}
  <2>1. AfterClaim(b) \in JobRecords /\ AfterClaim(b).step = "query"
    BY <1>1, JobStates DEF AfterClaim
  <2> QED
    BY <2>1 DEF Proper, Busy
<1>2. CASE b.todo # {}
  <2>1. /\ AfterClaim(b) \in JobRecords
        /\ AfterClaim(b).step = "next" /\ AfterClaim(b).case = b.case
    BY <1>2 DEF AfterClaim, JobRecords, Steps
  <2> QED
    BY <2>1 DEF Proper, Busy
<1> QED
  BY <1>1, <1>2

LEMMA QueryingOK ==
  ASSUME NEW b \in JobRecords, b.step = "query"
  PROVE  Proper(b)
BY DEF Proper, Busy

(* Giving one invocation of the job a proper record keeps all of them proper. *)
LEMMA JobUpdateOK ==
  ASSUME JobOK, NEW j \in Jobs, NEW b, Proper(b), UpdateJob(j, b), staggered' \subseteq Claims
  PROVE  JobOK'
<1>1. b \in JobRecords
  BY DEF Proper
<1>2. job' \in [Jobs -> JobRecords]
  BY <1>1 DEF JobOK, UpdateJob
<1>3. ASSUME NEW i \in Jobs
      PROVE  Proper(job'[i])
  <2>1. job'[i] = b \/ job'[i] = job[i]
    BY DEF JobOK, UpdateJob
  <2> QED
    BY <2>1 DEF JobOK
<1> QED
  BY <1>2, <1>3 DEF JobOK, Proper

------------------------------------------------------------------------------
(* The writes of the job. *)

(* What the job writes are rows, and it flags none completed. *)
LEMMA WrittenRows ==
  ASSUME NEW x \in Rows, NEW k \in Cases
  PROVE  /\ k \in Rewriting => Rewritten(k, x) \in Rows /\ (Rewritten(k, x).completed => x.completed)
         /\ GivenUp(k, x) \in Rows /\ (GivenUp(k, x).completed => x.completed)
         /\ k \in HasReset => PreReset(k, x) \in Rows /\ (PreReset(k, x).completed => x.completed)
         /\ [x EXCEPT !.retries = @ + 1, !.updated = 0] \in Rows
         /\ [x EXCEPT !.retries = @ + 1, !.updated = 0].completed = x.completed
<1>a. /\ "pending" \in DocStates /\ "intake_queue" \in WorkflowStates
      /\ "failed" \in DocStates /\ "intake_pending" \in DocStates /\ NoTime \in Clock \union {NoTime}
  BY DEF DocStates, WorkflowStates
<1>b. \A y \in Rows : \A n \in Nat : [y EXCEPT !.retries = n] \in Rows
  BY DEF Rows
<1>c. \A d \in DocStates : /\ BackToIntake(x, d) \in Rows
                            /\ BackToIntake(x, d).completed = x.completed
  BY FailureWrites
<1>d. /\ [BackToIntake(x, "intake_pending") EXCEPT !.completed = FALSE] \in Rows
      /\ [BackToIntake(x, "intake_pending") EXCEPT !.completed = FALSE].completed = FALSE
  <2> DEFINE y == BackToIntake(x, "intake_pending")
  <2>1. y \in Rows
    BY <1>a, <1>c
  <2> HIDE DEF y
  <2>2. [y EXCEPT !.completed = FALSE] \in Rows
    BY <2>1, ColumnWrites
  <2>3. [y EXCEPT !.completed = FALSE].completed = FALSE
    BY <2>1 DEF Rows
  <2> QED
    BY <2>2, <2>3 DEF y
<1>1. ASSUME k \in Rewriting
      PROVE  Rewritten(k, x) \in Rows /\ (Rewritten(k, x).completed => x.completed)
  <2>1. CASE k = "bootA"
    BY <2>1, <1>a, <1>c DEF Rewritten
  <2>2. CASE k = "3"
    <3>1. Rewritten(k, x) = [x EXCEPT !.status = "analysis_complete", !.dps = "ANALYSIS_COMPLETE",
                                      !.wf = "ai_assessment_completed", !.retries = 0, !.updated = 0]
      BY <2>2 DEF Rewritten
    <3> DEFINE y == [x EXCEPT !.status = "analysis_complete", !.dps = "ANALYSIS_COMPLETE",
                              !.wf = "ai_assessment_completed"]
    <3>2. y \in Rows
      BY ColumnWrites, ColumnValues
    <3>3. Rewritten(k, x) = [[y EXCEPT !.retries = 0] EXCEPT !.updated = 0]
      BY <3>1 DEF Rows
    <3> HIDE DEF y
    <3> DEFINE z == [y EXCEPT !.retries = 0]
    <3>4. z \in Rows
      BY <3>2, <1>b
    <3> HIDE DEF z
    <3>5. [z EXCEPT !.updated = 0] \in Rows
      BY <3>4, ColumnWrites, ColumnValues
    <3>6. Rewritten(k, x) \in Rows
      BY <3>3, <3>5 DEF z
    <3> QED
      BY <3>1, <3>6 DEF Rows
  <2>3. CASE k = "7"
    <3>1. Rewritten(k, x) = [BackToIntake(x, "intake_pending") EXCEPT !.completed = FALSE]
      BY <2>3 DEF Rewritten
    <3> QED
      BY <3>1, <1>d
  <2>4. CASE k = "7b"
    <3>1. Rewritten(k, x) = [BackToIntake(x, "intake_pending") EXCEPT !.completed = FALSE, !.beat = NoTime]
      BY <2>4 DEF Rewritten
    <3> DEFINE y == [BackToIntake(x, "intake_pending") EXCEPT !.completed = FALSE]
    <3>2. y \in Rows /\ y.completed = FALSE
      BY <1>d
    <3>3. Rewritten(k, x) = [y EXCEPT !.beat = NoTime]
      BY <3>1, <1>a, <1>c DEF Rows
    <3> HIDE DEF y
    <3>4. [y EXCEPT !.beat = NoTime] \in Rows
      BY <3>2, <1>a, ColumnWrites
    <3>5. [y EXCEPT !.beat = NoTime].completed = FALSE
      BY <3>2 DEF Rows
    <3> QED
      BY <3>3, <3>4, <3>5
  <2>5. CASE k = "9"
    <3>1. Rewritten(k, x) = [x EXCEPT !.dps = "ANALYSIS_COMPLETE", !.updated = 0]
      BY <2>5 DEF Rewritten
    <3>2. [x EXCEPT !.dps = "ANALYSIS_COMPLETE", !.updated = 0] \in Rows
      BY ColumnWrites, ColumnValues
    <3>3. [x EXCEPT !.dps = "ANALYSIS_COMPLETE", !.updated = 0].completed = x.completed
      BY DEF Rows
    <3> QED
      BY <3>1, <3>2, <3>3
  <2> QED
    BY <1>1, <2>1, <2>2, <2>3, <2>4, <2>5 DEF Rewriting
<1>2. GivenUp(k, x) \in Rows /\ (GivenUp(k, x).completed => x.completed)
  <2>1. CASE k = "bootA"
    BY <2>1, <1>a, <1>c DEF GivenUp
  <2>2. CASE k = "bootB"
    <3>1. GivenUp(k, x) = [Failed(x) EXCEPT !.triggered = FALSE]
      BY <2>2 DEF GivenUp
    <3>2. Failed(x) \in Rows /\ Failed(x).completed = x.completed
      BY FailureWrites
    <3>3. [Failed(x) EXCEPT !.triggered = FALSE] \in Rows
      BY <3>2, ColumnWrites
    <3>4. [Failed(x) EXCEPT !.triggered = FALSE].completed = Failed(x).completed
      BY <3>2 DEF Rows
    <3> QED
      BY <3>1, <3>2, <3>3, <3>4
  <2>3. CASE k # "bootA" /\ k # "bootB"
    <3> DEFINE y == [BackToIntake(x, "failed") EXCEPT !.triggered = FALSE]
    <3>1. y \in Rows
      BY <1>a, FailureWrites
    <3>2. GivenUp(k, x) = [y EXCEPT !.completed = FALSE]
      BY <2>3, <1>a, <1>c DEF GivenUp, Rows
    <3> HIDE DEF y
    <3>3. [y EXCEPT !.completed = FALSE] \in Rows
      BY <3>1, ColumnWrites
    <3>4. [y EXCEPT !.completed = FALSE].completed = FALSE
      BY <3>1 DEF Rows
    <3> QED
      BY <3>2, <3>3, <3>4
  <2> QED
    BY <2>1, <2>2, <2>3
<1>3. ASSUME k \in HasReset
      PROVE  PreReset(k, x) \in Rows /\ (PreReset(k, x).completed => x.completed)
  <2>1. Pending(x) \in Rows
    BY <1>a, ColumnWrites, ColumnValues DEF Pending
  <2>2. Pending(x).completed = FALSE
    BY DEF Pending, Rows
  <2>6. ASSUME NEW s \in Statuses, NEW w \in WorkflowStates
        PROVE  /\ [Pending(x) EXCEPT !.status = s, !.wf = w] \in Rows
               /\ [Pending(x) EXCEPT !.status = s, !.wf = w].completed = FALSE
    <3> DEFINE y == Pending(x)
    <3> HIDE DEF y
    <3>1. y \in Rows /\ y.completed = FALSE
      BY <2>1, <2>2 DEF y
    <3>2. [y EXCEPT !.status = s, !.wf = w] \in Rows
      BY <3>1, ColumnWrites
    <3>3. [y EXCEPT !.status = s, !.wf = w].completed = FALSE
      BY <3>1 DEF Rows
    <3> QED
      BY <3>2, <3>3 DEF y
  <2>3. CASE k \in {"5B", "2", "6"}
    BY <2>1, <2>2, <2>3 DEF PreReset
  <2>4. CASE k \in {"4", "8"}
    <3>1. PreReset(k, x) = [Pending(x) EXCEPT !.status = "assessment_in_progress",
                                              !.wf = "under_assessment"]
      BY <2>4 DEF PreReset
    <3>2. "assessment_in_progress" \in Statuses /\ "under_assessment" \in WorkflowStates
      BY ColumnValues
    <3>3. /\ [Pending(x) EXCEPT !.status = "assessment_in_progress", !.wf = "under_assessment"] \in Rows
          /\ [Pending(x) EXCEPT !.status = "assessment_in_progress", !.wf = "under_assessment"].completed = FALSE
      BY <3>2, <2>6
    <3> QED
      BY <3>1, <3>3
  <2>5. CASE k \in {"10", "11"}
    <3>1. PreReset(k, x) = [Pending(x) EXCEPT !.status = "intake_pending", !.wf = "intake_queue"]
      BY <2>5 DEF PreReset
    <3>2. "intake_pending" \in Statuses /\ "intake_queue" \in WorkflowStates
      BY ColumnValues
    <3>3. /\ [Pending(x) EXCEPT !.status = "intake_pending", !.wf = "intake_queue"] \in Rows
          /\ [Pending(x) EXCEPT !.status = "intake_pending", !.wf = "intake_queue"].completed = FALSE
      BY <3>2, <2>6
    <3> QED
      BY <3>1, <3>3
  <2> QED
    BY <1>3, <2>3, <2>4, <2>5 DEF HasReset
<1>4. /\ [x EXCEPT !.retries = @ + 1, !.updated = 0] \in Rows
      /\ [x EXCEPT !.retries = @ + 1, !.updated = 0].completed = x.completed
  <2>1. x.retries + 1 \in Nat
    BY DEF Rows
  <2>2. [x EXCEPT !.retries = x.retries + 1] \in Rows
    BY <2>1, <1>b
  <2>3. [x EXCEPT !.retries = @ + 1, !.updated = 0]
          = [[x EXCEPT !.retries = x.retries + 1] EXCEPT !.updated = 0]
    BY DEF Rows
  <2>4. [x EXCEPT !.retries = @ + 1, !.updated = 0].completed = x.completed
    BY DEF Rows
  <2> QED
    BY <2>2, <2>3, <2>4, ColumnWrites, ColumnValues
<1> QED
  BY <1>1, <1>2, <1>3, <1>4

(* A write of the job, whether it succeeds or not. *)
LEMMA WriteClaimOK ==
  ASSUME JobOK, row \in [Claims -> Rows], NEW j \in Jobs, job[j].step \in Busy,
         NEW x \in Rows, x.completed => row[job[j].claim].completed,
         WriteClaim(j, x), UNCHANGED <<slotVars, report, runVars, staggered>>
  PROVE  JobOK' /\ JobWrite
<1> DEFINE b == job[j]
<1>1. b \in JobRecords /\ b.case \in Cases /\ b.claim \in Claims
  BY DEF JobOK, Proper, Busy
<1>2. Proper(AfterClaim(b)) /\ Proper(At("3"))
  BY <1>1, AfterClaimOK, QueryingOK, JobStates, CaseNames
<1>3. staggered' \subseteq Claims
  BY DEF JobOK
<1>4. JobOK'
  <2>1. UpdateJob(j, AfterClaim(b)) \/ UpdateJob(j, At("3"))
    BY DEF WriteClaim
  <2> QED
    BY <1>2, <1>3, <2>1, JobUpdateOK
<1>5. JobWrite
  BY <1>1 DEF WriteClaim, JobWrite
<1> QED
  BY <1>4, <1>5

(* Each step of an invocation of the job writes a row, triggers a run, or leaves
   the pipeline alone. *)
LEMMA JobStepKind ==
  ASSUME JobOK, row \in [Claims -> Rows], NEW j \in Jobs, StartJob(j) \/ JobStep(j)
  PROVE  JobOK' /\ (PipeStep \/ JobWrite)
<1> DEFINE b == job[j]
<1>a. b \in JobRecords /\ Proper(b) /\ staggered \subseteq Claims
  BY DEF JobOK
<1>1. CASE StartJob(j)
  <2>1. Proper(At("3"))
    BY QueryingOK, JobStates, CaseNames
  <2> QED
    BY <1>1, <1>a, <2>1, JobUpdateOK DEF StartJob, PipeStep
<1>2. CASE Query(j)
  <2>1. b.case \in Cases
    BY <1>2, <1>a DEF Query, JobRecords
  <2>2. [b EXCEPT !.todo = Found(b.case)] \in JobRecords
        /\ [b EXCEPT !.todo = Found(b.case)].case = b.case
    BY <1>a DEF JobRecords, Found
  <2>3. Proper(AfterClaim([b EXCEPT !.todo = Found(b.case)]))
    BY <2>1, <2>2, AfterClaimOK
  <2>4. Proper(Aborted(b)) /\ Proper(AfterCase(b.case))
    BY <2>1, QueryingOK, JobStates, CaseNames DEF Aborted
  <2>5. JobOK'
    BY <1>2, <1>a, <2>3, <2>4, JobUpdateOK DEF Query
  <2> QED
    BY <1>2, <2>5 DEF Query, PipeStep
<1>3. CASE TakeNext(j)
  <2>1. b.step = "next" /\ b.case \in Cases
    BY <1>3, <1>a DEF TakeNext, Proper
  <2>2. PICK c \in b.todo :
          LET taken == [b EXCEPT !.todo = @ \ {c}, !.claim = c] IN
          \/ /\ UpdateJob(j, [taken EXCEPT !.step = FirstStep(b.case)])
             /\ UNCHANGED staggered
          \/ /\ staggered' = staggered \union {c}
             /\ UpdateJob(j, AfterClaim(taken))
          \/ /\ UpdateJob(j, [taken EXCEPT !.step = "mark"])
             /\ UNCHANGED staggered
    BY <1>3 DEF TakeNext
  <2> DEFINE taken == [b EXCEPT !.todo = @ \ {c}, !.claim = c]
  <2>3. c \in Claims
    BY <1>a, <2>2 DEF JobRecords
  <2>4. taken \in JobRecords /\ taken.case = b.case /\ taken.claim = c
    BY <1>a, <2>3 DEF JobRecords
  <2>5. staggered' \subseteq Claims
    BY <1>a, <2>2, <2>3
  <2> HIDE DEF taken
  <2>6. ASSUME NEW t \in Steps, t = "write" => b.case \in Rewriting,
               t = "reset" => b.case \in HasReset
        PROVE  Proper([taken EXCEPT !.step = t])
    <3>1. /\ [taken EXCEPT !.step = t] \in JobRecords
          /\ [taken EXCEPT !.step = t].claim = c
          /\ [taken EXCEPT !.step = t].case = b.case
          /\ [taken EXCEPT !.step = t].step = t
      BY <2>4 DEF JobRecords
    <3> QED
      BY <3>1, <2>1, <2>3, <2>6 DEF Proper
  <2>7. Proper([taken EXCEPT !.step = FirstStep(b.case)])
    BY <2>6 DEF FirstStep, Steps
  <2>8. Proper([taken EXCEPT !.step = "mark"])
    BY <2>6 DEF Steps
  <2>9. Proper(AfterClaim(taken))
    BY <2>1, <2>4, AfterClaimOK
  <2>10. \/ UpdateJob(j, [taken EXCEPT !.step = FirstStep(b.case)])
         \/ UpdateJob(j, AfterClaim(taken))
         \/ UpdateJob(j, [taken EXCEPT !.step = "mark"])
    BY <2>2 DEF taken
  <2>11. JobOK'
    BY <2>5, <2>7, <2>8, <2>9, <2>10, JobUpdateOK
  <2> QED
    BY <1>3, <2>11 DEF TakeNext, PipeStep
<1>4. ASSUME b.step \in Busy
      PROVE  b.claim \in Claims /\ b.case \in Cases /\ row[b.claim] \in Rows
  BY <1>4, <1>a DEF Proper, Busy
<1>5. CASE Rewrite(j)
  <2>1. b.step = "write" /\ b.step \in Busy
    BY <1>5 DEF Rewrite, Busy
  <2>2. b.case \in Rewriting
    BY <1>a, <2>1 DEF Proper
  <2>3. /\ Rewritten(b.case, row[b.claim]) \in Rows
        /\ Rewritten(b.case, row[b.claim]).completed => row[b.claim].completed
    BY <1>4, <2>1, <2>2, WrittenRows
  <2> QED
    BY <1>5, <2>1, <2>3, WriteClaimOK DEF Rewrite
<1>6. CASE GiveUp(j)
  <2>1. b.step \in Busy
    BY <1>6 DEF GiveUp, Busy
  <2>2. /\ GivenUp(b.case, row[b.claim]) \in Rows
        /\ GivenUp(b.case, row[b.claim]).completed => row[b.claim].completed
    BY <1>4, <2>1, WrittenRows
  <2> QED
    BY <1>6, <2>1, <2>2, WriteClaimOK DEF GiveUp
<1>7. ASSUME NEW t \in {"count", "dispatch"}, b.step \in Busy
      PROVE  Proper([b EXCEPT !.step = t])
  <2>1. /\ [b EXCEPT !.step = t] \in JobRecords
        /\ [b EXCEPT !.step = t].claim = b.claim
        /\ [b EXCEPT !.step = t].case = b.case
        /\ [b EXCEPT !.step = t].step = t
    BY <1>a DEF JobRecords, Steps
  <2> QED
    BY <2>1, <1>4, <1>7 DEF Proper
<1>8. CASE ResetClaim(j)
  <2>1. b.step = "reset" /\ b.step \in Busy
    BY <1>8 DEF ResetClaim, Busy
  <2>2. b.case \in HasReset /\ b.claim \in Claims /\ row[b.claim] \in Rows /\ b.case \in Cases
    BY <1>a, <1>4, <2>1 DEF Proper
  <2>3. /\ PreReset(b.case, row[b.claim]) \in Rows
        /\ PreReset(b.case, row[b.claim]).completed => row[b.claim].completed
    BY <2>2, WrittenRows
  <2>4. JobWrite
    BY <1>8, <2>2, <2>3 DEF ResetClaim, JobWrite, TryUpdate
  <2>5. Proper([b EXCEPT !.step = "count"]) /\ Proper(AfterClaim(b))
    BY <1>7, <1>a, <2>1, <2>2, AfterClaimOK
  <2>6. UpdateJob(j, [b EXCEPT !.step = "count"]) \/ UpdateJob(j, AfterClaim(b))
    BY <1>8 DEF ResetClaim
  <2>7. staggered' \subseteq Claims
    BY <1>8, <1>a DEF ResetClaim
  <2> QED
    BY <2>4, <2>5, <2>6, <2>7, JobUpdateOK
<1>9. CASE CountRetry(j)
  <2> DEFINE x == [row[b.claim] EXCEPT !.retries = @ + 1, !.updated = 0]
  <2>1. b.step \in Busy
    BY <1>9 DEF CountRetry, Busy
  <2>2. x \in Rows /\ x.completed = row[b.claim].completed
    BY <1>4, <2>1, WrittenRows
  <2>3. JobWrite
    <3>1. TryUpdate(b.claim, x)
      BY <1>9 DEF CountRetry
    <3> HIDE DEF x
    <3> QED
      BY <1>9, <1>4, <2>1, <2>2, <3>1 DEF CountRetry, JobWrite, TryUpdate
  <2>4. UpdateJob(j, [b EXCEPT !.step = "dispatch"]) /\ staggered' \subseteq Claims
    BY <1>9, <1>a DEF CountRetry
  <2> QED
    BY <1>7, <2>1, <2>3, <2>4, JobUpdateOK
<1>10. CASE Dispatch(j)
  <2>1. b.step \in Busy
    BY <1>10 DEF Dispatch, Busy
  <2>2. PipeStep
    BY <1>10, <1>4, <2>1 DEF Dispatch, PipeStep, PipeNext, Trigger
  <2>3. UpdateJob(j, AfterClaim(b)) /\ staggered' \subseteq Claims
    BY <1>10, <1>a DEF Dispatch
  <2>4. Proper(AfterClaim(b))
    BY <1>a, <1>4, <2>1, AfterClaimOK
  <2> QED
    BY <2>2, <2>3, <2>4, JobUpdateOK
<1> QED
  BY <1>1, <1>2, <1>3, <1>5, <1>6, <1>8, <1>9, <1>10 DEF JobStep

(* So does each step of the whole system. *)
LEMMA RecoveryStepKind ==
  ASSUME JobOK, row \in [Claims -> Rows], [RecoveryNext]_recoveryVars
  PROVE  JobOK' /\ (PipeStep \/ JobWrite \/ Tick)
<1>1. CASE PipeNext /\ UNCHANGED <<job, staggered>>
  BY <1>1 DEF JobOK, PipeStep
<1>2. ASSUME NEW j \in Jobs, StartJob(j) \/ JobStep(j)
      PROVE  JobOK' /\ (PipeStep \/ JobWrite)
  BY <1>2, JobStepKind
<1>3. ASSUME NEW c \in Claims, FireStaggered(c)
      PROVE  JobOK' /\ (PipeStep \/ JobWrite)
  BY <1>3 DEF FireStaggered, JobOK, PipeStep, PipeNext, Trigger
<1>4. CASE RestartAndClean
  <2>1. Proper(At("bootA")) /\ Proper(Idle)
    BY QueryingOK, JobStates, CaseNames
  <2>2. JobOK'
    BY <1>4, <2>1 DEF RestartAndClean, JobOK, Proper
  <2> QED
    BY <1>4, <2>2 DEF RestartAndClean, PipeStep
<1>5. CASE UNCHANGED recoveryVars
  BY <1>5 DEF recoveryVars, JobOK, PipeStep
<1>6. CASE Tick
  BY <1>6 DEF Tick, JobOK
<1> QED
  BY <1>1, <1>2, <1>3, <1>4, <1>5, <1>6 DEF RecoveryNext

------------------------------------------------------------------------------
(* The invariants of the pipeline hold beside the job. *)

RecoveryInv == PipeInv /\ JobOK

LEMMA JobWriteKeeps ==
  ASSUME PipeInv, JobWrite
  PROVE  PipeInv' /\ NoneCompleted /\ UNCHANGED <<slotVars, report, target, at, succeeded>>
<1>1. UNCHANGED <<slotVars, report, target, at, succeeded>>
  BY DEF JobWrite, runVars
<1>2. NoneCompleted
  BY QuietWrite, NoWrite DEF JobWrite, PipeInv, PipeDataOK
<1>3. PipeDataOK'
  BY <1>2 DEF JobWrite, runVars, PipeInv, PipeDataOK, NoneCompleted
<1>4. SlotInv'
  BY <1>1, SlotStepKeeps DEF PipeInv
<1>5. StopsMatchSlots'
  BY <1>1 DEF PipeInv, StopsMatchSlots, slotVars
<1> QED
  BY <1>1, <1>2, <1>3, <1>4, <1>5 DEF PipeInv

(* Time passing changes the clocks of the rows and nothing else. *)
LEMMA TickKeeps ==
  ASSUME PipeInv, Tick
  PROVE  PipeInv' /\ NoneCompleted /\ UNCHANGED <<slotVars, report, target, at, succeeded>>
<1> DEFINE x(c) == [row[c] EXCEPT !.updated = Older(row[c].updated),
                                  !.started = Older(row[c].started),
                                  !.beat = Older(row[c].beat)]
<1>1. ASSUME NEW n \in Clock \union {NoTime}
      PROVE  Older(n) \in Clock \union {NoTime} /\ (n \in Clock => Older(n) \in Clock)
  BY PipelineAssumption DEF Older, Clock, NoTime, PipelineAssumption
<1>2. ASSUME NEW c \in Claims
      PROVE  x(c) \in Rows /\ x(c).completed = row[c].completed
  <2>1. /\ row[c] \in Rows
        /\ row[c].updated \in Clock
        /\ row[c].started \in Clock \union {NoTime}
        /\ row[c].beat \in Clock \union {NoTime}
    BY DEF PipeInv, PipeDataOK, Rows
  <2>2. x(c) \in Rows
    BY <2>1, <1>1, ColumnWrites
  <2>3. x(c).completed = row[c].completed
    BY <2>1 DEF Rows
  <2> QED
    BY <2>2, <2>3
<1>3. row' = [c \in Claims |-> x(c)]
  BY Zenon DEF Tick
<1>4. UNCHANGED <<slotVars, report, runVars>>
  BY DEF Tick
<1> HIDE DEF x
<1>5. NoneCompleted
  BY <1>2, <1>3 DEF NoneCompleted
<1>6. PipeDataOK'
  BY <1>2, <1>3, <1>4 DEF runVars, PipeInv, PipeDataOK
<1>7. SlotInv'
  BY <1>4, SlotStepKeeps DEF PipeInv
<1>8. StopsMatchSlots'
  BY <1>4 DEF PipeInv, StopsMatchSlots, slotVars, runVars
<1> QED
  BY <1>4, <1>5, <1>6, <1>7, <1>8 DEF PipeInv, runVars

LEMMA RecoveryInvInit == RecoveryInit => RecoveryInv
<1>1. Proper(Idle)
  BY QueryingOK, JobStates
<1> QED
  BY <1>1, PipeInvInit DEF RecoveryInit, RecoveryInv, JobOK, Proper

LEMMA RecoveryInvStep == RecoveryInv /\ [RecoveryNext]_recoveryVars => RecoveryInv'
<1> SUFFICES ASSUME RecoveryInv, [RecoveryNext]_recoveryVars PROVE RecoveryInv'
  OBVIOUS
<1>1. JobOK' /\ (PipeStep \/ JobWrite \/ Tick)
  BY RecoveryStepKind DEF RecoveryInv, PipeInv, PipeDataOK
<1>2. PipeInv'
  BY <1>1, PipeInvStep, JobWriteKeeps, TickKeeps DEF RecoveryInv, PipeStep
<1> QED
  BY <1>1, <1>2 DEF RecoveryInv

(* Startup cleanup, interval, HTTP endpoint and every case of the job write
   values of the columns' types, and the job's own state stays well formed. *)
THEOREM RecoveryTypes == RecoverySpec => []RecoveryTypeOK
<1>1. RecoveryInv => RecoveryTypeOK
  BY DEF RecoveryInv, PipeInv, SlotInv, PipeDataOK, PipeTypeOK, RecoveryTypeOK, JobOK, JobRecords
<1> QED
  BY <1>1, RecoveryInvInit, RecoveryInvStep, PTL DEF RecoverySpec

(* However many jobs overlap, the recovery job takes and gives back slots only
   through triggerAiAssessment, as PipelineSlots says. *)
THEOREM RecoveryUsesSlots == RecoverySpec => UsesSlots
<1>1. RecoveryInit => SlotsInit
  BY DEF RecoveryInit, PipeInit
<1>2. RecoveryInv /\ [RecoveryNext]_recoveryVars => [SlotsNext]_slotVars
  <2> SUFFICES ASSUME RecoveryInv, [RecoveryNext]_recoveryVars PROVE [SlotsNext]_slotVars
    OBVIOUS
  <2>1. PipeStep \/ JobWrite \/ Tick
    BY RecoveryStepKind DEF RecoveryInv, PipeInv, PipeDataOK
  <2> QED
    BY <2>1, StepUsesSlots DEF PipeStep, JobWrite, Tick
<1> QED
  BY <1>1, <1>2, RecoveryInvInit, RecoveryInvStep, PTL DEF RecoverySpec, UsesSlots, SlotsSpec

(* So all that the semaphore promises it promises in the whole system, whoever triggers
   runs, overlaps, fails or restarts: the counter is right and bounds the admitted runs, no
   waiter is stranded or overtaken, and it is the abstract admission. *)
THEOREM RecoverySlotsHold ==
  RecoverySpec => /\ [](SlotAccounting /\ AtMostMax /\ NoLostWakeup /\ QueueIsTheWaiters)
                  /\ FirstComeFirstServed /\ ImplementsAdmission
<1>1. UsesSlots <=> SlotsSpec
  BY DEF UsesSlots
<1> QED
  BY <1>1, RecoveryUsesSlots, SlotAccountingHolds, AtMostMaxHolds, NoLostWakeupHolds,
     QueueIsTheWaitersHolds, FirstComeFirstServedHolds, ImplementsAdmissionHolds, PTL

(* And every invocation stands where its slot says, also those the job triggers. *)
THEOREM RecoveryStopsMatchSlots == RecoverySpec => []StopsMatchSlots
<1>1. RecoveryInv => StopsMatchSlots
  BY DEF RecoveryInv, PipeInv
<1> QED
  BY <1>1, RecoveryInvInit, RecoveryInvStep, PTL DEF RecoverySpec

(* Beside the runs, no write that completes nothing disturbs reports and flags. *)
LEMMA KeepsReportInv ==
  ASSUME PipeDataOK, ReportInv, NoneCompleted, UNCHANGED <<slotVars, report, target, at, succeeded>>
  PROVE  ReportInv'
<1>1. \A r \in Runs : succeeded'[r] => succeeded[r] /\ at'[r] \in {"finalised", "leavingOk"}
  BY DEF ReportInv
<1> QED
  BY <1>1, QuietStepReport

(* With one run at a time on a claim, the job and what it triggers keep reports and flags
   in line. *)
LEMMA ReportInvKept ==
  ASSUME OneRunPerClaim, RecoveryInv, ReportInv, [RecoveryNext]_recoveryVars
  PROVE  ReportInv'
<1>1. PipeInv /\ PipeDataOK
  BY DEF RecoveryInv, PipeInv
<1>2. PipeStep \/ JobWrite \/ Tick
  BY <1>1, RecoveryStepKind DEF RecoveryInv, PipeDataOK
<1>3. CASE PipeStep
  BY <1>1, <1>3, ReportInvStep DEF PipeStep
<1>4. CASE JobWrite
  BY <1>1, <1>4, JobWriteKeeps, KeepsReportInv
<1>5. CASE Tick
  BY <1>1, <1>5, TickKeeps, KeepsReportInv
<1> QED
  BY <1>2, <1>3, <1>4, <1>5

(* No case of the recovery job, stale or overlapping another, leaves a claim flagged
   completed whose report is deleted, a stub or missing, however many pipelines may run,
   as long as no two of them work on the same claim. *)
THEOREM RecoveryKeepsReportsUnlessTwice ==
  RecoverySpec /\ []OneRunPerClaim => []CompletedHasReport
<1>1. RecoveryInit => ReportInv
  BY ReportInvInit DEF RecoveryInit
<1>2. OneRunPerClaim /\ RecoveryInv /\ ReportInv /\ [RecoveryNext]_recoveryVars => ReportInv'
  BY ReportInvKept
<1>3. ReportInv => CompletedHasReport
  BY DEF ReportInv
<1> QED
  BY <1>1, <1>2, <1>3, RecoveryInvInit, RecoveryInvStep, PTL DEF RecoverySpec

(* One slot keeps runs apart, whoever triggers them: users, intake, overlapping jobs, the
   timers of the startup cleanup. *)
THEOREM RecoveryOneSlotKeepsRunsApart ==
  ASSUME MaxConcurrent = 1
  PROVE  RecoverySpec => []OneRunPerClaim
<1>1. RecoveryInv => OneRunPerClaim
  BY OneSlotOneRun DEF RecoveryInv
<1> QED
  BY <1>1, RecoveryInvInit, RecoveryInvStep, PTL DEF RecoverySpec

(* With MAX_CONCURRENT_PIPELINES = 1 the reports are safe without condition. *)
THEOREM RecoveryKeepsReports ==
  ASSUME MaxConcurrent = 1
  PROVE  RecoverySpec => []CompletedHasReport
BY RecoveryKeepsReportsUnlessTwice, RecoveryOneSlotKeepsRunsApart, PTL

\* A step of the job or of the clock keeps the flag of every row but one.
LEMMA RecoveryStepPublishes ==
  ASSUME RecoveryInv, ReportInv, [RecoveryNext]_recoveryVars
  PROVE  [Published!Next]_(Published!vars)
<1>1. PipeInv /\ PipeDataOK
  BY DEF RecoveryInv, PipeInv
<1>2. PipeStep \/ JobWrite \/ Tick
  BY <1>1, RecoveryStepKind DEF RecoveryInv, PipeDataOK
<1>3. CASE PipeStep
  BY <1>1, <1>3, StepPublishes DEF PipeStep
<1>4. CASE JobWrite
  <2>1. NoneCompleted /\ UNCHANGED report
    BY <1>1, <1>4, JobWriteKeeps
  <2>2. \E c \in Claims : \A d \in Claims \ {c} : row'[d] = row[d]
    <3>1. CASE UNCHANGED row
      BY <3>1, PipelineAssumption DEF PipelineAssumption
    <3>2. CASE \E c \in Claims : \E x \in Rows : SetRow(c, x)
      BY <1>1, <3>2 DEF SetRow, PipeDataOK
    <3> QED
      BY <1>4, <3>1, <3>2 DEF JobWrite
  <2> QED
    BY <1>1, <2>1, <2>2, QuietStepPublishes
<1>5. CASE Tick
  <2>1. NoneCompleted /\ UNCHANGED report
    BY <1>1, <1>5, TickKeeps
  <2>2. \A d \in Claims : row'[d].completed = row[d].completed
    BY <1>1, <1>5 DEF Tick, PipeDataOK, Rows
  <2> QED
    BY <1>1, <2>1, <2>2, QuietStepPublishes, PipelineAssumption DEF PipelineAssumption
<1> QED
  BY <1>2, <1>3, <1>4, <1>5

(* Also with the recovery job beside the pipeline, overlapping and failing as it likes, the
   tables are a published report: the job only ever withdraws. *)
THEOREM RecoveryPublishesUnlessTwice ==
  RecoverySpec /\ []OneRunPerClaim => ImplementsPublishedReport
<1>1. RecoveryInit => ReportInv /\ Published!Init
  BY ReportInvInit, InitPublishes DEF RecoveryInit
<1>2. OneRunPerClaim /\ RecoveryInv /\ ReportInv /\ [RecoveryNext]_recoveryVars => ReportInv'
  BY ReportInvKept
<1>3. RecoveryInv /\ ReportInv /\ [RecoveryNext]_recoveryVars
        => [Published!Next]_(Published!vars)
  BY RecoveryStepPublishes
<1> QED
  BY <1>1, <1>2, <1>3, RecoveryInvInit, RecoveryInvStep, PTL
  DEF RecoverySpec, ImplementsPublishedReport, Published!Spec

------------------------------------------------------------------------------
(* Who may fail a claim that has completed, beside the job. *)

\* The startup cleanup is about to mark claim c, which has no retry left, as failed.
CleanupGivesUp(c) ==
  \E j \in Jobs : job[j].case = "bootB" /\ job[j].step = "mark" /\ job[j].claim = c

(* Of all the writes of the job, only Part B of the startup cleanup fails a claim. *)
LEMMA WrittenStatus ==
  ASSUME NEW x \in Rows, NEW k \in Cases
  PROVE  /\ k \in Rewriting => Rewritten(k, x).status \in {x.status, "intake_pending", "analysis_complete"}
         /\ k # "bootB" => GivenUp(k, x).status = "intake_pending"
         /\ k \in HasReset => PreReset(k, x).status \in {x.status, "assessment_in_progress", "intake_pending"}
         /\ [x EXCEPT !.retries = @ + 1, !.updated = 0].status = x.status
<1>1. k \in Rewriting => Rewritten(k, x).status \in {x.status, "intake_pending", "analysis_complete"}
  BY DEF Rewriting, Rewritten, BackToIntake, Rows
<1>2. k # "bootB" => GivenUp(k, x).status = "intake_pending"
  BY DEF GivenUp, BackToIntake, Rows
<1>3. k \in HasReset => PreReset(k, x).status \in {x.status, "assessment_in_progress", "intake_pending"}
  <2>1. k \in {"5B", "2", "6"} => PreReset(k, x).status = x.status
    BY DEF PreReset, Pending, Rows
  <2>2. k \in {"4", "8"} => PreReset(k, x).status = "assessment_in_progress"
    BY DEF PreReset, Pending, Rows
  <2>3. k \in {"10", "11"} => PreReset(k, x).status = "intake_pending"
    BY DEF PreReset, Pending, Rows
  <2> QED
    BY <2>1, <2>2, <2>3 DEF HasReset
<1>4. [x EXCEPT !.retries = @ + 1, !.updated = 0].status = x.status
  BY DEF Rows
<1> QED
  BY <1>1, <1>2, <1>3, <1>4

LEMMA JobStepFails ==
  ASSUME RecoveryInv, ReportInv, NEW j \in Jobs, StartJob(j) \/ JobStep(j), NEW c \in Claims,
         FailsCompleted(c)
  PROVE  WatchdogEnds(c) \/ CleanupGivesUp(c)
<1> DEFINE b == job[j]
           d == b.claim
<1>a. row \in [Claims -> Rows] /\ Proper(b) /\ PipeDataOK
  BY DEF RecoveryInv, PipeInv, PipeDataOK, JobOK
<1>b. \A x : SetRow(d, x) \/ TryUpdate(d, x) => d = c /\ x.status = "document_failed"
  BY <1>a DEF SetRow, TryUpdate, FailsCompleted
<1>c. ~UNCHANGED row
  BY DEF FailsCompleted
<1>d. b.step \in Busy => b.claim \in Claims /\ b.case \in Cases /\ row[d] \in Rows
  BY <1>a DEF Proper, Busy
<1>1. CASE Dispatch(j)
  <2>1. PipeStep
    BY <1>1, <1>d DEF Dispatch, PipeStep, PipeNext, Trigger, Busy
  <2> QED
    BY <1>a, <2>1, StepFails DEF PipeStep
<1>2. CASE Rewrite(j)
  <2>1. b.step \in Busy /\ b.case \in Rewriting
    BY <1>2, <1>a DEF Rewrite, Busy, Proper
  <2>2. Rewritten(b.case, row[d]).status # "document_failed" \/ d # c
    BY <2>1, <1>d, WrittenStatus DEF FailsCompleted
  <2> QED
    BY <1>2, <2>2, <1>b, <1>c DEF Rewrite, WriteClaim
<1>3. CASE GiveUp(j)
  <2>1. b.step = "mark" /\ b.step \in Busy
    BY <1>3 DEF GiveUp, Busy
  <2>2. d = c /\ GivenUp(b.case, row[d]).status = "document_failed"
    BY <1>3, <1>b, <1>c DEF GiveUp, WriteClaim
  <2>3. b.case = "bootB"
    BY <2>1, <2>2, <1>d, WrittenStatus
  <2> QED
    BY <2>1, <2>2, <2>3 DEF CleanupGivesUp
<1>4. CASE ResetClaim(j)
  <2>1. b.step \in Busy /\ b.case \in HasReset
    BY <1>4, <1>a DEF ResetClaim, Busy, Proper
  <2>2. PreReset(b.case, row[d]).status # "document_failed" \/ d # c
    BY <2>1, <1>d, WrittenStatus DEF FailsCompleted
  <2> QED
    BY <1>4, <2>2, <1>b, <1>c DEF ResetClaim
<1>5. CASE CountRetry(j)
  <2>1. b.step \in Busy
    BY <1>5 DEF CountRetry, Busy
  <2>2. [row[d] EXCEPT !.retries = @ + 1, !.updated = 0].status # "document_failed" \/ d # c
    BY <2>1, <1>d, WrittenStatus DEF FailsCompleted
  <2> QED
    BY <1>5, <2>2, <1>b DEF CountRetry
<1> QED
  BY <1>1, <1>2, <1>3, <1>4, <1>5, <1>c
  DEF JobStep, StartJob, Query, TakeNext, pipeVars, claimVars

(* With the recovery job beside the pipeline there is exactly one more writer that may fail a
   completed claim: Part B of the startup cleanup, which found the claim unfinished with its
   retries used up and writes an await later without looking again.  None of the cases of
   the periodic job does, stale or overlapping another. *)
THEOREM OnlyWatchdogAndCleanupFail ==
  RecoverySpec /\ []OneRunPerClaim
    => [][\A c \in Claims : FailsCompleted(c) => WatchdogEnds(c) \/ CleanupGivesUp(c)]_recoveryVars
<1>1. RecoveryInit => ReportInv
  BY ReportInvInit DEF RecoveryInit
<1>2. OneRunPerClaim /\ RecoveryInv /\ ReportInv /\ [RecoveryNext]_recoveryVars => ReportInv'
  BY ReportInvKept
<1>3. RecoveryInv /\ ReportInv /\ [RecoveryNext]_recoveryVars
        => [\A c \in Claims : FailsCompleted(c) => WatchdogEnds(c) \/ CleanupGivesUp(c)]_recoveryVars
  <2> SUFFICES ASSUME RecoveryInv, ReportInv, RecoveryNext, NEW c \in Claims, FailsCompleted(c)
               PROVE  WatchdogEnds(c) \/ CleanupGivesUp(c)
    OBVIOUS
  <2>a. PipeDataOK
    BY DEF RecoveryInv, PipeInv
  <2>1. CASE PipeNext \/ RestartAndClean \/ \E d \in Claims : FireStaggered(d)
    <3>1. PipeStep
      BY <2>1 DEF PipeStep, PipeNext, RestartAndClean, FireStaggered, Trigger
    <3> QED
      BY <2>a, <3>1, StepFails DEF PipeStep
  <2>2. ASSUME NEW j \in Jobs, StartJob(j) \/ JobStep(j)
        PROVE  WatchdogEnds(c) \/ CleanupGivesUp(c)
    BY <2>2, JobStepFails
  <2>3. ~Tick
    <3>1. ASSUME Tick PROVE row'[c].status = row[c].status
      BY <2>a, <3>1 DEF Tick, PipeDataOK, Rows
    <3> QED
      BY <3>1 DEF FailsCompleted
  <2> QED
    BY <2>1, <2>2, <2>3 DEF RecoveryNext
<1> QED
  BY <1>1, <1>2, <1>3, RecoveryInvInit, RecoveryInvStep, PTL DEF RecoverySpec

------------------------------------------------------------------------------
(* The retry counter, also when invocations of the job overlap. *)

KeepsRetries == \A c \in Claims : row'[c].retries = row[c].retries

(* Nothing but the job writes the retry counter. *)
LEMMA PipeKeepsRetries ==
  ASSUME PipeDataOK, PipeStep
  PROVE  KeepsRetries
<1>a. row \in [Claims -> Rows] /\ target \in [Runs -> Claims]
  BY DEF PipeDataOK
<1>b. ASSUME NEW c \in Claims, NEW x, x.retries = row[c].retries, TrySetRow(c, x) \/ SetRow(c, x)
      PROVE  KeepsRetries
  BY <1>a, <1>b DEF KeepsRetries, TrySetRow, SetRow
<1>c. UNCHANGED row => KeepsRetries
  BY DEF KeepsRetries
<1>d. ASSUME NEW x \in Rows
      PROVE  /\ Failed(x).retries = x.retries
             /\ \A d : /\ BackToIntake(x, d).retries = x.retries
                      /\ [BackToIntake(x, d) EXCEPT !.triggered = FALSE].retries = x.retries
  BY DEF Failed, BackToIntake, Rows
<1>1. ASSUME NEW r \in Runs, RunAction(r)
      PROVE  KeepsRetries
  <2> DEFINE c == target[r]
  <2>a. c \in Claims /\ row[c] \in Rows
    BY <1>a
  <2>1. CASE DeferForMemory(r) \/ NoConnection(r) \/ FailBeforeTry(r) \/ TimeOut(r)
             \/ OrchestratorEnds(r) \/ IncompleteResult(r) \/ DeletePrevious(r) \/ InsertReport(r)
             \/ Throw(r) \/ WatchdogFires(r) \/ RecordIncomplete(r) \/ FindTransient(r)
    BY <2>1, <1>c DEF DeferForMemory, NoConnection, FailBeforeTry, TimeOut, OrchestratorEnds,
       IncompleteResult, DeletePrevious, InsertReport, Throw, WatchdogFires, RecordIncomplete,
       FindTransient, claimVars
  <2>2. CASE CatchError(r) \/ WatchdogWrites(r) \/ FailIncomplete(r) \/ Finally(r)
    <3>1. UNCHANGED row \/ SetRow(c, row[c]) \/ SetRow(c, Failed(row[c]))
      BY <2>2 DEF CatchError, WatchdogWrites, FailIncomplete, Finally, Nets, TrySetRow
    <3> QED
      BY <3>1, <2>a, <1>b, <1>c, <1>d
  <2>3. CASE DeferralWrite(r) \/ CallerCatches(r)
    <3>1. UNCHANGED row \/ \E d : \/ SetRow(c, BackToIntake(row[c], d))
                                  \/ SetRow(c, [BackToIntake(row[c], d) EXCEPT !.triggered = FALSE])
      BY <2>3 DEF DeferralWrite, CallerCatches, TrySetRow
    <3> QED
      BY <3>1, <2>a, <1>b, <1>c, <1>d
  <2>b. \A y : (y.retries = row[c].retries /\ (TrySetRow(c, y) \/ SetRow(c, y))) => KeepsRetries
    BY <2>a, <1>b
  <2>4. CASE Validate(r) \/ AttemptRecovery(r)
    <3>1. \/ SetRow(c, [row[c] EXCEPT !.triggered = TRUE, !.completed = FALSE, !.updated = 0,
                              !.status = "document_validating", !.dps = "DOCUMENT_VALIDATING"])
          \/ TrySetRow(c, [row[c] EXCEPT !.status = "recovery_attempted", !.updated = 0,
                                 !.dps = "RECOVERY_ATTEMPTED"])
      BY <2>4 DEF Validate, AttemptRecovery
    <3>2. [row[c] EXCEPT !.triggered = TRUE, !.completed = FALSE, !.updated = 0,
                         !.status = "document_validating", !.dps = "DOCUMENT_VALIDATING"].retries
            = row[c].retries
      BY <2>a DEF Rows
    <3>3. [row[c] EXCEPT !.status = "recovery_attempted", !.updated = 0,
                         !.dps = "RECOVERY_ATTEMPTED"].retries = row[c].retries
      BY <2>a DEF Rows
    <3> QED
      BY <3>1, <3>2, <3>3, <2>b
  <2>5. CASE MarkReady(r) \/ Heartbeat(r)
    <3>1. \/ TrySetRow(c, [row[c] EXCEPT !.status = "document_ready", !.dps = "DOCUMENT_READY",
                                         !.updated = 0])
          \/ SetRow(c, [row[c] EXCEPT !.beat = Now, !.updated = 0])
      BY <2>5 DEF MarkReady, Heartbeat
    <3>2. /\ [row[c] EXCEPT !.status = "document_ready", !.dps = "DOCUMENT_READY",
                            !.updated = 0].retries = row[c].retries
          /\ [row[c] EXCEPT !.beat = Now, !.updated = 0].retries = row[c].retries
      BY <2>a DEF Rows
    <3> QED
      BY <3>1, <3>2, <2>b
  <2>6. CASE StartAnalysis(r) \/ StartOrchestrator(r) \/ ConfirmDocState(r)
    <3> DEFINE running == [row[c] EXCEPT !.status = "analysis_running", !.dps = "ANALYSIS_RUNNING",
                                         !.updated = 0]
               beating == [row[c] EXCEPT !.beat = Now, !.updated = 0]
               confirmed == [row[c] EXCEPT !.dps = "ANALYSIS_COMPLETE", !.updated = 0]
    <3>1. TrySetRow(c, running) \/ TrySetRow(c, beating) \/ TrySetRow(c, confirmed)
      BY <2>6 DEF StartAnalysis, StartOrchestrator, ConfirmDocState
    <3>2. /\ running.retries = row[c].retries
          /\ beating.retries = row[c].retries
          /\ confirmed.retries = row[c].retries
      BY <2>a DEF Rows
    <3> HIDE DEF running, beating, confirmed
    <3> QED
      BY <3>1, <3>2, <2>b
  <2>7. CASE Finalise(r)
    <3> DEFINE minimal == [row[c] EXCEPT !.completed = TRUE, !.status = "analysis_complete",
                                         !.dps = "ANALYSIS_COMPLETE", !.updated = 0]
               complete == [minimal EXCEPT !.wf = "ai_assessment_completed", !.beat = NoTime]
    <3>1. \E x \in {complete, minimal, row[c]} : SetRow(c, x)
      BY <2>7 DEF Finalise
    <3>2. minimal.retries = row[c].retries
      BY <2>a DEF Rows
    <3>3. complete.retries = row[c].retries
      BY <2>a DEF Rows
    <3> HIDE DEF minimal, complete
    <3> QED
      BY <3>1, <3>2, <3>3, <2>b
  <2> QED
    BY <1>1, <2>1, <2>2, <2>3, <2>4, <2>5, <2>6, <2>7 DEF RunAction, Progress
<1>2. ASSUME NEW r \in Runs, NEW c \in Claims, Trigger(r, c)
      PROVE  KeepsRetries
  <2>1. CASE TriggerInBackground(r, c) \/ TriggerFromIntake(r, c)
    BY <2>1, <1>c DEF TriggerInBackground, TriggerFromIntake
  <2>2. CASE TriggerManually(r, c) \/ TriggerReanalysis(r, c)
    <3> DEFINE manual == [row[c] EXCEPT !.triggered = TRUE, !.dps = "parsing", !.started = Now,
                                        !.updated = 0]
               again == [row[c] EXCEPT !.triggered = TRUE, !.completed = FALSE, !.dps = "parsing",
                                       !.started = Now, !.updated = 0]
    <3>1. TrySetRow(c, manual) \/ TrySetRow(c, again)
      BY <2>2 DEF TriggerManually, TriggerReanalysis
    <3>2. manual.retries = row[c].retries /\ again.retries = row[c].retries
      BY <1>a DEF Rows
    <3> HIDE DEF manual, again
    <3> QED
      BY <3>1, <3>2, <1>b
  <2> QED
    BY <1>2, <2>1, <2>2 DEF Trigger
<1>3. ASSUME NEW c \in Claims, UserAction(c)
      PROVE  KeepsRetries
  <2> DEFINE working == [row[c] EXCEPT !.status = "assessment_in_progress",
                                       !.wf = "under_assessment", !.updated = 0]
             assigned == [row[c] EXCEPT !.status = "assessment_pending", !.updated = 0]
             reset == [BackToIntake(row[c], "failed") EXCEPT !.triggered = FALSE]
  <2>1. \E x \in {row[c], working, assigned, reset} : SetRow(c, x)
    BY <1>3 DEF UserAction, MoveToAssessment, ResetStuckClaim, AssignAssessor
  <2>2. working.retries = row[c].retries /\ assigned.retries = row[c].retries
    BY <1>a DEF Rows
  <2>3. reset.retries = row[c].retries
    BY <1>a, <1>d
  <2> HIDE DEF working, assigned, reset
  <2> QED
    BY <2>1, <2>2, <2>3, <1>b
<1>4. CASE ServerRestart \/ UNCHANGED pipeVars \/ \E c \in Claims : RecordRerun(c)
  BY <1>4, <1>c DEF ServerRestart, RecordRerun, pipeVars, claimVars
<1> QED
  BY <1>1, <1>2, <1>3, <1>4 DEF PipeStep, PipeNext

\* The invocations of the job that have found a retry of claim c left and not yet counted it.
Counting(c) == {j \in Jobs : job[j].step \in {"reset", "count"} /\ job[j].claim = c}

\* A retry that is about to be counted counts already: the first of these invocations saw
\* less than the maximum, and the others were no more than there are invocations.
RetryInv ==
  \A c \in Claims :
    row[c].retries + Cardinality(Counting(c)) <= MaxRetries + (Cardinality(Jobs) - 1)

(* Sets of invocations are finite, and smaller sets have fewer. *)
LEMMA JobSets ==
  ASSUME NEW S \in SUBSET Jobs, NEW T \in SUBSET S
  PROVE  /\ Cardinality(S) \in Nat /\ Cardinality(T) \in Nat
         /\ Cardinality(T) <= Cardinality(S) /\ Cardinality(S) <= Cardinality(Jobs)
         /\ Cardinality(Jobs) \in Nat /\ Cardinality(Jobs) >= 1
         /\ \A j \in S : Cardinality(S \ {j}) = Cardinality(S) - 1
<1>1. IsFiniteSet(Jobs) /\ Jobs # {}
  BY RecoveryAssumption DEF RecoveryAssumption
<1>2. IsFiniteSet(S) /\ Cardinality(S) <= Cardinality(Jobs)
  BY <1>1, FS_Subset
<1>3. IsFiniteSet(T) /\ Cardinality(T) <= Cardinality(S)
  BY <1>2, FS_Subset
<1>4. Cardinality(S) \in Nat /\ Cardinality(T) \in Nat /\ Cardinality(Jobs) \in Nat
  BY <1>1, <1>2, <1>3, FS_CardinalityType
<1>5. Cardinality(Jobs) # 0
  BY <1>1, FS_EmptySet
<1>6. \A j \in S : Cardinality(S \ {j}) = Cardinality(S) - 1
  BY <1>2, FS_RemoveElement
<1> QED
  BY <1>2, <1>3, <1>4, <1>5, <1>6

(* An invocation that is not on its way to the count adds to none of these sets. *)
LEMMA NotCounting ==
  ASSUME job \in [Jobs -> JobRecords], NEW j \in Jobs, NEW x, UpdateJob(j, x),
         x.step \notin {"reset", "count"}, NEW c \in Claims
  PROVE  /\ Counting(c)' = Counting(c) \ {j}
         /\ Cardinality(Counting(c)') <= Cardinality(Counting(c))
         /\ Cardinality(Counting(c)') \in Nat /\ Cardinality(Counting(c)) \in Nat
<1>1. Counting(c)' = Counting(c) \ {j}
  BY DEF Counting, UpdateJob
<1>2. Counting(c) \subseteq Jobs
  BY DEF Counting
<1> QED
  BY <1>1, <1>2, JobSets

(* The writes of the job other than the count leave the counter, or clear it. *)
LEMMA WrittenRetries ==
  ASSUME NEW x \in Rows, NEW k \in Cases
  PROVE  /\ k \in Rewriting => Rewritten(k, x).retries \in {0, x.retries}
         /\ GivenUp(k, x).retries = x.retries
         /\ k \in HasReset => PreReset(k, x).retries = x.retries
         /\ [x EXCEPT !.retries = @ + 1, !.updated = 0].retries = x.retries + 1
<1>1. k \in Rewriting => Rewritten(k, x).retries \in {0, x.retries}
  BY DEF Rewriting, Rewritten, BackToIntake, Rows
<1>2. GivenUp(k, x).retries = x.retries
  BY DEF GivenUp, BackToIntake, Failed, Rows
<1>3. k \in HasReset => PreReset(k, x).retries = x.retries
  <2>1. k \in {"5B", "2", "6"} => PreReset(k, x).retries = x.retries
    BY DEF PreReset, Pending, Rows
  <2>2. k \in {"4", "8"} => PreReset(k, x).retries = x.retries
    BY DEF PreReset, Pending, Rows
  <2>3. k \in {"10", "11"} => PreReset(k, x).retries = x.retries
    BY DEF PreReset, Pending, Rows
  <2> QED
    BY <2>1, <2>2, <2>3 DEF HasReset
<1>4. [x EXCEPT !.retries = @ + 1, !.updated = 0].retries = x.retries + 1
  BY DEF Rows
<1> QED
  BY <1>1, <1>2, <1>3, <1>4

(* Every step of an invocation of the job keeps the bound. *)
LEMMA JobKeepsRetryInv ==
  ASSUME RecoveryInv, RetryInv, NEW j \in Jobs, StartJob(j) \/ JobStep(j)
  PROVE  RetryInv'
<1> DEFINE b == job[j]
<1>a. /\ row \in [Claims -> Rows] /\ job \in [Jobs -> JobRecords] /\ Proper(b) /\ b \in JobRecords
      /\ PipeDataOK /\ \A c \in Claims : row[c] \in Rows /\ row[c].retries \in Nat
  BY DEF RecoveryInv, PipeInv, PipeDataOK, JobOK, Rows
<1>b. MaxRetries \in Nat /\ Cardinality(Jobs) \in Nat /\ Cardinality(Jobs) >= 1
  BY RecoveryAssumption, JobSets DEF RecoveryAssumption
<1>c. ASSUME NEW x, UpdateJob(j, x), x.step \notin {"reset", "count"},
             \A c \in Claims : row'[c].retries \in {0, row[c].retries}
      PROVE  RetryInv'
  <2>1. ASSUME NEW c \in Claims
        PROVE  row'[c].retries + Cardinality(Counting(c)') <= MaxRetries + (Cardinality(Jobs) - 1)
    <3>1. /\ Cardinality(Counting(c)') <= Cardinality(Counting(c))
          /\ Cardinality(Counting(c)') \in Nat /\ Cardinality(Counting(c)) \in Nat
      BY <1>a, <1>c, NotCounting
    <3>2. /\ row[c].retries + Cardinality(Counting(c)) <= MaxRetries + (Cardinality(Jobs) - 1)
          /\ row[c].retries \in Nat /\ row'[c].retries \in {0, row[c].retries}
      BY <1>a, <1>c DEF RetryInv
    <3> QED
      BY <3>1, <3>2, <1>b
  <2> QED
    BY <2>1 DEF RetryInv
<1>d. KeepsRetries => \A c \in Claims : row'[c].retries \in {0, row[c].retries}
  BY DEF KeepsRetries
<1>e. UNCHANGED pipeVars => KeepsRetries
  BY DEF KeepsRetries, pipeVars, claimVars
<1>f. b.case \in Cases => AfterClaim(b).step \in {"query", "next"}
  BY <1>a, AfterClaimOK
<1>g. At("3").step = "query" /\ \A k \in Cases : AfterCase(k).step = "query"
  BY JobStates, CaseNames
<1>h. b.step \in Busy => b.claim \in Claims /\ b.case \in Cases /\ row[b.claim] \in Rows
  BY <1>a DEF Proper, Busy
<1>i. \A x : SetRow(b.claim, x) /\ b.claim \in Claims /\ x.retries \in {0, row[b.claim].retries}
               => \A c \in Claims : row'[c].retries \in {0, row[c].retries}
  BY <1>a DEF SetRow
<1>j. UNCHANGED row => \A c \in Claims : row'[c].retries \in {0, row[c].retries}
  OBVIOUS
<1>1. CASE StartJob(j)
  BY <1>1, <1>c, <1>d, <1>e, <1>g DEF StartJob
<1>2. CASE Query(j)
  <2>1. b.case \in Cases
    BY <1>2, <1>a DEF Query, JobRecords
  <2>2. [b EXCEPT !.todo = Found(b.case)] \in JobRecords
        /\ [b EXCEPT !.todo = Found(b.case)].case = b.case
    BY <1>a DEF JobRecords, Found
  <2>3. AfterClaim([b EXCEPT !.todo = Found(b.case)]).step \in {"query", "next"}
    BY <2>1, <2>2, AfterClaimOK
  <2>4. Aborted(b).step = "query" /\ AfterCase(b.case).step = "query"
    BY <2>1, <1>g, JobStates DEF Aborted
  <2>5. PICK x : UpdateJob(j, x) /\ x.step \in {"query", "next"}
    BY <1>2, <2>3, <2>4 DEF Query
  <2> QED
    BY <1>2, <2>5, <1>c, <1>d, <1>e DEF Query
<1>3. CASE TakeNext(j)
  <2>1. b.case \in Cases
    BY <1>3, <1>a DEF TakeNext, Proper
  <2>2. PICK c \in b.todo :
          LET taken == [b EXCEPT !.todo = @ \ {c}, !.claim = c] IN
          \/ /\ b.case \notin Rewriting \ {"bootA"} => CanRetrigger(c)
             /\ UpdateJob(j, [taken EXCEPT !.step = FirstStep(b.case)])
          \/ UpdateJob(j, AfterClaim(taken))
          \/ UpdateJob(j, [taken EXCEPT !.step = "mark"])
    BY <1>3 DEF TakeNext
  <2> DEFINE taken == [b EXCEPT !.todo = @ \ {c}, !.claim = c]
  <2>3. c \in Claims
    BY <1>a, <2>2 DEF JobRecords
  <2>4. taken \in JobRecords /\ taken.case = b.case /\ taken.claim = c
    BY <1>a, <2>3 DEF JobRecords
  <2>5. UNCHANGED pipeVars
    BY <1>3 DEF TakeNext
  <2>6. /\ \A t : [taken EXCEPT !.step = t].claim = c
        /\ \A t : [taken EXCEPT !.step = t].step = t
    BY <2>4 DEF JobRecords
  <2>7. CASE /\ b.case \notin Rewriting \ {"bootA"} => CanRetrigger(c)
             /\ UpdateJob(j, [taken EXCEPT !.step = FirstStep(b.case)])
             /\ FirstStep(b.case) \in {"reset", "count"}
    <3> HIDE DEF taken
    <3>1. row[c].retries < MaxRetries
      BY <2>7 DEF FirstStep, CanRetrigger
    <3>2. ASSUME NEW d \in Claims
          PROVE  row'[d].retries + Cardinality(Counting(d)') <= MaxRetries + (Cardinality(Jobs) - 1)
      <4>0. row'[d].retries = row[d].retries /\ row[d].retries \in Nat
        BY <2>5, <1>a DEF pipeVars, claimVars
      <4>1. CASE d = c
        <5>1. Counting(c)' \subseteq Jobs
          BY DEF Counting
        <5>2. Cardinality(Counting(c)') \in Nat /\ Cardinality(Counting(c)') <= Cardinality(Jobs)
          BY <5>1, JobSets
        <5> QED
          BY <3>1, <4>0, <4>1, <5>2, <1>b
      <4>2. CASE d # c
        <5>1. Counting(d)' \subseteq Counting(d) /\ Counting(d) \subseteq Jobs
          BY <4>2, <2>6, <2>7, <1>a DEF Counting, UpdateJob
        <5>2. /\ Cardinality(Counting(d)') \in Nat /\ Cardinality(Counting(d)) \in Nat
              /\ Cardinality(Counting(d)') <= Cardinality(Counting(d))
          BY <5>1, JobSets
        <5>3. row[d].retries + Cardinality(Counting(d)) <= MaxRetries + (Cardinality(Jobs) - 1)
          BY DEF RetryInv
        <5> QED
          BY <4>0, <5>2, <5>3, <1>b
      <4> QED
        BY <4>1, <4>2
    <3> QED
      BY <3>2 DEF RetryInv
  <2>8. CASE \E t : t \notin {"reset", "count"} /\ UpdateJob(j, [taken EXCEPT !.step = t])
    <3> HIDE DEF taken
    <3> QED
      BY <2>5, <2>6, <2>8, <1>c, <1>d, <1>e
  <2>9. CASE UpdateJob(j, AfterClaim(taken))
    <3>1. AfterClaim(taken).step \in {"query", "next"}
      BY <2>1, <2>4, AfterClaimOK
    <3> QED
      BY <3>1, <2>5, <2>9, <1>c, <1>d, <1>e
  <2> QED
    BY <2>2, <2>7, <2>8, <2>9
<1>4. CASE Rewrite(j)
  <2>1. b.step = "write" /\ b.step \in Busy /\ b.case \in Rewriting
    BY <1>4, <1>a DEF Rewrite, Busy, Proper
  <2>2. Rewritten(b.case, row[b.claim]).retries \in {0, row[b.claim].retries}
    BY <1>h, <2>1, WrittenRetries
  <2>3. PICK y : UpdateJob(j, y) /\ y.step \notin {"reset", "count"}
    BY <1>4, <1>f, <1>g, <1>h, <2>1 DEF Rewrite, WriteClaim
  <2>4. UNCHANGED row \/ SetRow(b.claim, Rewritten(b.case, row[b.claim]))
    BY <1>4 DEF Rewrite, WriteClaim
  <2> QED
    BY <1>c, <1>h, <1>i, <1>j, <2>1, <2>2, <2>3, <2>4
<1>5. CASE GiveUp(j)
  <2>1. b.step = "mark" /\ b.step \in Busy
    BY <1>5, <1>a DEF GiveUp, Busy
  <2>2. GivenUp(b.case, row[b.claim]).retries \in {0, row[b.claim].retries}
    BY <1>h, <2>1, WrittenRetries
  <2>3. PICK y : UpdateJob(j, y) /\ y.step \notin {"reset", "count"}
    BY <1>5, <1>f, <1>g, <1>h, <2>1 DEF GiveUp, WriteClaim
  <2>4. UNCHANGED row \/ SetRow(b.claim, GivenUp(b.case, row[b.claim]))
    BY <1>5 DEF GiveUp, WriteClaim
  <2> QED
    BY <1>c, <1>h, <1>i, <1>j, <2>1, <2>2, <2>3, <2>4
<1>6. CASE ResetClaim(j)
  <2>1. b.step = "reset" /\ b.step \in Busy /\ b.case \in HasReset
    BY <1>6, <1>a DEF ResetClaim, Busy, Proper
  <2>2. PreReset(b.case, row[b.claim]).retries = row[b.claim].retries
    BY <1>h, <2>1, WrittenRetries
  <2>3. KeepsRetries
    BY <1>6, <1>a, <1>h, <2>1, <2>2 DEF ResetClaim, TryUpdate, SetRow, KeepsRetries
  <2>4. [b EXCEPT !.step = "count"].claim = b.claim /\ [b EXCEPT !.step = "count"].step = "count"
    BY <1>a DEF JobRecords
  <2>5. CASE UpdateJob(j, [b EXCEPT !.step = "count"])
    <3> HIDE DEF b
    <3>1. \A c \in Claims : Counting(c)' = Counting(c)
      BY <1>a, <2>1, <2>4, <2>5 DEF Counting, UpdateJob, b
    <3> QED
      BY <2>3, <3>1 DEF RetryInv, KeepsRetries
  <2>6. CASE UpdateJob(j, AfterClaim(b))
    BY <2>1, <2>3, <2>6, <1>c, <1>d, <1>f, <1>h
  <2> QED
    BY <1>6, <2>5, <2>6 DEF ResetClaim
<1>7. CASE CountRetry(j)
  <2> DEFINE c == b.claim
             x == [row[c] EXCEPT !.retries = @ + 1, !.updated = 0]
             y == [b EXCEPT !.step = "dispatch"]
  <2>1. b.step = "count" /\ b.step \in Busy
    BY <1>7 DEF CountRetry, Busy
  <2>2. x.retries = row[c].retries + 1
    BY <1>h, <2>1, WrittenRetries
  <2>3. TryUpdate(c, x) /\ UpdateJob(j, y)
    BY <1>7 DEF CountRetry
  <2>4. y.step = "dispatch"
    BY <1>a DEF JobRecords
  <2>5. c \in Claims
    BY <1>h, <2>1
  <2>6. j \in Counting(c)
    BY <2>1 DEF Counting
  <2> HIDE DEF x, y
  <2>7. ASSUME NEW d \in Claims
        PROVE  row'[d].retries + Cardinality(Counting(d)') <= MaxRetries + (Cardinality(Jobs) - 1)
    <3>1. /\ Counting(d)' = Counting(d) \ {j}
          /\ Cardinality(Counting(d)') <= Cardinality(Counting(d))
          /\ Cardinality(Counting(d)') \in Nat /\ Cardinality(Counting(d)) \in Nat
      BY <1>a, <2>3, <2>4, NotCounting
    <3>2. /\ row[d].retries + Cardinality(Counting(d)) <= MaxRetries + (Cardinality(Jobs) - 1)
          /\ row[d].retries \in Nat
      BY <1>a DEF RetryInv
    <3>3. CASE d = c
      <4>1. Cardinality(Counting(d)') = Cardinality(Counting(d)) - 1
        <5>1. Counting(d) \subseteq Jobs
          BY DEF Counting
        <5> QED
          BY <2>6, <3>1, <3>3, <5>1, JobSets
      <4>2. row'[d].retries \in {row[d].retries, row[d].retries + 1}
        BY <1>a, <2>2, <2>3, <3>3 DEF TryUpdate, SetRow
      <4> QED
        BY <3>1, <3>2, <4>1, <4>2, <1>b
    <3>4. CASE d # c
      <4>1. row'[d].retries = row[d].retries
        BY <1>a, <2>3, <2>5, <3>4 DEF TryUpdate, SetRow
      <4> QED
        BY <3>1, <3>2, <4>1, <1>b
    <3> QED
      BY <3>3, <3>4
  <2> QED
    BY <2>7 DEF RetryInv
<1>8. CASE Dispatch(j)
  <2>1. b.step \in Busy
    BY <1>8 DEF Dispatch, Busy
  <2>2. PipeStep
    BY <1>8, <1>h, <2>1 DEF Dispatch, PipeStep, PipeNext, Trigger
  <2>3. UpdateJob(j, AfterClaim(b))
    BY <1>8 DEF Dispatch
  <2> QED
    BY <2>1, <2>2, <2>3, <1>a, <1>c, <1>d, <1>f, <1>h, PipeKeepsRetries
<1> QED
  BY <1>1, <1>2, <1>3, <1>4, <1>5, <1>6, <1>7, <1>8 DEF JobStep

(* "When the counter reaches MAX_RECOVERY_RETRIES (3) ... the recovery job will
   NOT re-trigger it again": true of every invocation of the job on its own.  Several that
   overlap can all see the last retry unused, so that n of them together may trigger a claim
   n - 1 times more, and never more often than that. *)
THEOREM RetriesBoundedHolds == RecoverySpec => []RetriesBounded
<1>a. MaxRetries \in Nat /\ Cardinality(Jobs) \in Nat /\ Cardinality(Jobs) >= 1
  BY RecoveryAssumption, JobSets DEF RecoveryAssumption
<1>1. RecoveryInit => RetryInv
  <2> SUFFICES ASSUME RecoveryInit, NEW c \in Claims
               PROVE  row[c].retries + Cardinality(Counting(c)) <= MaxRetries + (Cardinality(Jobs) - 1)
    BY DEF RetryInv
  <2>1. row[c].retries = 0
    BY RecoveryAssumption DEF RecoveryAssumption, RecoveryInit, PipeInit
  <2>2. Counting(c) = {}
    BY JobStates DEF RecoveryInit, Counting
  <2> QED
    BY <1>a, <2>1, <2>2, FS_EmptySet
<1>2. RecoveryInv /\ RetryInv /\ [RecoveryNext]_recoveryVars => RetryInv'
  <2> SUFFICES ASSUME RecoveryInv, RetryInv, [RecoveryNext]_recoveryVars PROVE RetryInv'
    OBVIOUS
  <2>a. PipeDataOK /\ JobOK
    BY DEF RecoveryInv, PipeInv
  <2>b. ASSUME KeepsRetries, UNCHANGED job
        PROVE  RetryInv'
    BY <2>b DEF RetryInv, KeepsRetries, Counting
  <2>1. CASE PipeNext /\ UNCHANGED <<job, staggered>>
    BY <2>1, <2>a, <2>b, PipeKeepsRetries DEF PipeStep
  <2>2. ASSUME NEW j \in Jobs, StartJob(j) \/ JobStep(j)
        PROVE  RetryInv'
    BY <2>2, JobKeepsRetryInv
  <2>3. ASSUME NEW c \in Claims, FireStaggered(c)
        PROVE  RetryInv'
    BY <2>3, <2>a, <2>b, PipeKeepsRetries DEF FireStaggered, PipeStep, PipeNext, Trigger
  <2>4. CASE RestartAndClean
    <3>1. KeepsRetries
      BY <2>4, <2>a, PipeKeepsRetries DEF RestartAndClean, PipeStep
    <3>2. \A c \in Claims : Counting(c)' = {}
      BY <2>4, JobStates, CaseNames DEF RestartAndClean, Counting
    <3> SUFFICES ASSUME NEW c \in Claims
                 PROVE  row'[c].retries + Cardinality(Counting(c)') <= MaxRetries + (Cardinality(Jobs) - 1)
      BY DEF RetryInv
    <3>3. Counting(c) \subseteq Jobs
      BY DEF Counting
    <3>4. Cardinality(Counting(c)) \in Nat
      BY <3>3, JobSets
    <3>5. Cardinality(Counting(c)') = 0
      BY <3>2, FS_EmptySet
    <3>6. row[c].retries \in Nat /\ row'[c].retries = row[c].retries
      BY <2>a, <3>1 DEF PipeDataOK, Rows, KeepsRetries
    <3> QED
      BY <1>a, <3>4, <3>5, <3>6 DEF RetryInv
  <2>5. CASE UNCHANGED recoveryVars
    BY <2>5, <2>b DEF recoveryVars, pipeVars, claimVars, KeepsRetries
  <2>6. CASE Tick
    <3>1. \A c \in Claims : row[c] \in Rows
      BY <2>a DEF PipeDataOK
    <3>2. KeepsRetries
      BY <2>6, <3>1 DEF Tick, KeepsRetries, Rows
    <3>3. UNCHANGED job
      BY <2>6 DEF Tick
    <3> QED
      BY <3>2, <3>3, <2>b
  <2> QED
    BY <2>1, <2>2, <2>3, <2>4, <2>5, <2>6 DEF RecoveryNext
<1>3. RecoveryInv /\ RetryInv => RetriesBounded
  <2> SUFFICES ASSUME RecoveryInv, RetryInv, NEW c \in Claims
               PROVE  row[c].retries <= MaxRetries + (Cardinality(Jobs) - 1)
    BY DEF RetriesBounded
  <2>1. Counting(c) \subseteq Jobs
    BY DEF Counting
  <2>2. Cardinality(Counting(c)) \in Nat /\ row[c].retries \in Nat
    BY <2>1, JobSets DEF RecoveryInv, PipeInv, PipeDataOK, Rows
  <2> QED
    BY <1>a, <2>2 DEF RetryInv
<1> QED
  BY <1>1, <1>2, <1>3, RecoveryInvInit, RecoveryInvStep, PTL DEF RecoverySpec

------------------------------------------------------------------------------
(* Why every invocation of the job ends: the part of the argument that is safety. *)

\* Case k comes before case m.
Before(k, m) ==
  \E i, n \in 1..15 : i < n /\ CaseOrder[i] = k /\ CaseOrder[n] = m

\* The steps of a case with one claim, in their order; "next" ends them.
StepRank == [step \in Steps |->
               CASE step = "query" -> 0
                 [] step = "reset" -> 1
                 [] step = "count" -> 2
                 [] step = "dispatch" -> 3
                 [] step \in {"mark", "write"} -> 3
                 [] step = "next" -> 4]

\* The record d of an invocation is further on than b: it has ended, is at a later case, has
\* its rows, has fewer rows left, or is at a later step with the same rows left.
Further(d, b) ==
  \/ d = Idle
  \/ Before(b.case, d.case)
  \/ /\ d.case = b.case
     /\ \/ b.step = "query" /\ d.step # "query"
        \/ d.step # "query" /\ d.todo \subseteq b.todo /\ d.todo # b.todo
        \/ d.todo = b.todo /\ StepRank[b.step] < StepRank[d.step]

(* The order of the cases is one: a case never comes before itself, and what comes before
   a case that comes before a third comes before that. *)
LEMMA BeforeIsAnOrder ==
  ASSUME NEW k \in Cases, NEW m \in Cases, NEW n \in Cases
  PROVE  ~Before(k, k) /\ (Before(k, m) /\ Before(m, n) => Before(k, n))
<1>1. \A i, j \in 1..15 : CaseOrder[i] = CaseOrder[j] => i = j
  BY DEF CaseOrder
<1> QED
  BY <1>1 DEF Before

(* After a case comes a later one, or the end. *)
LEMMA AfterCaseIsLater ==
  ASSUME NEW k \in Cases
  PROVE  AfterCase(k) = Idle \/ Before(k, AfterCase(k).case)
<1>1. CASE k = CaseOrder[Len(CaseOrder)]
  BY <1>1 DEF AfterCase
<1>2. CASE k # CaseOrder[Len(CaseOrder)]
  <2> DEFINE i == CHOOSE i \in 1..Len(CaseOrder) : CaseOrder[i] = k
  <2>1. i \in 1..15 /\ CaseOrder[i] = k
    BY CaseNames DEF Cases
  <2>2. AfterCase(k) = At(CaseOrder[1 + i])
    BY <1>2 DEF AfterCase
  <2> HIDE DEF i
  <2>3. i # 15
    BY <1>2, <2>1, CaseNames
  <2>4. 1 + i \in 1..15 /\ i < 1 + i
    BY <2>1, <2>3
  <2>5. AfterCase(k).case = CaseOrder[1 + i]
    BY <2>2 DEF At
  <2> QED
    BY <2>1, <2>4, <2>5 DEF Before
<1> QED
  BY <1>1, <1>2

(* So an invocation that is done with its claim is further on, and so is one that an error
   of the startup cleanup sends on to the periodic job. *)
LEMMA AfterClaimIsFurther ==
  ASSUME NEW b \in JobRecords, b.case \in Cases, b.step \in Busy
  PROVE  Further(AfterClaim(b), b)
<1>1. CASE b.todo = {}
  BY <1>1, AfterCaseIsLater DEF AfterClaim, Further
<1>2. CASE b.todo # {}
  <2>1. /\ AfterClaim(b).case = b.case /\ AfterClaim(b).todo = b.todo
        /\ AfterClaim(b).step = "next"
    BY <1>2 DEF AfterClaim, JobRecords
  <2>2. StepRank[b.step] < StepRank["next"]
    BY DEF StepRank, Steps, Busy
  <2> QED
    BY <2>1, <2>2 DEF Further
<1> QED
  BY <1>1, <1>2

LEMMA CleanupGoesOn ==
  ASSUME NEW b \in JobRecords, b.case \in {"bootA", "bootB"}
  PROVE  Further(At("3"), b)
<1>1. CaseOrder[1] = "bootA" /\ CaseOrder[2] = "bootB" /\ CaseOrder[3] = "3"
  BY DEF CaseOrder
<1>2. Before("bootA", "3") /\ Before("bootB", "3")
  BY <1>1 DEF Before
<1>3. At("3").case = "3"
  BY DEF At
<1> QED
  BY <1>2, <1>3 DEF Further

(* Every await of an invocation of the job brings it further on. *)
LEMMA JobStepIsFurther ==
  ASSUME JobOK, NEW j \in Jobs, JobStep(j)
  PROVE  Further(job'[j], job[j])
<1> DEFINE b == job[j]
<1>a. b \in JobRecords /\ Proper(b) /\ job \in [Jobs -> JobRecords]
  BY DEF JobOK
<1>b. \A x : UpdateJob(j, x) => job'[j] = x
  BY <1>a DEF UpdateJob
<1>c. b.step \in Busy => b.case \in Cases
  BY <1>a DEF Proper, Busy
<1>1. CASE Query(j)
  <2> DEFINE q == [b EXCEPT !.todo = Found(b.case)]
  <2>1. b.case \in Cases /\ b.step = "query"
    BY <1>1, <1>a DEF Query, JobRecords
  <2>2. Further(AfterCase(b.case), b)
    BY <2>1, AfterCaseIsLater DEF Further
  <2>3. Further(Aborted(b), b)
    <3>1. CASE b.case \in {"bootA", "bootB"}
      BY <1>a, <3>1, CleanupGoesOn DEF Aborted
    <3>2. CASE b.case \notin {"bootA", "bootB"}
      BY <3>2 DEF Aborted, Further
    <3> QED
      BY <3>1, <3>2
  <2>4. Further(AfterClaim(q), b)
    <3>1. q.case = b.case
      BY <1>a DEF JobRecords
    <3>2. CASE q.todo = {}
      BY <2>2, <3>1, <3>2 DEF AfterClaim
    <3>3. CASE q.todo # {}
      <4>1. AfterClaim(q).case = b.case /\ AfterClaim(q).step = "next"
        BY <1>a, <3>3 DEF AfterClaim, JobRecords
      <4> QED
        BY <2>1, <4>1 DEF Further
    <3> QED
      BY <3>2, <3>3
  <2>5. UpdateJob(j, AfterClaim(q)) \/ UpdateJob(j, Aborted(b)) \/ UpdateJob(j, AfterCase(b.case))
    BY <1>1 DEF Query
  <2> HIDE DEF q
  <2> QED
    BY <2>2, <2>3, <2>4, <2>5, <1>b
<1>2. CASE TakeNext(j)
  <2>1. b.step = "next" /\ b.case \in Cases
    BY <1>2, <1>a DEF TakeNext, Proper
  <2>2. PICK c \in b.todo :
          LET taken == [b EXCEPT !.todo = @ \ {c}, !.claim = c] IN
          \/ UpdateJob(j, [taken EXCEPT !.step = FirstStep(b.case)])
          \/ UpdateJob(j, AfterClaim(taken))
          \/ UpdateJob(j, [taken EXCEPT !.step = "mark"])
    BY <1>2 DEF TakeNext
  <2> DEFINE taken == [b EXCEPT !.todo = @ \ {c}, !.claim = c]
  <2>3. taken.todo = b.todo \ {c} /\ taken.case = b.case /\ taken.step = "next"
    BY <1>a, <2>1 DEF JobRecords
  <2>4. ASSUME NEW t, t # "query"
        PROVE  Further([taken EXCEPT !.step = t], b)
    <3>1. /\ [taken EXCEPT !.step = t].todo = b.todo \ {c}
          /\ [taken EXCEPT !.step = t].case = b.case
          /\ [taken EXCEPT !.step = t].step = t
      BY <1>a, <2>3 DEF JobRecords
    <3> HIDE DEF taken
    <3> QED
      BY <2>2, <2>4, <3>1 DEF Further
  <2>5. Further(AfterClaim(taken), b)
    <3>1. CASE taken.todo = {}
      BY <2>1, <2>3, <3>1, AfterCaseIsLater DEF AfterClaim, Further
    <3>2. CASE taken.todo # {}
      <4>1. /\ AfterClaim(taken).todo = b.todo \ {c} /\ AfterClaim(taken).case = b.case
            /\ AfterClaim(taken).step = "next"
        BY <1>a, <2>3, <3>2 DEF AfterClaim, JobRecords
      <4> QED
        BY <2>2, <4>1 DEF Further
    <3> QED
      BY <3>1, <3>2
  <2>6. FirstStep(b.case) # "query"
    BY DEF FirstStep
  <2>7. \E x : UpdateJob(j, x) /\ Further(x, b)
    <3>1. CASE UpdateJob(j, [taken EXCEPT !.step = FirstStep(b.case)])
      BY <2>4, <2>6, <3>1
    <3>2. CASE UpdateJob(j, AfterClaim(taken))
      BY <2>5, <3>2
    <3>3. CASE UpdateJob(j, [taken EXCEPT !.step = "mark"])
      BY <2>4, <3>3
    <3> QED
      BY <2>2, <3>1, <3>2, <3>3
  <2> QED
    BY <2>7, <1>b
<1>3. CASE Rewrite(j) \/ GiveUp(j)
  <2>1. b.step \in Busy
    BY <1>3 DEF Rewrite, GiveUp, Busy
  <2>2. \/ UpdateJob(j, AfterClaim(b))
        \/ b.case \in {"bootA", "bootB"} /\ UpdateJob(j, At("3"))
    BY <1>3 DEF Rewrite, GiveUp, WriteClaim
  <2> QED
    BY <1>a, <1>b, <1>c, <2>1, <2>2, AfterClaimIsFurther, CleanupGoesOn
<1>4. CASE ResetClaim(j)
  <2>1. b.step = "reset" /\ b.step \in Busy
    BY <1>4 DEF ResetClaim, Busy
  <2>2. UpdateJob(j, [b EXCEPT !.step = "count"]) \/ UpdateJob(j, AfterClaim(b))
    BY <1>4 DEF ResetClaim
  <2>3. /\ [b EXCEPT !.step = "count"].case = b.case /\ [b EXCEPT !.step = "count"].todo = b.todo
        /\ [b EXCEPT !.step = "count"].step = "count"
    BY <1>a DEF JobRecords
  <2>4. StepRank["reset"] < StepRank["count"]
    BY DEF StepRank, Steps
  <2>5. Further([b EXCEPT !.step = "count"], b)
    BY <2>1, <2>3, <2>4 DEF Further
  <2> QED
    BY <1>a, <1>b, <1>c, <2>1, <2>2, <2>5, AfterClaimIsFurther
<1>5. CASE CountRetry(j)
  <2>1. b.step = "count" /\ UpdateJob(j, [b EXCEPT !.step = "dispatch"])
    BY <1>5 DEF CountRetry
  <2>2. /\ [b EXCEPT !.step = "dispatch"].case = b.case
        /\ [b EXCEPT !.step = "dispatch"].todo = b.todo
        /\ [b EXCEPT !.step = "dispatch"].step = "dispatch"
    BY <1>a DEF JobRecords
  <2>3. StepRank["count"] < StepRank["dispatch"]
    BY DEF StepRank, Steps
  <2> QED
    BY <1>b, <2>1, <2>2, <2>3 DEF Further
<1>6. CASE Dispatch(j)
  <2>1. b.step \in Busy /\ UpdateJob(j, AfterClaim(b))
    BY <1>6 DEF Dispatch, Busy
  <2> QED
    BY <1>a, <1>b, <1>c, <2>1, AfterClaimIsFurther
<1> QED
  BY <1>1, <1>2, <1>3, <1>4, <1>5, <1>6 DEF JobStep

(* Whatever the other invocations, the runs and the users do, and whichever access to the
   database fails, an invocation of the job never looks at the rows of a case twice and never
   goes back: nothing but its own steps, its start and a restart moves it, and each of its
   steps leaves it with a later case, fewer rows, a later step, or nothing to do. *)
THEOREM JobsGetOn ==
  RecoverySpec
    => [][\A j \in Jobs : \/ job'[j] = job[j] \/ Further(job'[j], job[j])
                          \/ job[j] = Idle /\ job'[j] = At("3")
                          \/ RestartAndClean]_recoveryVars
<1>1. RecoveryInv /\ [RecoveryNext]_recoveryVars
        => [\A j \in Jobs : \/ job'[j] = job[j] \/ Further(job'[j], job[j])
                            \/ job[j] = Idle /\ job'[j] = At("3")
                            \/ RestartAndClean]_recoveryVars
  <2> SUFFICES ASSUME RecoveryInv, RecoveryNext, ~RestartAndClean, NEW j \in Jobs,
                      job'[j] # job[j]
               PROVE  Further(job'[j], job[j]) \/ (job[j] = Idle /\ job'[j] = At("3"))
    OBVIOUS
  <2>a. JobOK /\ job \in [Jobs -> JobRecords]
    BY DEF RecoveryInv, JobOK
  <2>1. PICK i \in Jobs : StartJob(i) \/ JobStep(i)
    BY DEF RecoveryNext, FireStaggered, Tick
  <2>2. \E x : UpdateJob(i, x)
    BY <2>1 DEF StartJob, JobStep, Query, TakeNext, Rewrite, GiveUp, ResetClaim, CountRetry,
                Dispatch, WriteClaim
  <2>3. i = j
    BY <2>a, <2>2 DEF UpdateJob
  <2> QED
    BY <2>a, <2>1, <2>3, JobStepIsFurther DEF StartJob, UpdateJob
<1> QED
  BY <1>1, RecoveryInvInit, RecoveryInvStep, PTL DEF RecoverySpec

------------------------------------------------------------------------------
(* No claim is left where no case of the job looks, with one run at a time on a claim. *)

\* A claim that is completed has no status of a run.
Settled(x) == x.completed => x.status \notin RunStatuses
SettledInv == \A c \in Claims : Settled(row[c])

LEMMA SettledWrite ==
  ASSUME row \in [Claims -> Rows], SettledInv, NEW c \in Claims, NEW x, Settled(x),
         SetRow(c, x) \/ UNCHANGED row
  PROVE  SettledInv'
BY DEF SettledInv, Settled, SetRow

(* Sending a claim back to intake and failing it settle it, other columns do not matter. *)
LEMMA SettledValues ==
  ASSUME NEW x \in Rows
  PROVE  /\ Settled(Failed(x)) /\ Settled([Failed(x) EXCEPT !.triggered = FALSE])
         /\ \A d : /\ Settled(BackToIntake(x, d))
                   /\ Settled([BackToIntake(x, d) EXCEPT !.triggered = FALSE])
                   /\ Settled([BackToIntake(x, d) EXCEPT !.completed = FALSE])
                   /\ Settled([BackToIntake(x, d) EXCEPT !.completed = FALSE, !.beat = NoTime])
                   /\ Settled([BackToIntake(x, d) EXCEPT !.triggered = FALSE, !.completed = FALSE])
BY DEF Settled, Failed, BackToIntake, RunStatuses, Rows

(* The pipeline and its users: the statuses of a run are written to the claim of a run
   that is on its way, and such a claim is not completed. *)
LEMMA PipeKeepsSettled ==
  ASSUME PipeInv, ReportInv, SettledInv, PipeStep
  PROVE  SettledInv'
<1>a. row \in [Claims -> Rows] /\ target \in [Runs -> Claims] /\ at \in [Runs -> Stops]
  BY DEF PipeInv, PipeDataOK
<1>b. \A c \in Claims : row[c] \in Rows /\ Settled(row[c])
  BY <1>a DEF SettledInv
<1>1. ASSUME NEW r \in Runs, RunAction(r)
      PROVE  SettledInv'
  <2> DEFINE c == target[r]
  <2>a. c \in Claims /\ row[c] \in Rows /\ Settled(row[c])
    BY <1>a, <1>b
  <2>1. CASE Validate(r)
    <3> DEFINE x == [row[c] EXCEPT !.triggered = TRUE, !.completed = FALSE, !.updated = 0,
                                   !.status = "document_validating", !.dps = "DOCUMENT_VALIDATING"]
    <3>1. Settled(x)
      BY <2>a DEF Settled, Rows
    <3>2. SetRow(c, x)
      BY <2>1 DEF Validate
    <3> QED
      BY <1>a, <2>a, <3>1, <3>2, SettledWrite
  <2>2. CASE AttemptRecovery(r) \/ MarkReady(r) \/ StartAnalysis(r)
    <3>1. ~row[c].completed
      BY <2>2 DEF AttemptRecovery, MarkReady, StartAnalysis, ReportInv, InTry
    <3>2. PICK x : (SetRow(c, x) \/ UNCHANGED row) /\ ~x.completed
      <4>1. \A s, d : /\ ~[row[c] EXCEPT !.status = s, !.dps = d, !.updated = 0].completed
                      /\ ~[row[c] EXCEPT !.status = s, !.updated = 0, !.dps = d].completed
        BY <2>a, <3>1 DEF Rows
      <4>2. CASE AttemptRecovery(r)
        BY <4>1, <4>2 DEF AttemptRecovery, TrySetRow
      <4>3. CASE MarkReady(r)
        BY <4>1, <4>3 DEF MarkReady, TrySetRow
      <4>4. CASE StartAnalysis(r)
        BY <4>1, <4>4 DEF StartAnalysis, TrySetRow
      <4> QED
        BY <2>2, <4>2, <4>3, <4>4
    <3>3. Settled(x)
      BY <3>2 DEF Settled
    <3> QED
      BY <1>a, <2>a, <3>2, <3>3, SettledWrite
  <2>3. CASE StartOrchestrator(r) \/ Heartbeat(r) \/ ConfirmDocState(r)
    <3>1. \A n, d : /\ Settled([row[c] EXCEPT !.beat = n, !.updated = 0])
                    /\ Settled([row[c] EXCEPT !.dps = d, !.updated = 0])
      BY <2>a DEF Settled, Rows
    <3>2. \E x : Settled(x) /\ (SetRow(c, x) \/ UNCHANGED row)
      BY <2>3, <3>1 DEF StartOrchestrator, Heartbeat, ConfirmDocState, TrySetRow
    <3> QED
      BY <1>a, <2>a, <3>2, SettledWrite
  <2>4. CASE Finalise(r)
    <3> DEFINE minimal == [row[c] EXCEPT !.completed = TRUE, !.status = "analysis_complete",
                                         !.dps = "ANALYSIS_COMPLETE", !.updated = 0]
               complete == [minimal EXCEPT !.wf = "ai_assessment_completed", !.beat = NoTime]
    <3>1. Settled(minimal) /\ Settled(complete)
      BY <2>a DEF Settled, RunStatuses, Rows
    <3>2. SetRow(c, complete) \/ SetRow(c, minimal) \/ SetRow(c, row[c])
      BY <2>4 DEF Finalise
    <3> HIDE DEF minimal, complete
    <3> QED
      BY <1>a, <2>a, <3>1, <3>2, SettledWrite
  <2>5. CASE DeferralWrite(r) \/ FailIncomplete(r) \/ CatchError(r) \/ Finally(r)
             \/ CallerCatches(r) \/ WatchdogWrites(r)
    <3>1. \E x : Settled(x) /\ (SetRow(c, x) \/ UNCHANGED row)
      BY <2>5, <2>a, SettledValues
      DEF DeferralWrite, FailIncomplete, CatchError, Finally, Nets, CallerCatches, WatchdogWrites,
          TrySetRow
    <3> QED
      BY <1>a, <2>a, <3>1, SettledWrite
  <2>6. CASE UNCHANGED row
    BY <1>a, <2>a, <2>6, SettledWrite
  <2> QED
    BY <1>1, <2>1, <2>2, <2>3, <2>4, <2>5, <2>6
    DEF RunAction, Progress, TimeOut, RecordIncomplete, InsertReport, FindTransient,
        DeferForMemory, NoConnection, FailBeforeTry, OrchestratorEnds, IncompleteResult,
        DeletePrevious, Throw, WatchdogFires, claimVars
<1>2. ASSUME NEW c \in Claims,
             UserAction(c) \/ \E r \in Runs : Trigger(r, c)
      PROVE  SettledInv'
  <2>a. row[c] \in Rows /\ Settled(row[c])
    BY <1>b
  <2>1. /\ Settled([row[c] EXCEPT !.status = "assessment_in_progress", !.wf = "under_assessment",
                                  !.updated = 0])
        /\ Settled([row[c] EXCEPT !.status = "assessment_pending", !.updated = 0])
        /\ Settled([row[c] EXCEPT !.triggered = TRUE, !.dps = "parsing", !.started = Now,
                                  !.updated = 0])
        /\ Settled([row[c] EXCEPT !.triggered = TRUE, !.completed = FALSE, !.dps = "parsing",
                                  !.started = Now, !.updated = 0])
    BY <2>a DEF Settled, RunStatuses, Rows
  <2>2. \E x : Settled(x) /\ (SetRow(c, x) \/ UNCHANGED row)
    <3>1. CASE UserAction(c)
      BY <3>1, <2>a, <2>1, SettledValues DEF UserAction, MoveToAssessment, ResetStuckClaim, AssignAssessor
    <3>2. CASE \E r \in Runs : Trigger(r, c)
      BY <3>2, <2>a, <2>1 DEF Trigger, TriggerInBackground, TriggerFromIntake, TriggerManually,
                              TriggerReanalysis, TrySetRow
    <3> QED
      BY <1>2, <3>1, <3>2
  <2> QED
    BY <1>a, <2>2, SettledWrite
<1>3. CASE ServerRestart \/ UNCHANGED pipeVars \/ \E c \in Claims : RecordRerun(c)
  BY <1>3 DEF ServerRestart, RecordRerun, pipeVars, claimVars, SettledInv, Settled
<1> QED
  BY <1>1, <1>2, <1>3 DEF PipeStep, PipeNext

(* What the job writes is settled. *)
LEMMA WrittenSettled ==
  ASSUME NEW x \in Rows, Settled(x), NEW k \in Cases
  PROVE  /\ k \in Rewriting => Settled(Rewritten(k, x))
         /\ Settled(GivenUp(k, x))
         /\ k \in HasReset => Settled(PreReset(k, x))
         /\ Settled([x EXCEPT !.retries = @ + 1, !.updated = 0])
<1>1. ASSUME k \in Rewriting PROVE Settled(Rewritten(k, x))
  <2>1. CASE k = "3" \/ k = "9"
    BY <2>1 DEF Rewritten, Settled, RunStatuses, Rows
  <2>2. CASE k \in {"bootA", "7", "7b"}
    BY <2>2, SettledValues DEF Rewritten
  <2> QED
    BY <1>1, <2>1, <2>2 DEF Rewriting
<1>2. Settled(GivenUp(k, x))
  BY SettledValues DEF GivenUp
<1>3. ASSUME k \in HasReset PROVE Settled(PreReset(k, x))
  <2>1. /\ ~Pending(x).completed
        /\ \A s, w : ~[Pending(x) EXCEPT !.status = s, !.wf = w].completed
    BY DEF Pending, Rows
  <2>2. ~PreReset(k, x).completed
    BY <1>3, <2>1 DEF HasReset, PreReset
  <2> QED
    BY <2>2 DEF Settled
<1>4. Settled([x EXCEPT !.retries = @ + 1, !.updated = 0])
  BY DEF Settled, Rows
<1> QED
  BY <1>1, <1>2, <1>3, <1>4

LEMMA JobKeepsSettled ==
  ASSUME PipeInv, JobOK, ReportInv, SettledInv, NEW j \in Jobs, StartJob(j) \/ JobStep(j)
  PROVE  SettledInv'
<1> DEFINE b == job[j]
           c == b.claim
<1>a. row \in [Claims -> Rows] /\ Proper(b)
  BY DEF PipeInv, PipeDataOK, JobOK
<1>1. CASE Dispatch(j)
  <2>1. b.claim \in Claims
    BY <1>1, <1>a DEF Dispatch, Proper, Busy
  <2>2. PipeStep
    BY <1>1, <2>1 DEF Dispatch, PipeStep, PipeNext, Trigger
  <2> QED
    BY <2>2, PipeKeepsSettled
<1>2. CASE StartJob(j) \/ Query(j) \/ TakeNext(j)
  BY <1>2 DEF StartJob, Query, TakeNext, pipeVars, claimVars, SettledInv
<1>3. CASE Rewrite(j) \/ GiveUp(j) \/ ResetClaim(j) \/ CountRetry(j)
  <2>1. c \in Claims /\ b.case \in Cases /\ row[c] \in Rows /\ Settled(row[c])
    BY <1>3, <1>a DEF Rewrite, GiveUp, ResetClaim, CountRetry, Proper, Busy, SettledInv
  <2>2. (b.step = "write" => b.case \in Rewriting) /\ (b.step = "reset" => b.case \in HasReset)
    BY <1>a DEF Proper
  <2>3. \E x : Settled(x) /\ (SetRow(c, x) \/ UNCHANGED row)
    BY <1>3, <2>1, <2>2, WrittenSettled
    DEF Rewrite, GiveUp, ResetClaim, CountRetry, WriteClaim, TryUpdate
  <2> QED
    BY <1>a, <2>1, <2>3, SettledWrite
<1> QED
  BY <1>1, <1>2, <1>3 DEF JobStep

LEMMA SettledStep ==
  ASSUME RecoveryInv, ReportInv, SettledInv, [RecoveryNext]_recoveryVars
  PROVE  SettledInv'
<1>a. PipeInv /\ JobOK /\ row \in [Claims -> Rows]
  BY DEF RecoveryInv, PipeInv, PipeDataOK
<1>1. ASSUME NEW j \in Jobs, StartJob(j) \/ JobStep(j) PROVE SettledInv'
  BY <1>1, <1>a, JobKeepsSettled
<1>2. CASE Tick
  <2>1. ASSUME NEW c \in Claims PROVE Settled(row'[c])
    <3>1. row'[c] = [row[c] EXCEPT !.updated = Older(@), !.started = Older(@), !.beat = Older(@)]
      BY <1>2 DEF Tick
    <3>2. row[c] \in Rows /\ Settled(row[c])
      BY <1>a DEF SettledInv
    <3> QED
      BY <3>1, <3>2 DEF Settled, Rows
  <2> QED
    BY <2>1 DEF SettledInv, Settled
<1>3. CASE PipeNext \/ RestartAndClean \/ UNCHANGED recoveryVars \/ \E c \in Claims : FireStaggered(c)
  <2>1. PipeStep
    BY <1>3 DEF PipeStep, PipeNext, RestartAndClean, FireStaggered, Trigger, recoveryVars
  <2> QED
    BY <1>a, <2>1, PipeKeepsSettled
<1> QED
  BY <1>1, <1>2, <1>3 DEF RecoveryNext

(* Case 7 finds every old claim in flight that is not completed, Case 3 those that are. *)
LEMMA CaseFinds ==
  ASSUME NEW x \in Rows, NEW c \in Claims, x.status \in InFlight, Settled(x)
  PROVE  Matches("7", c, Aged(x)) \/ Matches("3", c, Aged(x))
<1>1. /\ Matches("7", c, Aged(x)) = (/\ Aged(x).status \in InFlight /\ ~Aged(x).completed
                                     /\ Old("7", RunClock(Aged(x))))
      /\ Matches("3", c, Aged(x)) = (/\ Aged(x).status \in {"assessment_in_progress", "intake_pending"}
                                     /\ Aged(x).completed)
  BY DEF Matches
<1>2. /\ Aged(x).status = x.status /\ Aged(x).completed = x.completed
      /\ RunClock(Aged(x)) = MaxAge
  BY PipelineAssumption DEF Aged, RunClock, Rows, NoTime, PipelineAssumption
<1>3. Old("7", MaxAge)
  <2>1. Due["7"] \in Clock
    BY CaseNames, RecoveryAssumption DEF RecoveryAssumption
  <2> QED
    BY <2>1, PipelineAssumption DEF Old, Clock, NoTime, PipelineAssumption
<1>4. x.completed => x.status = "assessment_in_progress"
  BY DEF Settled, InFlight
<1> QED
  BY <1>1, <1>2, <1>3, <1>4

(* However runs, users, restarts and overlapping invocations of the job interleave and
   whatever fails, a claim with the status of a run is found by a case of
   runStuckAssessmentRecoveryJob once it is old enough, as long as no two runs work on it
   at once: the second would put its status on a claim the first has completed. *)
THEOREM NoBlindSpotUnlessTwice == RecoverySpec /\ []OneRunPerClaim => []NoBlindSpot
<1>1. RecoveryInit => ReportInv /\ SettledInv
  <2>1. RecoveryInit => \A c \in Claims : ~row[c].completed
    BY PipelineAssumption DEF RecoveryInit, PipeInit, PipelineAssumption
  <2> QED
    BY <2>1, ReportInvInit DEF RecoveryInit, SettledInv, Settled
<1>2. OneRunPerClaim /\ RecoveryInv /\ ReportInv /\ SettledInv /\ [RecoveryNext]_recoveryVars
        => ReportInv' /\ SettledInv'
  BY ReportInvKept, SettledStep
<1>3. RecoveryInv /\ SettledInv => NoBlindSpot
  <2> SUFFICES ASSUME RecoveryInv, SettledInv, NEW c \in Claims, row[c].status \in InFlight
               PROVE  \E k \in Cases \ {"bootA", "bootB"} : Matches(k, c, Aged(row[c]))
    BY DEF NoBlindSpot
  <2>1. row[c] \in Rows /\ Settled(row[c])
    BY DEF RecoveryInv, PipeInv, PipeDataOK, SettledInv
  <2>2. {"7", "3"} \subseteq Cases \ {"bootA", "bootB"}
    BY CaseNames
  <2> QED
    BY <2>1, <2>2, CaseFinds
<1> QED
  BY <1>1, <1>2, <1>3, RecoveryInvInit, RecoveryInvStep, PTL DEF RecoverySpec

(* With MAX_CONCURRENT_PIPELINES = 1 there is no blind spot. *)
THEOREM NoBlindSpotHolds ==
  ASSUME MaxConcurrent = 1
  PROVE  RecoverySpec => []NoBlindSpot
BY NoBlindSpotUnlessTwice, RecoveryOneSlotKeepsRunsApart, PTL

------------------------------------------------------------------------------
(* What becomes of the approval of a claim that is being retried (RetryKeepsApproval). *)

\* The job has counted a retry, and the claim is not marked for a run.
Unapproved(x) == x.retries > 0 /\ ~x.triggered

\* The stops before the first update, which marks the claim.
Early == {"called", "deferring"}

\* Somebody is on the way to mark claim c: a run, or a job about to trigger one.
Attended(c) ==
  \/ \E r \in Runs : target[r] = c /\ at[r] \in Early
  \/ \E j \in Jobs : job[j].claim = c /\ job[j].step \in {"count", "dispatch"}

ApprovedOrAttended(c) == Unapproved(row[c]) => Attended(c)

\* The memory guard, a missing connection or an error before the try turns a run away.
TurnedAway(c) == \E r \in Runs : target[r] = c /\ at[r] \in Early /\ at'[r] = "rejected"

\* The processor's reset, the catch of the mutation and a job whose retries are used up
\* take the approval of claim c away.
TakesApproval(c) ==
  \/ ResetStuckClaim(c)
  \/ \E r \in Runs : target[r] = c /\ caller[r] = "mutation" /\ CallerCatches(r)
  \/ \E j \in Jobs : job[j].claim = c /\ GiveUp(j)

\* Most writes leave the mark as it is.
LEMMA WritesKeepMark ==
  ASSUME NEW x \in Rows
  PROVE  /\ Failed(x).triggered = x.triggered
         /\ \A d : BackToIntake(x, d).triggered = x.triggered
         /\ [x EXCEPT !.triggered = TRUE, !.completed = FALSE, !.updated = 0,
                      !.status = "document_validating", !.dps = "DOCUMENT_VALIDATING"].triggered
         /\ [x EXCEPT !.status = "recovery_attempted", !.updated = 0,
                      !.dps = "RECOVERY_ATTEMPTED"].triggered = x.triggered
         /\ [x EXCEPT !.status = "document_ready", !.dps = "DOCUMENT_READY",
                      !.updated = 0].triggered = x.triggered
         /\ [x EXCEPT !.status = "analysis_running", !.dps = "ANALYSIS_RUNNING",
                      !.updated = 0].triggered = x.triggered
         /\ [x EXCEPT !.beat = Now, !.updated = 0].triggered = x.triggered
         /\ [x EXCEPT !.dps = "ANALYSIS_COMPLETE", !.updated = 0].triggered = x.triggered
  BY DEF Rows, Failed, BackToIntake

\* A run never lowers the mark, and before it raises it can only be turned away.
LEMMA RunKeepsMark ==
  ASSUME PipeDataOK, NEW r \in Runs, RunAction(r), ~(caller[r] = "mutation" /\ CallerCatches(r)),
         ~row'[target[r]].triggered
  PROVE  ~row[target[r]].triggered /\ (at[r] \in Early => at'[r] \in Early \union {"rejected"})
<1> DEFINE c == target[r]
<1>a. /\ c \in Claims /\ row \in [Claims -> Rows] /\ row[c] \in Rows
      /\ at \in [Runs -> Stops] /\ caller[r] \in {"background", "mutation", "intake"}
  BY DEF PipeDataOK
<1>b. \A x : SetRow(c, x) => row'[c] = x
  BY <1>a DEF SetRow
<1>c. \A x : TrySetRow(c, x) => row'[c] \in {x, row[c]}
  BY <1>b DEF TrySetRow
<1>d. \A s : Goto(r, s) => at'[r] = s
  BY <1>a DEF Goto
<1>1. CASE Validate(r)
  <2> DEFINE validating == [row[c] EXCEPT !.triggered = TRUE, !.completed = FALSE, !.updated = 0,
                              !.status = "document_validating", !.dps = "DOCUMENT_VALIDATING"]
  <2>1. SetRow(c, validating)
    BY <1>1 DEF Validate
  <2>2. validating.triggered
    BY <1>a, WritesKeepMark
  <2> HIDE DEF validating
  <2> QED
    BY <2>1, <2>2, <1>b
<1>2. CASE DeferralWrite(r)
  <2>1. TrySetRow(c, BackToIntake(row[c], "intake_pending")) /\ at'[r] = "rejected"
    BY <1>2, <1>d DEF DeferralWrite
  <2> QED
    BY <2>1, <1>a, <1>c, WritesKeepMark
<1>3. CASE FailIncomplete(r) \/ CatchError(r) \/ Finally(r) \/ WatchdogWrites(r)
  <2>1. row'[c] \in {row[c], Failed(row[c])}
    BY <1>3, <1>a, <1>b, <1>c DEF FailIncomplete, CatchError, Finally, Nets, WatchdogWrites
  <2>2. at[r] \notin Early \/ at' = at
    BY <1>3 DEF FailIncomplete, CatchError, Finally, WatchdogWrites, Early
  <2> QED
    BY <2>1, <2>2, <1>a, WritesKeepMark
<1>4. CASE AttemptRecovery(r) \/ MarkReady(r) \/ StartAnalysis(r) \/ StartOrchestrator(r)
           \/ Heartbeat(r) \/ ConfirmDocState(r)
  <2> DEFINE recovering == [row[c] EXCEPT !.status = "recovery_attempted", !.updated = 0,
                                          !.dps = "RECOVERY_ATTEMPTED"]
             ready == [row[c] EXCEPT !.status = "document_ready", !.dps = "DOCUMENT_READY",
                                     !.updated = 0]
             running == [row[c] EXCEPT !.status = "analysis_running", !.dps = "ANALYSIS_RUNNING",
                                       !.updated = 0]
             beating == [row[c] EXCEPT !.beat = Now, !.updated = 0]
             confirmed == [row[c] EXCEPT !.dps = "ANALYSIS_COMPLETE", !.updated = 0]
  <2>1. /\ recovering.triggered = row[c].triggered /\ ready.triggered = row[c].triggered
        /\ running.triggered = row[c].triggered /\ beating.triggered = row[c].triggered
        /\ confirmed.triggered = row[c].triggered
    BY <1>a, WritesKeepMark
  <2>2. \/ TrySetRow(c, recovering) \/ TrySetRow(c, ready) \/ TrySetRow(c, running)
        \/ TrySetRow(c, beating) \/ SetRow(c, beating) \/ TrySetRow(c, confirmed)
    BY <1>4 DEF AttemptRecovery, MarkReady, StartAnalysis, StartOrchestrator, Heartbeat,
                ConfirmDocState
  <2>3. at[r] \notin Early \/ at' = at
    BY <1>4 DEF AttemptRecovery, MarkReady, StartAnalysis, StartOrchestrator, Heartbeat,
                ConfirmDocState, Early, runVars
  <2> HIDE DEF recovering, ready, running, beating, confirmed
  <2>4. row'[c].triggered = row[c].triggered
    BY <2>1, <2>2, <1>b, <1>c
  <2> QED
    BY <2>3, <2>4
<1>5. CASE Finalise(r)
  <2> DEFINE minimal == [row[c] EXCEPT !.completed = TRUE, !.status = "analysis_complete",
                                       !.dps = "ANALYSIS_COMPLETE", !.updated = 0]
             complete == [minimal EXCEPT !.wf = "ai_assessment_completed", !.beat = NoTime]
  <2>1. \E x \in {complete, minimal, row[c]} : SetRow(c, x)
    BY <1>5 DEF Finalise
  <2>2. minimal.triggered = row[c].triggered /\ complete.triggered = row[c].triggered
    BY <1>a DEF Rows
  <2>3. at[r] \notin Early
    BY <1>5 DEF Finalise, Early
  <2> HIDE DEF minimal, complete
  <2> QED
    BY <2>1, <2>2, <2>3, <1>b
<1>6. CASE CallerCatches(r)
  <2>1. UNCHANGED row \/ TrySetRow(c, BackToIntake(row[c], "ASSESSMENT_START_FAILED"))
    BY <1>6, <1>a DEF CallerCatches
  <2>2. at[r] \notin Early
    BY <1>6 DEF CallerCatches, Early
  <2> QED
    BY <2>1, <2>2, <1>a, <1>c, WritesKeepMark
<1>7. CASE DeferForMemory(r) \/ NoConnection(r) \/ FailBeforeTry(r)
  <2>1. UNCHANGED row /\ at'[r] \in {"deferring", "rejected"}
    BY <1>7, <1>d DEF DeferForMemory, NoConnection, FailBeforeTry, claimVars
  <2> QED
    BY <2>1 DEF Early
<1>8. CASE \/ TimeOut(r) \/ RecordIncomplete(r) \/ InsertReport(r) \/ FindTransient(r)
           \/ OrchestratorEnds(r) \/ IncompleteResult(r) \/ DeletePrevious(r) \/ Throw(r)
           \/ WatchdogFires(r)
  <2>1. UNCHANGED row /\ (at[r] \notin Early \/ at' = at)
    BY <1>8 DEF TimeOut, RecordIncomplete, InsertReport, FindTransient, OrchestratorEnds,
                IncompleteResult, DeletePrevious, Throw, WatchdogFires, claimVars, Early
  <2> QED
    BY <2>1
<1> QED
  BY <1>1, <1>2, <1>3, <1>4, <1>5, <1>6, <1>7, <1>8 DEF RunAction, Progress

\* Of the triggers and the users, only the reset of the claim lowers it.
LEMMA OtherStepKeepsMark ==
  ASSUME PipeDataOK, NEW c \in Claims, ~ResetStuckClaim(c),
         \/ \E r \in Runs, d \in Claims : Trigger(r, d)
         \/ \E d \in Claims : UserAction(d) \/ RecordRerun(d)
  PROVE  /\ ~row'[c].triggered => ~row[c].triggered
         /\ \A r \in Runs : at[r] \in Early => at'[r] = at[r] /\ target'[r] = target[r]
<1>a. row \in [Claims -> Rows] /\ at \in [Runs -> Stops] /\ target \in [Runs -> Claims]
  BY DEF PipeDataOK
<1>b. \A d \in Claims : \A x :
        SetRow(d, x) /\ (x.triggered \/ x.triggered = row[d].triggered \/ d # c)
          => (~row'[c].triggered => ~row[c].triggered)
  BY <1>a DEF SetRow
<1>1. ASSUME NEW r \in Runs, NEW d \in Claims, Trigger(r, d)
      PROVE  /\ ~row'[c].triggered => ~row[c].triggered
             /\ \A s \in Runs : at[s] \in Early => at'[s] = at[s] /\ target'[s] = target[s]
  <2>1. \E who \in {"background", "intake", "mutation"} : Invoke(r, d, who)
    BY <1>1 DEF Trigger, TriggerInBackground, TriggerFromIntake, TriggerManually,
                TriggerReanalysis
  <2>2. \A s \in Runs : at[s] \in Early => at'[s] = at[s] /\ target'[s] = target[s]
    BY <2>1, <1>a DEF Invoke, Reusable, Goto, Early
  <2> DEFINE manual == [row[d] EXCEPT !.triggered = TRUE, !.dps = "parsing", !.started = Now,
                                      !.updated = 0]
             again == [row[d] EXCEPT !.triggered = TRUE, !.completed = FALSE, !.dps = "parsing",
                                     !.started = Now, !.updated = 0]
  <2>3. manual.triggered /\ again.triggered
    BY <1>a DEF Rows
  <2>4. UNCHANGED row \/ SetRow(d, manual) \/ SetRow(d, again)
    BY <1>1 DEF Trigger, TriggerInBackground, TriggerFromIntake, TriggerManually,
                TriggerReanalysis, TrySetRow
  <2> HIDE DEF manual, again
  <2> QED
    BY <2>2, <2>3, <2>4, <1>b
<1>2. ASSUME NEW d \in Claims, UserAction(d) \/ RecordRerun(d)
      PROVE  /\ ~row'[c].triggered => ~row[c].triggered
             /\ \A s \in Runs : at[s] \in Early => at'[s] = at[s] /\ target'[s] = target[s]
  <2>1. UNCHANGED <<at, target>>
    BY <1>2 DEF UserAction, ResetStuckClaim, AssignAssessor, MoveToAssessment, RecordRerun, runVars
  <2> DEFINE assigned == [row[d] EXCEPT !.status = "assessment_pending", !.updated = 0]
             working == [row[d] EXCEPT !.status = "assessment_in_progress",
                                       !.wf = "under_assessment", !.updated = 0]
  <2>2. assigned.triggered = row[d].triggered /\ working.triggered = row[d].triggered
    BY <1>a DEF Rows
  <2>3. \/ UNCHANGED row
        \/ d # c /\ \E x : SetRow(d, x)
        \/ \E x \in {row[d], assigned, working} : SetRow(d, x)
    <3>1. CASE RecordRerun(d)
      BY <3>1 DEF RecordRerun
    <3>2. CASE ResetStuckClaim(d)
      <4>1. d # c
        BY <3>2
      <4>2. \E x : SetRow(d, x)
        BY <3>2 DEF ResetStuckClaim
      <4> QED
        BY <4>1, <4>2
    <3>3. CASE AssignAssessor(d)
      BY <3>3 DEF AssignAssessor
    <3>4. CASE MoveToAssessment(d)
      BY <3>4 DEF MoveToAssessment
    <3> QED
      BY <1>2, <3>1, <3>2, <3>3, <3>4 DEF UserAction
  <2> HIDE DEF assigned, working
  <2> QED
    BY <2>1, <2>2, <2>3, <1>b
<1> QED
  BY <1>1, <1>2

\* A case that only rewrites leaves the mark as it is, and raises no counter.
LEMMA RewritingKeepsMark ==
  ASSUME NEW x \in Rows, NEW k \in Rewriting, Unapproved(Rewritten(k, x))
  PROVE  Unapproved(x)
<1>1. CASE k = "3"
  <2>1. Rewritten("3", x).retries = 0
    BY DEF Rewritten, Rows
  <2> QED
    BY <1>1, <2>1 DEF Unapproved
<1>2. CASE k = "bootA"
  BY <1>2 DEF Rewritten, BackToIntake, Unapproved, Rows
<1>3. CASE k = "7" \/ k = "7b"
  BY <1>3 DEF Rewritten, BackToIntake, Unapproved, Rows
<1>4. CASE k = "9"
  BY <1>4 DEF Rewritten, Unapproved, Rows
<1> QED
  BY <1>1, <1>2, <1>3, <1>4 DEF Rewriting

\* A step of the job that leaves the claim without its mark goes on to trigger a run for it.
LEMMA JobStepAttends ==
  ASSUME RecoveryInv, NEW j \in Jobs, StartJob(j) \/ (JobStep(j) /\ ~Dispatch(j)), NEW c \in Claims,
         ~(job[j].claim = c /\ GiveUp(j)), Unapproved(row'[c])
  PROVE  /\ UNCHANGED <<target, at>>
         /\ \A i \in Jobs \ {j} : job'[i] = job[i]
         /\ \/ job'[j].claim = c /\ job'[j].step \in {"count", "dispatch"}
            \/ Unapproved(row[c]) /\ ~(job[j].claim = c /\ job[j].step \in {"count", "dispatch"})
<1> DEFINE b == job[j]
           d == b.claim
<1>a. row \in [Claims -> Rows] /\ Proper(b) /\ job \in [Jobs -> JobRecords]
  BY DEF RecoveryInv, PipeInv, PipeDataOK, JobOK
<1>b. \A x : SetRow(d, x) \/ TryUpdate(d, x) => (row'[c] = row[c] \/ (d = c /\ row'[c] = x))
  BY <1>a DEF SetRow, TryUpdate
<1>c. b.step \in Busy => b.claim \in Claims /\ b.case \in Cases /\ row[d] \in Rows
  BY <1>a DEF Proper, Busy
<1>d. \A x : UpdateJob(j, x) => job'[j] = x /\ \A i \in Jobs \ {j} : job'[i] = job[i]
  BY <1>a DEF UpdateJob
<1>e. UNCHANGED <<target, at>>
  BY DEF JobStep, StartJob, Query, TakeNext, Rewrite, GiveUp, ResetClaim, CountRetry, pipeVars, runVars
<1>f. \A i \in Jobs \ {j} : job'[i] = job[i]
  BY <1>d DEF JobStep, StartJob, Query, TakeNext, Rewrite, GiveUp, ResetClaim, CountRetry, WriteClaim
<1>1. CASE StartJob(j) \/ Query(j) \/ TakeNext(j)
  <2>1. UNCHANGED row
    BY <1>1 DEF StartJob, Query, TakeNext, pipeVars, claimVars
  <2>2. StartJob(j) => b.step = "query"
    BY DEF StartJob, Idle
  <2>3. Query(j) \/ TakeNext(j) => b.step \in {"query", "next"}
    BY DEF Query, TakeNext
  <2> QED
    BY <1>1, <2>1, <2>2, <2>3, <1>e, <1>f
<1>2. CASE Rewrite(j)
  <2>1. b.step = "write" /\ b.step \in Busy /\ b.case \in Rewriting
    BY <1>2, <1>a DEF Rewrite, Busy, Proper
  <2>2. UNCHANGED row \/ SetRow(d, Rewritten(b.case, row[d]))
    BY <1>2 DEF Rewrite, WriteClaim
  <2>3. Unapproved(row[c])
    BY <2>1, <2>2, <1>b, <1>c, RewritingKeepsMark
  <2> QED
    BY <2>1, <2>3, <1>e, <1>f
<1>3. CASE GiveUp(j)
  <2>1. b.step = "mark" /\ d # c
    BY <1>3 DEF GiveUp
  <2>2. UNCHANGED row \/ SetRow(d, GivenUp(b.case, row[d]))
    BY <1>3 DEF GiveUp, WriteClaim
  <2> QED
    BY <2>1, <2>2, <1>b, <1>e, <1>f
<1>4. CASE ResetClaim(j)
  <2>1. b.step = "reset"
    BY <1>4 DEF ResetClaim
  <2>2. UNCHANGED row \/ (TryUpdate(d, PreReset(b.case, row[d])) /\ UpdateJob(j, [b EXCEPT !.step = "count"]))
    BY <1>4 DEF ResetClaim
  <2>3. CASE UNCHANGED row
    BY <2>1, <2>3, <1>e, <1>f
  <2>4. CASE TryUpdate(d, PreReset(b.case, row[d])) /\ UpdateJob(j, [b EXCEPT !.step = "count"])
    <3>1. job'[j].step = "count" /\ job'[j].claim = d
      BY <2>4, <1>a, <1>d DEF Proper, JobRecords
    <3>2. d = c \/ row'[c] = row[c]
      BY <2>4, <1>b
    <3> QED
      BY <2>1, <3>1, <3>2, <1>e, <1>f
  <2> QED
    BY <2>2, <2>3, <2>4
<1>5. CASE CountRetry(j)
  <2>1. UpdateJob(j, [b EXCEPT !.step = "dispatch"])
    BY <1>5 DEF CountRetry
  <2>2. job'[j].step = "dispatch" /\ job'[j].claim = d
    BY <2>1, <1>a, <1>d DEF Proper, JobRecords
  <2>3. d = c \/ row'[c] = row[c]
    BY <1>5, <1>b DEF CountRetry
  <2> QED
    BY <2>2, <2>3, <1>e, <1>f
<1> QED
  BY <1>1, <1>2, <1>3, <1>4, <1>5 DEF JobStep

\* What may happen to claim c while it is neither turned away nor given up.
Undisturbed(c) == RecoveryNext /\ ~RestartAndClean /\ ~TurnedAway(c) /\ ~TakesApproval(c)

LEMMA StepAttends ==
  ASSUME RecoveryInv, NEW c \in Claims, ApprovedOrAttended(c), [Undisturbed(c)]_recoveryVars
  PROVE  ApprovedOrAttended(c)'
<1> SUFFICES ASSUME Unapproved(row'[c])
             PROVE  Attended(c)'
  BY DEF ApprovedOrAttended
<1> USE DEF Attended
<1>a. /\ PipeDataOK /\ row \in [Claims -> Rows] /\ at \in [Runs -> Stops]
      /\ target \in [Runs -> Claims]
  BY DEF RecoveryInv, PipeInv, PipeDataOK
<1>b. Unapproved(row[c]) => Attended(c)
  BY DEF ApprovedOrAttended
<1>c. ASSUME NEW r \in Runs, NEW d \in Claims, TriggerInBackground(r, d)
      PROVE  /\ target'[r] = d /\ at'[r] \in Early
             /\ Unapproved(row[c])
             /\ \A s \in Runs : at[s] \in Early => at'[s] = at[s] /\ target'[s] = target[s]
  BY <1>a, <1>c DEF TriggerInBackground, Invoke, Reusable, Goto, Early
<1>d. ASSUME PipeNext, ~row[c].triggered
      PROVE  Unapproved(row[c])
  <2>1. row'[c].retries = row[c].retries
    BY <1>a, <1>d, PipeKeepsRetries DEF PipeStep, KeepsRetries
  <2> QED
    BY <1>d, <2>1 DEF Unapproved
<1>1. ASSUME NEW r \in Runs, RunAction(r), UNCHANGED job, Undisturbed(c) PROVE Attended(c)'
  <2>1. /\ UNCHANGED target
        /\ \A s \in Runs \ {r} : at'[s] = at[s]
        /\ \A d \in Claims \ {target[r]} : row'[d] = row[d]
    BY <1>1, <1>a, RunActionLocal
  <2>2. target[r] = c => ~row[c].triggered /\ (at[r] \in Early => at'[r] \in Early)
    <3>1. target[r] = c => ~(caller[r] = "mutation" /\ CallerCatches(r))
      BY <1>1 DEF Undisturbed, TakesApproval
    <3>2. target[r] = c /\ at[r] \in Early => at'[r] # "rejected"
      BY <1>1 DEF Undisturbed, TurnedAway
    <3> QED
      BY <1>1, <1>a, <3>1, <3>2, RunKeepsMark DEF Unapproved
  <2>3. Unapproved(row[c])
    BY <1>1, <1>a, <1>d, <2>1, <2>2 DEF PipeNext, Unapproved
  <2> QED
    BY <1>1, <1>b, <2>1, <2>2, <2>3
<1>2. ASSUME UNCHANGED job, Undisturbed(c),
             \/ \E r \in Runs, d \in Claims : Trigger(r, d)
             \/ \E d \in Claims : UserAction(d) \/ RecordRerun(d)
      PROVE  Attended(c)'
  <2>1. ~ResetStuckClaim(c)
    BY <1>2 DEF Undisturbed, TakesApproval
  <2>2. /\ ~row[c].triggered
        /\ \A r \in Runs : at[r] \in Early => at'[r] = at[r] /\ target'[r] = target[r]
    BY <1>2, <1>a, <2>1, OtherStepKeepsMark DEF Unapproved
  <2>3. PipeNext
    BY <1>2 DEF PipeNext
  <2> QED
    BY <1>2, <1>b, <1>d, <2>2, <2>3
<1>3. ASSUME NEW d \in Claims, FireStaggered(d) PROVE Attended(c)'
  BY <1>3, <1>b, <1>c DEF FireStaggered
<1>4. ASSUME NEW j \in Jobs, Dispatch(j) PROVE Attended(c)'
  <2>1. job \in [Jobs -> JobRecords] /\ job[j].claim \in Claims
    BY <1>4 DEF Dispatch, RecoveryInv, JobOK, Proper, Busy
  <2>2. PICK r \in Runs : TriggerInBackground(r, job[j].claim)
    BY <1>4 DEF Dispatch
  <2>3. \A i \in Jobs \ {j} : job'[i] = job[i]
    BY <1>4, <2>1 DEF Dispatch, UpdateJob
  <2>4. /\ target'[r] = job[j].claim /\ at'[r] \in Early
        /\ Unapproved(row[c])
        /\ \A s \in Runs : at[s] \in Early => at'[s] = at[s] /\ target'[s] = target[s]
    BY <2>1, <2>2, <1>c
  <2> QED
    BY <1>b, <2>3, <2>4
<1>5. ASSUME NEW j \in Jobs, StartJob(j) \/ (JobStep(j) /\ ~Dispatch(j)), Undisturbed(c)
      PROVE  Attended(c)'
  <2>1. ~(job[j].claim = c /\ GiveUp(j))
    BY <1>5 DEF Undisturbed, TakesApproval
  <2>2. /\ UNCHANGED <<target, at>>
        /\ \A i \in Jobs \ {j} : job'[i] = job[i]
        /\ \/ job'[j].claim = c /\ job'[j].step \in {"count", "dispatch"}
           \/ Unapproved(row[c]) /\ ~(job[j].claim = c /\ job[j].step \in {"count", "dispatch"})
    BY <1>5, <2>1, JobStepAttends
  <2> QED
    BY <1>b, <2>2
<1>6. ASSUME Tick PROVE Attended(c)'
  <2>1. row'[c].retries = row[c].retries /\ row'[c].triggered = row[c].triggered
    BY <1>6, <1>a DEF Tick, Rows
  <2> QED
    BY <1>6, <1>b, <2>1 DEF Tick, runVars, Unapproved
<1>7. CASE UNCHANGED recoveryVars
  BY <1>7, <1>b DEF recoveryVars, pipeVars, claimVars, runVars
<1> QED
  BY <1>1, <1>2, <1>3, <1>4, <1>5, <1>6, <1>7 DEF Undisturbed, RecoveryNext, PipeNext

(* The causes of a forgotten retry, all of them: unless the server restarts, the triggered
   run is turned away before its first update (memory guard, no connection, an early error),
   or somebody takes the approval away (the reset button, the mutation's catch, a job that
   gives the claim up), a claim that has been retried is marked for a run, or a run or a job
   is on the way to mark it.  No case of the job, overlapping others, failing anywhere or
   working on rows it read long ago, no watchdog, catch or net and no other user loses it. *)
THEOREM RetryForgottenOnlyBy ==
  ASSUME NEW c \in Claims
  PROVE  RecoveryInit /\ [][Undisturbed(c)]_recoveryVars
           => [](ApprovedOrAttended(c) /\ KeepsApproval(c))
<1>1. RecoveryInit => ApprovedOrAttended(c)
  <2> SUFFICES ASSUME RecoveryInit PROVE ~Unapproved(row[c])
    BY DEF ApprovedOrAttended
  <2>1. row[c] \in FreshRows
    BY DEF RecoveryInit, PipeInit
  <2>2. row[c].retries = 0
    BY <2>1, RecoveryAssumption DEF RecoveryAssumption
  <2> QED
    BY <2>2 DEF Unapproved
<1>2. [Undisturbed(c)]_recoveryVars => [RecoveryNext]_recoveryVars
  BY DEF Undisturbed
<1>3. RecoveryInv /\ ApprovedOrAttended(c) /\ [Undisturbed(c)]_recoveryVars
        => ApprovedOrAttended(c)'
  BY StepAttends
<1>4. ApprovedOrAttended(c) => KeepsApproval(c)
  BY DEF ApprovedOrAttended, Attended, Unapproved, KeepsApproval, Early
<1> QED
  BY <1>1, <1>2, <1>3, <1>4, RecoveryInvInit, RecoveryInvStep, PTL
==============================================================================
