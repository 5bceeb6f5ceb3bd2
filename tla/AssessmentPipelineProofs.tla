----------------------- MODULE AssessmentPipelineProofs -----------------------
(***************************************************************************)
(* Proofs about triggerAiAssessment with restarts (CrashSpec), for every   *)
(* set of runs, claims and fresh rows.  The first part shows that the      *)
(* pipeline uses its semaphore as PipelineSlots says, so that what is      *)
(* proved there holds here.  The second shows types and control; the third *)
(* that a claim flagged completed has its report, that rows and reports    *)
(* are a PublishedReport, and that only a watchdog fails a completed       *)
(* claim, all of it as long as no two runs work on one claim, which        *)
(* MAX_CONCURRENT_PIPELINES = 1, the value db.ts gives it, ensures.  The   *)
(* last are about progress: invocations only move on, and no claim is left *)
(* in a pipeline status while the server stays up.                         *)
(***************************************************************************)
EXTENDS AssessmentPipeline, PipelineSlotsProofs

------------------------------------------------------------------------------
(* The pipeline and its semaphore. *)

(* Every step of an invocation that touches the semaphore is a step of it. *)
LEMMA RunActionUsesSlots ==
  ASSUME NEW r \in Runs, RunAction(r)
  PROVE  SlotsNext \/ UNCHANGED slotVars
<1>1. CASE DeferForMemory(r) \/ NoConnection(r)
  BY <1>1 DEF DeferForMemory, NoConnection, SlotsNext, RunStep
<1>2. CASE FailBeforeTry(r) \/ Validate(r) \/ Finally(r)
  BY <1>2 DEF FailBeforeTry, Validate, Finally, SlotsNext, RunStep
<1>3. CASE DeferralWrite(r) \/ MarkReady(r) \/ StartAnalysis(r) \/ StartOrchestrator(r)
           \/ TimeOut(r) \/ FailIncomplete(r) \/ RecordIncomplete(r) \/ InsertReport(r)
           \/ Finalise(r) \/ ConfirmDocState(r) \/ CatchError(r) \/ FindTransient(r)
           \/ CallerCatches(r)
  BY <1>3 DEF DeferralWrite, MarkReady, StartAnalysis, StartOrchestrator, TimeOut,
              FailIncomplete, RecordIncomplete, InsertReport, Finalise, ConfirmDocState,
              CatchError, FindTransient, CallerCatches
<1>4. CASE AttemptRecovery(r) \/ Heartbeat(r) \/ OrchestratorEnds(r) \/ IncompleteResult(r)
           \/ DeletePrevious(r) \/ Throw(r) \/ WatchdogFires(r) \/ WatchdogWrites(r)
  BY <1>4 DEF AttemptRecovery, Heartbeat, OrchestratorEnds, IncompleteResult,
              DeletePrevious, Throw, WatchdogFires, WatchdogWrites, runVars
<1> QED
  BY <1>1, <1>2, <1>3, <1>4 DEF RunAction, Progress

(* Every step of the system is a step of the semaphore, or leaves it alone. *)
LEMMA StepUsesSlots ==
  ASSUME [PipeNext \/ ServerRestart]_pipeVars
  PROVE  [SlotsNext]_slotVars
<1>1. ASSUME NEW r \in Runs, NEW c \in Claims, Trigger(r, c)
      PROVE  SlotsNext
  BY <1>1 DEF Trigger, TriggerInBackground, TriggerFromIntake, TriggerManually,
              TriggerReanalysis, Invoke, SlotsNext
<1>2. ASSUME NEW c \in Claims, UserAction(c) \/ RecordRerun(c)
      PROVE  UNCHANGED slotVars
  BY <1>2 DEF UserAction, ResetStuckClaim, AssignAssessor, MoveToAssessment, RecordRerun
<1>3. CASE ServerRestart
  BY <1>3 DEF ServerRestart, SlotsNext
<1>4. CASE UNCHANGED pipeVars
  BY <1>4 DEF pipeVars
<1> QED
  BY <1>1, <1>2, <1>3, <1>4, RunActionUsesSlots DEF PipeNext

(* Callers, memory guard, early errors, success, failure, timeout and restart
   all handle the slot of triggerAiAssessment as PipelineSlots says. *)
THEOREM PipelineUsesSlots == CrashSpec => UsesSlots
<1>1. PipeInit => SlotsInit
  BY DEF PipeInit
<1> QED
  BY <1>1, StepUsesSlots, PTL DEF CrashSpec, UsesSlots, SlotsSpec

(* So the counter of active pipelines is right, and bounds the invocations past
   acquirePipelineSlot, whatever fails and wherever the server restarts. *)
THEOREM PipelineAtMostMax == CrashSpec => [](SlotAccounting /\ AtMostMax)
BY PipelineUsesSlots, SlotAccountingHolds, AtMostMaxHolds, PTL DEF UsesSlots

------------------------------------------------------------------------------
(* Types, and where an invocation stands. *)

(* Writing one column of a row gives a row. *)
LEMMA ColumnWrites ==
  ASSUME NEW x \in Rows
  PROVE  /\ \A v \in Statuses : [x EXCEPT !.status = v] \in Rows
         /\ \A v \in DocStates : [x EXCEPT !.dps = v] \in Rows
         /\ \A v \in WorkflowStates : [x EXCEPT !.wf = v] \in Rows
         /\ \A v \in BOOLEAN : [x EXCEPT !.triggered = v] \in Rows
         /\ \A v \in BOOLEAN : [x EXCEPT !.completed = v] \in Rows
         /\ \A v \in Clock : [x EXCEPT !.updated = v] \in Rows
         /\ \A v \in Clock \union {NoTime} : [x EXCEPT !.started = v] \in Rows
         /\ \A v \in Clock \union {NoTime} : [x EXCEPT !.beat = v] \in Rows
BY DEF Rows

(* The values the pipeline writes. *)
LEMMA ColumnValues ==
  /\ 0 \in Clock /\ Now \in Clock \union {NoTime}
  /\ {"document_failed", "intake_pending", "analysis_complete", "document_validating",
      "assessment_in_progress", "assessment_pending", "recovery_attempted", "document_ready",
      "analysis_running"} \subseteq Statuses
  /\ {"DOCUMENT_FAILED", "failed", "ANALYSIS_COMPLETE", "DOCUMENT_VALIDATING", "parsing",
      "ASSESSMENT_START_FAILED", "intake_pending", "RECOVERY_ATTEMPTED", "DOCUMENT_READY",
      "ANALYSIS_RUNNING"} \subseteq DocStates
  /\ {"intake_queue", "under_assessment", "ai_assessment_completed"} \subseteq WorkflowStates
BY PipelineAssumption DEF Clock, Now, Statuses, DocStates, WorkflowStates, PipelineAssumption

(* The type of everything but the semaphore. *)
PipeDataOK ==
  /\ row \in [Claims -> Rows]
  /\ report \in [Claims -> {"none", "stub", "full"}]
  /\ target \in [Runs -> Claims]
  /\ caller \in [Runs -> {"background", "mutation", "intake"}]
  /\ at \in [Runs -> Stops]
  /\ succeeded \in [Runs -> BOOLEAN]
  /\ watchdog \in [Runs -> {"off", "armed", "firing"}]
  /\ orchestrating \subseteq Runs
  /\ moved \subseteq Claims

\* What every write but the last one of a run does to the rows.
NoneCompleted ==
  /\ row' \in [Claims -> Rows]
  /\ \A c \in Claims : row'[c].completed => row[c].completed

LEMMA QuietWrite ==
  ASSUME row \in [Claims -> Rows], NEW c \in Claims, NEW x \in Rows,
         x.completed => row[c].completed, SetRow(c, x)
  PROVE  NoneCompleted
BY DEF SetRow, NoneCompleted

LEMMA NoWrite ==
  ASSUME row \in [Claims -> Rows], UNCHANGED row
  PROVE  NoneCompleted
BY DEF NoneCompleted

(* Failing a claim, and sending it back to intake, complete nothing. *)
LEMMA FailureWrites ==
  ASSUME NEW x \in Rows
  PROVE  /\ Failed(x) \in Rows /\ Failed(x).completed = x.completed
         /\ \A d \in DocStates :
              /\ BackToIntake(x, d) \in Rows
              /\ BackToIntake(x, d).completed = x.completed
              /\ [BackToIntake(x, d) EXCEPT !.triggered = FALSE] \in Rows
              /\ [BackToIntake(x, d) EXCEPT !.triggered = FALSE].completed = x.completed
<1>1. Failed(x) \in Rows
  BY ColumnWrites, ColumnValues DEF Failed
<1>2. Failed(x).completed = x.completed
  BY DEF Failed, Rows
<1>3. ASSUME NEW d \in DocStates
      PROVE  BackToIntake(x, d) \in Rows /\ BackToIntake(x, d).completed = x.completed
  <2>1. BackToIntake(x, d) \in Rows
    BY <1>3, ColumnWrites, ColumnValues DEF BackToIntake
  <2>2. BackToIntake(x, d).completed = x.completed
    BY DEF BackToIntake, Rows
  <2> QED
    BY <2>1, <2>2
<1>4. ASSUME NEW y \in Rows
      PROVE  /\ [y EXCEPT !.triggered = FALSE] \in Rows
             /\ [y EXCEPT !.triggered = FALSE].completed = y.completed
  BY DEF Rows
<1> QED
  BY <1>1, <1>2, <1>3, <1>4

LEMMA TryFailed ==
  ASSUME row \in [Claims -> Rows], NEW c \in Claims, TrySetRow(c, Failed(row[c]))
  PROVE  NoneCompleted
<1>1. row[c] \in Rows
  OBVIOUS
<1> QED
  BY <1>1, FailureWrites, QuietWrite, NoWrite DEF TrySetRow

LEMMA TryBackToIntake ==
  ASSUME row \in [Claims -> Rows], NEW c \in Claims, NEW d \in DocStates,
         \/ TrySetRow(c, BackToIntake(row[c], d))
         \/ TrySetRow(c, [BackToIntake(row[c], d) EXCEPT !.triggered = FALSE])
  PROVE  NoneCompleted
<1> DEFINE x == BackToIntake(row[c], d)
           y == [x EXCEPT !.triggered = FALSE]
<1>1. /\ x \in Rows /\ x.completed = row[c].completed
      /\ y \in Rows /\ y.completed = row[c].completed
  BY FailureWrites
<1>2. SetRow(c, x) \/ SetRow(c, y) \/ UNCHANGED row
  BY DEF TrySetRow
<1> HIDE DEF x, y
<1> QED
  BY <1>1, <1>2, QuietWrite, NoWrite

(* Every step of an invocation but Finalise keeps the types and completes nothing. *)
LEMMA RunActionData ==
  ASSUME PipeDataOK, NEW r \in Runs, RunAction(r), ~Finalise(r)
  PROVE  PipeDataOK' /\ NoneCompleted
<1> DEFINE c == target[r]
<1> USE DEF PipeDataOK
<1>a. c \in Claims /\ row[c] \in Rows /\ row \in [Claims -> Rows]
  OBVIOUS
<1>b. UNCHANGED row => NoneCompleted
  BY <1>a, NoWrite
<1>1. CASE DeferralWrite(r)
  <2>1. NoneCompleted
    BY <1>1, <1>a, ColumnValues, TryBackToIntake DEF DeferralWrite
  <2> QED
    BY <1>1, <2>1 DEF DeferralWrite, Goto, Stops, InTry, NoneCompleted
<1>2. CASE Validate(r)
  <2> DEFINE x == [row[c] EXCEPT !.triggered = TRUE, !.completed = FALSE, !.updated = 0,
                      !.status = "document_validating", !.dps = "DOCUMENT_VALIDATING"]
  <2>1. x \in Rows
    BY <1>a, ColumnWrites, ColumnValues
  <2>2. x.completed = FALSE
    BY <1>a DEF Rows
  <2>3. NoneCompleted
    BY <1>2, <1>a, <2>1, <2>2, QuietWrite DEF Validate
  <2> QED
    BY <1>2, <2>3 DEF Validate, Goto, Stops, InTry, NoneCompleted
<1>3. CASE MarkReady(r)
  <2> DEFINE x == [row[c] EXCEPT !.status = "document_ready", !.dps = "DOCUMENT_READY",
                                 !.updated = 0]
  <2>1. x \in Rows
    BY <1>a, ColumnWrites, ColumnValues
  <2>2. x.completed = row[c].completed
    BY <1>a DEF Rows
  <2>3. NoneCompleted
    BY <1>3, <1>a, <1>b, <2>1, <2>2, QuietWrite DEF MarkReady, TrySetRow
  <2> QED
    BY <1>3, <2>3 DEF MarkReady, Goto, Stops, InTry, NoneCompleted
<1>4. CASE StartAnalysis(r)
  <2> DEFINE x == [row[c] EXCEPT !.status = "analysis_running", !.dps = "ANALYSIS_RUNNING",
                                 !.updated = 0]
  <2>1. x \in Rows
    BY <1>a, ColumnWrites, ColumnValues
  <2>2. x.completed = row[c].completed
    BY <1>a DEF Rows
  <2>3. NoneCompleted
    BY <1>4, <1>a, <1>b, <2>1, <2>2, QuietWrite DEF StartAnalysis, TrySetRow
  <2> QED
    BY <1>4, <2>3 DEF StartAnalysis, Goto, Stops, InTry, NoneCompleted
<1>5. CASE StartOrchestrator(r)
  <2> DEFINE x == [row[c] EXCEPT !.beat = Now, !.updated = 0]
  <2>1. x \in Rows
    BY <1>a, ColumnWrites, ColumnValues
  <2>2. x.completed = row[c].completed
    BY <1>a DEF Rows
  <2>3. NoneCompleted
    BY <1>5, <1>a, <1>b, <2>1, <2>2, QuietWrite DEF StartOrchestrator, TrySetRow
  <2> QED
    BY <1>5, <2>3 DEF StartOrchestrator, Goto, Stops, InTry, NoneCompleted
<1>6. CASE CatchError(r)
  <2>1. TrySetRow(c, row[c]) \/ TrySetRow(c, Failed(row[c]))
    BY <1>6 DEF CatchError
  <2>2. NoneCompleted
    BY <2>1, <1>a, <1>b, TryFailed, QuietWrite DEF TrySetRow
  <2> QED
    BY <1>6, <2>2 DEF CatchError, Goto, Stops, InTry, NoneCompleted
<1>7. CASE Finally(r)
  <2>1. NoneCompleted
    BY <1>7, <1>a, <1>b, TryFailed DEF Finally, Nets
  <2> QED
    BY <1>7, <2>1 DEF Finally, Goto, Stops, InTry, NoneCompleted
<1>8. CASE CallerCatches(r)
  <2>1. NoneCompleted
    BY <1>8, <1>a, <1>b, ColumnValues, TryBackToIntake DEF CallerCatches
  <2> QED
    BY <1>8, <2>1 DEF CallerCatches, Goto, Stops, InTry, NoneCompleted
<1>9. CASE AttemptRecovery(r)
  <2> DEFINE x == [row[c] EXCEPT !.status = "recovery_attempted", !.updated = 0,
                                 !.dps = "RECOVERY_ATTEMPTED"]
  <2>1. x \in Rows
    BY <1>a, ColumnWrites, ColumnValues
  <2>2. x.completed = row[c].completed
    BY <1>a DEF Rows
  <2>3. NoneCompleted
    BY <1>9, <1>a, <1>b, <2>1, <2>2, QuietWrite DEF AttemptRecovery, TrySetRow
  <2> QED
    BY <1>9, <2>3 DEF AttemptRecovery, Goto, Stops, InTry, NoneCompleted
<1>10. CASE Heartbeat(r)
  <2> DEFINE x == [row[c] EXCEPT !.beat = Now, !.updated = 0]
  <2>1. x \in Rows
    BY <1>a, ColumnWrites, ColumnValues
  <2>2. x.completed = row[c].completed
    BY <1>a DEF Rows
  <2>3. NoneCompleted
    BY <1>10, <1>a, <2>1, <2>2, QuietWrite DEF Heartbeat
  <2> QED
    BY <1>10, <2>3 DEF Heartbeat, NoneCompleted, runVars
<1>11. CASE WatchdogWrites(r)
  <2>1. NoneCompleted
    BY <1>11, <1>a, TryFailed DEF WatchdogWrites
  <2> QED
    BY <1>11, <2>1 DEF WatchdogWrites, NoneCompleted
<1>12. CASE TimeOut(r) \/ OrchestratorEnds(r) \/ IncompleteResult(r) \/ Throw(r)
            \/ WatchdogFires(r) \/ FindTransient(r)
  BY <1>12, <1>b DEF TimeOut, OrchestratorEnds, IncompleteResult, Throw, WatchdogFires,
                     FindTransient, Goto, Stops, InTry, claimVars
<1>13. CASE RecordIncomplete(r) \/ InsertReport(r) \/ DeletePrevious(r)
  BY <1>13, <1>b DEF RecordIncomplete, InsertReport, DeletePrevious, Goto, Stops, InTry
<1>14. CASE DeferForMemory(r) \/ NoConnection(r) \/ FailBeforeTry(r)
  BY <1>14, <1>b DEF DeferForMemory, NoConnection, FailBeforeTry, Goto, Stops, InTry, claimVars
<1>15. CASE FailIncomplete(r)
  <2>1. NoneCompleted
    BY <1>15, <1>a, TryFailed DEF FailIncomplete, TrySetRow
  <2> QED
    BY <1>15, <2>1 DEF FailIncomplete, Goto, Stops, InTry, NoneCompleted
<1>16. CASE ConfirmDocState(r)
  <2> DEFINE x == [row[c] EXCEPT !.dps = "ANALYSIS_COMPLETE", !.updated = 0]
  <2>1. x \in Rows
    BY <1>a, ColumnWrites, ColumnValues
  <2>2. x.completed = row[c].completed
    BY <1>a DEF Rows
  <2>3. NoneCompleted
    BY <1>16, <1>a, <1>b, <2>1, <2>2, QuietWrite DEF ConfirmDocState, TrySetRow
  <2> QED
    BY <1>16, <2>3 DEF ConfirmDocState, Goto, Stops, InTry, NoneCompleted
<1> QED
  BY <1>1, <1>2, <1>3, <1>4, <1>5, <1>6, <1>7, <1>8, <1>9, <1>10, <1>11, <1>12, <1>13, <1>14,
     <1>15, <1>16
  DEF RunAction, Progress

(* Finalise writes rows too: the full update, the minimal one or none. *)
LEMMA FinaliseData ==
  ASSUME PipeDataOK, NEW r \in Runs, Finalise(r)
  PROVE  /\ PipeDataOK'
         /\ \A c \in Claims : row'[c].completed => row[c].completed \/ c = target[r]
<1> DEFINE c == target[r]
           minimal == [row[c] EXCEPT !.completed = TRUE, !.status = "analysis_complete",
                                     !.dps = "ANALYSIS_COMPLETE", !.updated = 0]
           complete == [minimal EXCEPT !.wf = "ai_assessment_completed", !.beat = NoTime]
<1>1. c \in Claims /\ row[c] \in Rows
  BY DEF PipeDataOK
<1>2. minimal \in Rows
  BY <1>1, ColumnWrites, ColumnValues
<1>3. complete \in Rows
  BY <1>2, ColumnWrites, ColumnValues
<1>4. \E x \in {complete, minimal, row[c]} : SetRow(c, x)
  BY Zenon DEF Finalise
<1>5. PICK x \in Rows : SetRow(c, x)
  BY <1>1, <1>2, <1>3, <1>4
<1>6. row' \in [Claims -> Rows] /\ \A d \in Claims : d # c => row'[d] = row[d]
  BY <1>1, <1>5 DEF SetRow, PipeDataOK
<1> QED
  BY <1>6 DEF PipeDataOK, Finalise, Goto, Stops, InTry

(* The rerun of ai-rerun-service stores a row beside the run's and touches nothing else. *)
LEMMA RerunData ==
  ASSUME PipeDataOK, NEW c \in Claims, RecordRerun(c)
  PROVE  /\ PipeDataOK'
         /\ UNCHANGED <<row, target, caller, at, succeeded, watchdog, orchestrating, moved>>
         /\ report[c] = "none" /\ report' = [report EXCEPT ![c] = "stub"]
BY DEF RecordRerun, PipeDataOK, runVars

(* Callers, users and restarts keep the types and complete nothing. *)
LEMMA OtherStepData ==
  ASSUME PipeDataOK,
         \/ \E r \in Runs, c \in Claims : Trigger(r, c)
         \/ \E c \in Claims : UserAction(c)
         \/ ServerRestart \/ UNCHANGED pipeVars
  PROVE  PipeDataOK' /\ NoneCompleted
<1> USE DEF PipeDataOK
<1>a. row \in [Claims -> Rows]
  OBVIOUS
<1>1. ASSUME NEW r \in Runs, NEW c \in Claims, Trigger(r, c)
      PROVE  PipeDataOK' /\ NoneCompleted
  <2> DEFINE manual == [row[c] EXCEPT !.triggered = TRUE, !.dps = "parsing", !.started = Now,
                                      !.updated = 0]
             again == [row[c] EXCEPT !.triggered = TRUE, !.completed = FALSE, !.dps = "parsing",
                                     !.started = Now, !.updated = 0]
  <2>1. manual \in Rows /\ again \in Rows
    BY ColumnWrites, ColumnValues
  <2>2. manual.completed = row[c].completed /\ again.completed = FALSE
    <3>1. row[c] \in Rows
      BY <1>a
    <3> QED
      BY <3>1 DEF Rows
  <2>3. UNCHANGED row \/ SetRow(c, manual) \/ SetRow(c, again)
    BY <1>1 DEF Trigger, TriggerInBackground, TriggerFromIntake, TriggerManually,
                TriggerReanalysis, TrySetRow
  <2> HIDE DEF manual, again
  <2>4. NoneCompleted
    BY <1>a, <2>1, <2>2, <2>3, QuietWrite, NoWrite
  <2>5. \E who \in {"background", "intake", "mutation"} : Invoke(r, c, who)
    BY <1>1 DEF Trigger, TriggerInBackground, TriggerFromIntake, TriggerManually,
                TriggerReanalysis
  <2> QED
    BY <2>4, <2>5 DEF Invoke, Goto, Stops, InTry, NoneCompleted
<1>2. ASSUME NEW c \in Claims, UserAction(c)
      PROVE  PipeDataOK' /\ NoneCompleted
  <2> DEFINE x == [BackToIntake(row[c], "failed") EXCEPT !.triggered = FALSE]
             y == [row[c] EXCEPT !.status = "assessment_pending", !.updated = 0]
             z == [row[c] EXCEPT !.status = "assessment_in_progress",
                                 !.wf = "under_assessment", !.updated = 0]
  <2>0. row[c] \in Rows
    BY <1>a
  <2>1. x \in Rows /\ x.completed = row[c].completed
    BY <2>0, FailureWrites, ColumnValues
  <2>2. y \in Rows /\ z \in Rows
    BY <2>0, ColumnWrites, ColumnValues
  <2>3. y.completed = row[c].completed /\ z.completed = row[c].completed
    BY <2>0 DEF Rows
  <2>4. SetRow(c, x) \/ SetRow(c, y) \/ SetRow(c, z) \/ SetRow(c, row[c])
    BY <1>2 DEF UserAction, ResetStuckClaim, AssignAssessor, MoveToAssessment
  <2>5. /\ UNCHANGED <<report, target, caller, at, succeeded, watchdog, orchestrating>>
        /\ moved' \in {moved, moved \union {c}}
    BY <1>2 DEF UserAction, ResetStuckClaim, AssignAssessor, MoveToAssessment, runVars
  <2> HIDE DEF x, y, z
  <2>6. NoneCompleted
    BY <1>a, <2>0, <2>1, <2>2, <2>3, <2>4, QuietWrite
  <2> QED
    BY <2>5, <2>6 DEF NoneCompleted
<1>3. CASE ServerRestart
  <2>1. NoneCompleted
    BY <1>3, <1>a, NoWrite DEF ServerRestart, claimVars
  <2> QED
    BY <1>3, <2>1 DEF ServerRestart, Stops, NoneCompleted, claimVars
<1>4. CASE UNCHANGED pipeVars
  <2>1. NoneCompleted
    BY <1>4, <1>a, NoWrite DEF pipeVars, claimVars
  <2> QED
    BY <1>4, <2>1 DEF pipeVars, NoneCompleted, claimVars, runVars
<1> QED
  BY <1>1, <1>2, <1>3, <1>4

(* Giving a slot back moves the run out of the semaphore and the head of the
   queue, which stands at its acquire, into it. *)
LEMMA ReleaseKeepsStops ==
  ASSUME SlotInv, PipeDataOK, StopsMatchSlots, NEW r \in Runs,
         phase[r] \in {"preflight", "running"}, Release(r),
         NEW stop \in {"none", "deferring", "rejected"}, Goto(r, stop)
  PROVE  StopsMatchSlots'
<1> USE DEF SlotInv, SlotsTypeOK, PipeDataOK, InTry
<1>1. queue # <<>> => /\ Head(queue) \in Runs /\ phase[Head(queue)] = "waiting"
                      /\ Head(queue) # r
  BY DEF QueueIsTheWaiters
<1>2. ASSUME NEW s \in Runs, s # r
      PROVE  /\ at'[s] = at[s]
             /\ \/ phase'[s] = phase[s]
                \/ phase[s] = "waiting" /\ phase'[s] = "preflight"
  BY <1>1, <1>2 DEF Release, Goto
<1>3. at'[r] = stop /\ phase'[r] = "idle"
  BY <1>1 DEF Release, Goto
<1> QED
  BY <1>2, <1>3 DEF StopsMatchSlots

(* Each step of an invocation leaves it where its slot says. *)
LEMMA RunActionStops ==
  ASSUME SlotInv, PipeDataOK, StopsMatchSlots, NEW r \in Runs, RunAction(r)
  PROVE  StopsMatchSlots'
<1> USE DEF SlotInv, SlotsTypeOK, PipeDataOK, InTry
<1>1. CASE DeferForMemory(r) \/ NoConnection(r)
  BY <1>1, ReleaseKeepsStops DEF DeferForMemory, NoConnection, LeavePreflight
<1>2. CASE Finally(r)
  BY <1>2, ReleaseKeepsStops DEF Finally, FinallyRelease
<1>3. CASE FailBeforeTry(r)
  BY <1>3 DEF FailBeforeTry, ThrowInPreflight, Goto, StopsMatchSlots
<1>4. CASE Validate(r)
  BY <1>4 DEF Validate, EnterTry, Goto, StopsMatchSlots
<1>5. CASE Heartbeat(r) \/ OrchestratorEnds(r) \/ WatchdogFires(r) \/ WatchdogWrites(r)
  BY <1>5 DEF Heartbeat, OrchestratorEnds, WatchdogFires, WatchdogWrites,
              runVars, slotVars, StopsMatchSlots
<1>6. ASSUME UNCHANGED slotVars,
             \/ at[r] \in InTry /\ \E stop \in InTry : Goto(r, stop)
             \/ at[r] \in {"deferring", "rejected"} /\ \E stop \in {"none", "rejected"} : Goto(r, stop)
      PROVE  StopsMatchSlots'
  BY <1>6 DEF Goto, InTry, slotVars, StopsMatchSlots
<1>7. CASE DeferralWrite(r) \/ CallerCatches(r)
  BY <1>6, <1>7 DEF DeferralWrite, CallerCatches
<1>8. CASE AttemptRecovery(r) \/ MarkReady(r) \/ StartAnalysis(r) \/ StartOrchestrator(r)
           \/ TimeOut(r) \/ FailIncomplete(r) \/ RecordIncomplete(r) \/ FindTransient(r)
  BY <1>6, <1>8 DEF AttemptRecovery, MarkReady, StartAnalysis, StartOrchestrator, TimeOut,
                    FailIncomplete, RecordIncomplete, FindTransient
<1>9. CASE InsertReport(r) \/ Finalise(r) \/ ConfirmDocState(r) \/ CatchError(r)
           \/ IncompleteResult(r) \/ DeletePrevious(r) \/ Throw(r)
  BY <1>6, <1>9 DEF InsertReport, Finalise, ConfirmDocState, CatchError, IncompleteResult,
                    DeletePrevious, Throw
<1> QED
  BY <1>1, <1>2, <1>3, <1>4, <1>5, <1>7, <1>8, <1>9 DEF RunAction, Progress

(* So does every step of the system. *)
LEMMA StepStops ==
  ASSUME SlotInv, PipeDataOK, StopsMatchSlots, [PipeNext \/ ServerRestart]_pipeVars
  PROVE  StopsMatchSlots'
<1> USE DEF SlotInv, SlotsTypeOK, PipeDataOK, InTry
<1>1. ASSUME NEW r \in Runs, NEW c \in Claims, Trigger(r, c)
      PROVE  StopsMatchSlots'
  <2>1. Reusable(r) /\ Acquire(r) /\ Goto(r, "called")
    BY <1>1 DEF Trigger, TriggerInBackground, TriggerFromIntake, TriggerManually,
                TriggerReanalysis, Invoke
  <2> QED
    BY <2>1 DEF Reusable, Acquire, AcquireNow, AcquireLater, Goto, StopsMatchSlots
<1>2. ASSUME NEW c \in Claims, UserAction(c) \/ RecordRerun(c)
      PROVE  StopsMatchSlots'
  BY <1>2 DEF UserAction, ResetStuckClaim, AssignAssessor, MoveToAssessment, RecordRerun,
              StopsMatchSlots, slotVars, runVars
<1>3. CASE UNCHANGED pipeVars
  BY <1>3 DEF StopsMatchSlots, slotVars, runVars, pipeVars
<1>4. CASE ServerRestart
  BY <1>4 DEF ServerRestart, Restart, StopsMatchSlots
<1> QED
  BY <1>1, <1>2, <1>3, <1>4, RunActionStops DEF PipeNext

(* What the later theorems build on, in one inductive invariant. *)
PipeInv == SlotInv /\ PipeDataOK /\ StopsMatchSlots

LEMMA PipeInvInit == PipeInit => PipeInv
<1> SUFFICES ASSUME PipeInit PROVE PipeInv
  OBVIOUS
<1>1. SlotInv
  BY EmptySlots DEF PipeInit, SlotsInit
<1>2. PipeDataOK
  BY PipelineAssumption DEF PipeInit, PipeDataOK, Stops, PipelineAssumption
<1>3. StopsMatchSlots
  BY DEF PipeInit, SlotsInit, InTry, StopsMatchSlots
<1> QED
  BY <1>1, <1>2, <1>3 DEF PipeInv

LEMMA PipeInvStep == PipeInv /\ [PipeNext \/ ServerRestart]_pipeVars => PipeInv'
<1> SUFFICES ASSUME PipeInv, [PipeNext \/ ServerRestart]_pipeVars PROVE PipeInv'
  OBVIOUS
<1>1. SlotInv'
  BY StepUsesSlots, SlotStepKeeps DEF PipeInv
<1>2. PipeDataOK'
  BY RunActionData, FinaliseData, OtherStepData, RerunData DEF PipeInv, PipeNext
<1>3. StopsMatchSlots'
  BY StepStops DEF PipeInv
<1> QED
  BY <1>1, <1>2, <1>3 DEF PipeInv

(* An invocation stands before, inside or after the try statement exactly as
   its slot says, whichever way it gets there. *)
THEOREM StopsMatchSlotsHolds == CrashSpec => []StopsMatchSlots
<1>1. PipeInv => StopsMatchSlots
  BY DEF PipeInv
<1> QED
  BY <1>1, PipeInvInit, PipeInvStep, PTL DEF CrashSpec

(* The types of rows, reports and invocations hold in every behaviour. *)
THEOREM PipeTypes == CrashSpec => []PipeTypeOK
<1>1. PipeInv => PipeTypeOK
  BY DEF PipeInv, SlotInv, PipeDataOK, PipeTypeOK
<1> QED
  BY <1>1, PipeInvInit, PipeInvStep, PTL DEF CrashSpec

------------------------------------------------------------------------------
(* Completed claims have their report. *)

\* Two runs inside the try statement work on different claims.
OneRunPerClaim ==
  \A r, s \in Runs : at[r] \in InTry /\ at[s] \in InTry /\ target[r] = target[s] => r = s

\* Until a run has set pipelineSucceeded its claim is not completed, and once it has
\* inserted its report the report is there.
ReportInv ==
  /\ CompletedHasReport
  /\ \A r \in Runs : succeeded[r] => at[r] \in {"finalised", "leavingOk"}
  /\ \A r \in Runs : at[r] \in InTry /\ ~succeeded[r] => ~row[target[r]].completed
  /\ \A r \in Runs : at[r] = "saved" => report[target[r]] = "full"

(* With one slot, one run is inside the try statement. *)
LEMMA OneRunner ==
  ASSUME MaxConcurrent = 1, PipeInv, NEW r \in Runs, NEW s \in Runs,
         at[r] \in InTry, at[s] \in InTry
  PROVE  r = s
<1> SUFFICES ASSUME r # s PROVE FALSE
  OBVIOUS
<1>1. {r, s} \subseteq Holders
  BY DEF PipeInv, StopsMatchSlots, InTry, Holders
<1>2. Cardinality({r, s}) = 2 /\ IsFiniteSet({r, s})
  <2>1. IsFiniteSet({r}) /\ Cardinality({r}) = 1
    BY FS_Singleton
  <2>2. Cardinality({r} \union {s}) = 2 /\ IsFiniteSet({r} \union {s})
    BY <2>1, FS_AddElement
  <2>3. {r} \union {s} = {r, s}
    OBVIOUS
  <2> QED
    BY <2>2, <2>3
<1>3. Cardinality({r, s}) <= Cardinality(Holders)
  BY <1>1, HoldersFinite, FS_Subset
<1> QED
  BY <1>2, <1>3, HoldersFinite DEF PipeInv, SlotInv, SlotAccounting, SlotsTypeOK

LEMMA OneSlotOneRun ==
  ASSUME MaxConcurrent = 1, PipeInv
  PROVE  OneRunPerClaim
BY OneRunner DEF OneRunPerClaim

(* A step of a run touches its own locals, its own stop and the row of its own claim. *)
LEMMA RunActionLocal ==
  ASSUME PipeDataOK, NEW r \in Runs, RunAction(r)
  PROVE  /\ UNCHANGED target
         /\ \A s \in Runs \ {r} : at'[s] = at[s] /\ succeeded'[s] = succeeded[s]
         /\ \A d \in Claims \ {target[r]} : row'[d] = row[d]
<1> DEFINE c == target[r]
<1>1. /\ UNCHANGED target
      /\ (\E stop : Goto(r, stop)) \/ UNCHANGED at
      /\ (\E v : succeeded' = [succeeded EXCEPT ![r] = v]) \/ UNCHANGED succeeded
  BY DEF RunAction, Progress, Goto, DeferralWrite, Validate, MarkReady,
         StartAnalysis, StartOrchestrator, TimeOut, FailIncomplete, RecordIncomplete,
         InsertReport, Finalise, ConfirmDocState, CatchError, FindTransient, Finally,
         CallerCatches, DeferForMemory, NoConnection, FailBeforeTry, AttemptRecovery, Heartbeat,
         OrchestratorEnds, IncompleteResult, DeletePrevious, Throw, WatchdogFires,
         WatchdogWrites, runVars
<1>2. (\E x : SetRow(c, x)) \/ UNCHANGED row
  BY DEF RunAction, Progress, DeferralWrite, Validate, MarkReady, TrySetRow,
         StartAnalysis, StartOrchestrator, TimeOut, FailIncomplete, RecordIncomplete,
         InsertReport, Finalise, ConfirmDocState, CatchError, FindTransient, Finally, Nets,
         CallerCatches, DeferForMemory, NoConnection, FailBeforeTry, AttemptRecovery, Heartbeat,
         OrchestratorEnds, IncompleteResult, DeletePrevious, Throw, WatchdogFires,
         WatchdogWrites, claimVars
<1> QED
  BY <1>1, <1>2 DEF Goto, SetRow, PipeDataOK

(* pipelineSucceeded is set by the last update and outlived only by the finally clause. *)
LEMMA RunActionSucceeded ==
  ASSUME PipeDataOK, ReportInv, NEW r \in Runs, RunAction(r), succeeded'[r]
  PROVE  /\ at'[r] \in {"finalised", "leavingOk"}
         /\ succeeded[r] \/ Finalise(r)
<1>a. at \in [Runs -> Stops] /\ succeeded \in [Runs -> BOOLEAN]
  BY DEF PipeDataOK
<1>1. CASE Finalise(r)
  BY <1>1, <1>a DEF Finalise, Goto
<1>2. CASE ~Finalise(r)
  <2>1. UNCHANGED succeeded
    <3>1. ~Finally(r)
      BY <1>a DEF Finally
    <3> QED
      BY <1>2, <3>1 DEF RunAction, Progress, DeferralWrite, Validate, MarkReady, StartAnalysis,
         StartOrchestrator, TimeOut, FailIncomplete, RecordIncomplete, InsertReport,
         ConfirmDocState, CatchError, FindTransient, CallerCatches, DeferForMemory,
         NoConnection, FailBeforeTry, AttemptRecovery, Heartbeat, OrchestratorEnds,
         IncompleteResult, DeletePrevious, Throw, WatchdogFires, WatchdogWrites, runVars
  <2>2. succeeded[r] /\ at[r] \in {"finalised", "leavingOk"}
    BY <2>1 DEF ReportInv
  <2>3. ConfirmDocState(r) \/ UNCHANGED at
    BY <1>2, <2>1, <2>2, <1>a DEF RunAction, Progress, DeferralWrite, Validate, MarkReady, StartAnalysis,
         StartOrchestrator, TimeOut, FailIncomplete, RecordIncomplete, InsertReport, Finally,
         ConfirmDocState, CatchError, FindTransient, CallerCatches, DeferForMemory,
         NoConnection, FailBeforeTry, AttemptRecovery, Heartbeat, OrchestratorEnds,
         IncompleteResult, DeletePrevious, Throw, WatchdogFires, WatchdogWrites, runVars
  <2> QED
    BY <2>2, <2>3, <1>a DEF ConfirmDocState, Goto
<1> QED
  BY <1>1, <1>2

(* The steps that write no report and complete no claim. *)
LEMMA QuietStepReport ==
  ASSUME ReportInv, PipeDataOK, NoneCompleted, UNCHANGED report,
         \A r \in Runs : succeeded'[r] => succeeded[r] /\ at'[r] \in {"finalised", "leavingOk"},
         \A r \in Runs : at'[r] \in InTry /\ ~succeeded'[r]
                           => /\ target'[r] = target[r] /\ at[r] \in InTry /\ ~succeeded[r]
                              /\ at'[r] = "saved" => at[r] = "saved"
  PROVE  ReportInv'
<1>1. CompletedHasReport'
  BY DEF ReportInv, CompletedHasReport, NoneCompleted
<1>2. ASSUME NEW r \in Runs, at'[r] \in InTry, ~succeeded'[r]
      PROVE  ~row'[target'[r]].completed
  <2>1. target[r] \in Claims /\ target'[r] = target[r] /\ at[r] \in InTry /\ ~succeeded[r]
    BY <1>2 DEF PipeDataOK
  <2>2. ~row[target[r]].completed
    BY <2>1 DEF ReportInv
  <2> QED
    BY <2>1, <2>2 DEF NoneCompleted
<1>3. ASSUME NEW r \in Runs, at'[r] = "saved"
      PROVE  report'[target'[r]] = "full"
  BY <1>3 DEF ReportInv, InTry
<1> QED
  BY <1>1, <1>2, <1>3 DEF ReportInv

(* Each step of a run keeps reports and flags in line. *)
LEMMA RunActionReport ==
  ASSUME OneRunPerClaim, PipeInv, ReportInv, NEW r \in Runs, RunAction(r)
  PROVE  ReportInv'
<1> DEFINE c == target[r]
<1>a. PipeDataOK /\ c \in Claims /\ at \in [Runs -> Stops] /\ target \in [Runs -> Claims]
  BY DEF PipeInv, PipeDataOK
<1>b. \A s \in Runs : at[r] \in InTry /\ at[s] \in InTry /\ target[s] = c => s = r
  BY DEF OneRunPerClaim
<1>c. /\ UNCHANGED target
      /\ \A s \in Runs \ {r} : at'[s] = at[s] /\ succeeded'[s] = succeeded[s]
      /\ \A d \in Claims \ {c} : row'[d] = row[d]
  BY <1>a, RunActionLocal
<1>d. \A s \in Runs : succeeded'[s] => at'[s] \in {"finalised", "leavingOk"}
  BY <1>a, <1>c, RunActionSucceeded DEF ReportInv
<1>1. CASE Finalise(r)
  <2>1. report[c] = "full" /\ UNCHANGED report
    BY <1>1 DEF ReportInv, Finalise
  <2>2. \A d \in Claims : row'[d].completed => row[d].completed \/ d = c
    BY <1>1, <1>a, FinaliseData
  <2>3. at[r] = "saved" /\ at'[r] = "finalised" /\ succeeded'[r]
    BY <1>1, <1>a DEF Finalise, Goto, PipeDataOK
  <2>4. ASSUME NEW s \in Runs, at'[s] \in InTry, ~succeeded'[s]
        PROVE  ~row'[target'[s]].completed
    <3>1. s # r /\ at[s] \in InTry /\ ~succeeded[s] /\ target'[s] = target[s]
      BY <2>3, <2>4, <1>c
    <3>2. target[s] \in Claims \ {c}
      BY <3>1, <2>3, <1>a, <1>b DEF InTry
    <3> QED
      BY <3>1, <3>2, <1>c DEF ReportInv
  <2>5. CompletedHasReport'
    BY <2>1, <2>2 DEF ReportInv, CompletedHasReport
  <2>6. \A s \in Runs : at'[s] = "saved" => report'[target'[s]] = "full"
    BY <2>1, <2>3, <1>c DEF ReportInv
  <2> QED
    BY <2>4, <2>5, <2>6, <1>d DEF ReportInv
<1>2. CASE ~Finalise(r)
  <2>1. NoneCompleted
    BY <1>2, <1>a, RunActionData
  <2>2. CASE Validate(r)
    <3>1. ~row'[c].completed /\ at'[r] = "preparing" /\ UNCHANGED report
      BY <2>2, <1>a DEF Validate, SetRow, Goto, PipeDataOK, Rows
    <3>2. ASSUME NEW s \in Runs, at'[s] \in InTry, ~succeeded'[s]
          PROVE  ~row'[target'[s]].completed
      <4>1. CASE s = r
        BY <3>1, <4>1, <1>c
      <4>2. CASE s # r
        BY <3>2, <4>2, <2>1, <1>a, <1>c DEF ReportInv, NoneCompleted
      <4> QED
        BY <4>1, <4>2
    <3>3. CompletedHasReport'
      BY <3>1, <2>1 DEF ReportInv, CompletedHasReport, NoneCompleted
    <3>4. \A s \in Runs : at'[s] = "saved" => report'[target'[s]] = "full"
      BY <3>1, <1>c DEF ReportInv
    <3> QED
      BY <3>2, <3>3, <3>4, <1>d DEF ReportInv
  <2>3. CASE DeletePrevious(r) \/ InsertReport(r) \/ RecordIncomplete(r)
    <3>1. /\ at[r] \in InTry /\ at[r] \notin {"finalised", "leavingOk"}
          /\ \A d \in Claims : d # c => report'[d] = report[d]
          /\ at'[r] \in InTry
          /\ at'[r] = "saved" => report'[c] = "full"
      BY <2>3, <1>a DEF DeletePrevious, InsertReport, RecordIncomplete, Goto,
                        InTry, PipeDataOK
    <3>2. ~row[c].completed /\ ~row'[c].completed
      BY <3>1, <2>1, <1>a DEF ReportInv, NoneCompleted
    <3>3. CompletedHasReport'
      BY <3>1, <3>2, <2>1 DEF ReportInv, CompletedHasReport, NoneCompleted
    <3>4. ASSUME NEW s \in Runs, at'[s] \in InTry, ~succeeded'[s]
          PROVE  ~row'[target'[s]].completed
      <4>1. CASE s = r
        BY <3>2, <4>1, <1>c
      <4>2. CASE s # r
        BY <3>4, <4>2, <2>1, <1>a, <1>c DEF ReportInv, NoneCompleted
      <4> QED
        BY <4>1, <4>2
    <3>5. ASSUME NEW s \in Runs, at'[s] = "saved"
          PROVE  report'[target'[s]] = "full"
      <4>1. CASE s = r
        BY <3>1, <3>5, <4>1, <1>c
      <4>2. CASE s # r
        <5>1. at[s] = "saved" /\ target'[s] = target[s] /\ target[s] \in Claims
          BY <3>5, <4>2, <1>a, <1>c
        <5>2. target[s] # c
          BY <5>1, <4>2, <3>1, <1>b DEF InTry
        <5> QED
          BY <5>1, <5>2, <3>1 DEF ReportInv
      <4> QED
        BY <4>1, <4>2
    <3> QED
      BY <3>3, <3>4, <3>5, <1>d DEF ReportInv
  <2>4. CASE ~(Validate(r) \/ DeletePrevious(r) \/ InsertReport(r) \/ RecordIncomplete(r))
    <3>1. UNCHANGED report
      BY <1>2, <2>4 DEF RunAction, Progress, DeferralWrite, MarkReady, claimVars,
         StartAnalysis, StartOrchestrator, TimeOut, FailIncomplete, ConfirmDocState,
         CatchError, FindTransient, Finally, CallerCatches, DeferForMemory,
         NoConnection, FailBeforeTry, AttemptRecovery, Heartbeat, OrchestratorEnds,
         IncompleteResult, Throw, WatchdogFires, WatchdogWrites, runVars
    <3>2. at'[r] \in InTry => /\ at[r] \in InTry /\ (at'[r] = "saved" => at[r] = "saved")
                              /\ succeeded'[r] = succeeded[r]
      BY <1>2, <2>4, <1>a DEF RunAction, Progress, DeferralWrite, MarkReady, claimVars,
         StartAnalysis, StartOrchestrator, TimeOut, FailIncomplete, ConfirmDocState,
         CatchError, FindTransient, Finally, CallerCatches, DeferForMemory,
         NoConnection, FailBeforeTry, AttemptRecovery, Heartbeat, OrchestratorEnds,
         IncompleteResult, Throw, WatchdogFires, WatchdogWrites, runVars, Goto, PipeDataOK,
         InTry
    <3>3. \A s \in Runs : succeeded'[s] => succeeded[s]
      BY <1>2, <1>a, <1>c, RunActionSucceeded
    <3> QED
      BY <3>1, <3>2, <3>3, <2>1, <1>a, <1>c, <1>d, QuietStepReport
  <2> QED
    BY <2>2, <2>3, <2>4
<1> QED
  BY <1>1, <1>2

(* At the start nothing is completed, ... *)
LEMMA ReportInvInit == PipeInit => ReportInv
<1> SUFFICES ASSUME PipeInit PROVE ReportInv
  OBVIOUS
<1>1. \A r \in Runs : at[r] = "none" /\ ~succeeded[r]
  BY DEF PipeInit
<1>2. \A c \in Claims : ~row[c].completed
  BY PipelineAssumption DEF PipeInit, PipelineAssumption
<1> QED
  BY <1>1, <1>2 DEF ReportInv, InTry, CompletedHasReport

(* ... and with one run at a time on a claim every step keeps reports and flags in line. *)
LEMMA ReportInvStep ==
  OneRunPerClaim /\ PipeInv /\ ReportInv /\ [PipeNext \/ ServerRestart]_pipeVars => ReportInv'
<1> SUFFICES ASSUME OneRunPerClaim, PipeInv, ReportInv, [PipeNext \/ ServerRestart]_pipeVars
             PROVE  ReportInv'
  OBVIOUS
<1>1. PipeDataOK
  BY DEF PipeInv
<1>2. ASSUME NEW r \in Runs, RunAction(r)
      PROVE  ReportInv'
  BY <1>2, RunActionReport
<1>3. ASSUME \/ \E r \in Runs, c \in Claims : Trigger(r, c)
             \/ \E c \in Claims : UserAction(c)
             \/ ServerRestart \/ UNCHANGED pipeVars
      PROVE  ReportInv'
  <2>1. NoneCompleted
    BY <1>1, <1>3, OtherStepData
  <2>2. UNCHANGED report
    BY <1>3 DEF Trigger, TriggerInBackground, TriggerFromIntake, TriggerManually,
       TriggerReanalysis, Invoke, UserAction, ResetStuckClaim, AssignAssessor, MoveToAssessment,
       ServerRestart, pipeVars, claimVars
  <2>3. ASSUME NEW s \in Runs
        PROVE  /\ succeeded'[s] => succeeded[s] /\ at'[s] = at[s]
               /\ at'[s] \in InTry => /\ at'[s] = at[s] /\ target'[s] = target[s]
                                      /\ succeeded'[s] = succeeded[s]
    <3>1. ASSUME NEW r \in Runs, NEW c \in Claims, Trigger(r, c)
          PROVE  /\ succeeded'[s] => succeeded[s] /\ at'[s] = at[s]
                 /\ at'[s] \in InTry => /\ at'[s] = at[s] /\ target'[s] = target[s]
                                        /\ succeeded'[s] = succeeded[s]
      <4>1. \E who \in {"background", "intake", "mutation"} : Invoke(r, c, who)
        BY <3>1 DEF Trigger, TriggerInBackground, TriggerFromIntake, TriggerManually,
                    TriggerReanalysis
      <4> QED
        BY <1>1, <4>1 DEF Invoke, Goto, PipeDataOK, InTry
    <3>2. ASSUME \/ \E c \in Claims : UserAction(c)
                 \/ ServerRestart \/ UNCHANGED pipeVars
          PROVE  /\ succeeded'[s] => succeeded[s] /\ at'[s] = at[s]
                 /\ at'[s] \in InTry => /\ at'[s] = at[s] /\ target'[s] = target[s]
                                        /\ succeeded'[s] = succeeded[s]
      BY <3>2 DEF UserAction, ResetStuckClaim, AssignAssessor, MoveToAssessment, ServerRestart,
                        pipeVars, runVars, InTry
    <3> QED
      BY <1>3, <3>1, <3>2
  <2>4. \A s \in Runs : succeeded'[s] => succeeded[s] /\ at'[s] \in {"finalised", "leavingOk"}
    BY <2>3 DEF ReportInv
  <2> QED
    BY <1>1, <2>1, <2>2, <2>3, <2>4, QuietStepReport
<1>4. ASSUME NEW c \in Claims, RecordRerun(c)
      PROVE  ReportInv'
  <2>1. /\ UNCHANGED <<row, target, at, succeeded>>
        /\ report[c] = "none" /\ report' = [report EXCEPT ![c] = "stub"]
    BY <1>1, <1>4, RerunData
  <2>2. \A d \in Claims : report[d] = "full" => report'[d] = "full"
    BY <1>1, <2>1 DEF PipeDataOK
  <2> QED
    BY <1>1, <2>1, <2>2 DEF ReportInv, CompletedHasReport, PipeDataOK
<1> QED
  BY <1>2, <1>3, <1>4 DEF PipeNext

(* However many pipelines may run at once: as long as no two of them work on the same
   claim, a claim flagged aiAssessmentCompleted has its full report, deletes, inserts,
   stubs, timeouts, late watchdogs, failing writes and restarts included. *)
THEOREM CompletedHasReportUnlessTwice == CrashSpec /\ []OneRunPerClaim => []CompletedHasReport
<1>1. ReportInv => CompletedHasReport
  BY DEF ReportInv
<1> QED
  BY <1>1, ReportInvInit, ReportInvStep, PipeInvInit, PipeInvStep, PTL DEF CrashSpec

(* With MAX_CONCURRENT_PIPELINES = 1 no two runs are inside the try statement at all, ... *)
THEOREM OneSlotKeepsRunsApart ==
  ASSUME MaxConcurrent = 1
  PROVE  CrashSpec => []OneRunPerClaim
BY OneSlotOneRun, PipeInvInit, PipeInvStep, PTL DEF CrashSpec

(* ... so there no claim is ever flagged completed without its report. *)
THEOREM CompletedHasReportHolds ==
  ASSUME MaxConcurrent = 1
  PROVE  CrashSpec => []CompletedHasReport
BY CompletedHasReportUnlessTwice, OneSlotKeepsRunsApart, PTL

------------------------------------------------------------------------------
(* The claims table and the reports are a published report. *)

Flags == [c \in Claims |-> row[c].completed]

\* A step after which flags, where anything changed, are down.
LEMMA QuietStepPublishes ==
  ASSUME PipeDataOK, NoneCompleted, UNCHANGED report, NEW c \in Claims,
         \A d \in Claims \ {c} : row'[d].completed = row[d].completed
  PROVE  [Published!Next]_(Published!vars)
<1>1. \A d \in Claims : row[d].completed \in BOOLEAN /\ row'[d].completed \in BOOLEAN
  BY DEF PipeDataOK, NoneCompleted, Rows
<1>2. CASE row'[c].completed = row[c].completed
  <2>1. Flags' = Flags
    BY <1>2 DEF Flags
  <2> QED
    BY <2>1 DEF Published!vars, Flags
<1>3. CASE row'[c].completed # row[c].completed
  <2>1. row'[c].completed = FALSE
    BY <1>1, <1>3 DEF NoneCompleted
  <2>2. Flags' = [Flags EXCEPT ![c] = FALSE]
    BY <2>1 DEF Flags
  <2> QED
    BY <2>2 DEF Published!Next, Published!Withdraw, Flags
<1> QED
  BY <1>2, <1>3

\* A run that replaces the report of its claim does so while the flag is down.
LEMMA ReplacingPublishes ==
  ASSUME ReportInv, PipeDataOK, NEW r \in Runs,
         DeletePrevious(r) \/ InsertReport(r) \/ RecordIncomplete(r)
  PROVE  [Published!Next]_(Published!vars)
<1> DEFINE c == target[r]
<1>1. c \in Claims /\ at[r] \in {"analysing", "inserting", "stubbing"} /\ UNCHANGED row
  BY DEF DeletePrevious, InsertReport, RecordIncomplete, PipeDataOK
<1>2. ~Flags[c] /\ Flags' = Flags
  BY <1>1 DEF ReportInv, InTry, Flags
<1>3. report \in [Claims -> {"none", "stub", "full"}]
  BY DEF PipeDataOK
<1>4. \/ report' = report
      \/ report' = [report EXCEPT ![c] = "none"]
      \/ report' = [report EXCEPT ![c] = "full"]
      \/ report[c] = "none" /\ report' = [report EXCEPT ![c] = "stub"]
  <2>1. CASE DeletePrevious(r)
    BY <2>1 DEF DeletePrevious
  <2>2. CASE InsertReport(r)
    BY <2>2 DEF InsertReport
  <2>3. CASE RecordIncomplete(r)
    <3>1. \/ report' = report
          \/ report' = [report EXCEPT ![c] = IF report[c] = "none" THEN "stub" ELSE report[c]]
      BY <2>3 DEF RecordIncomplete
    <3> QED
      BY <3>1, <1>1, <1>3
  <2> QED
    BY <2>1, <2>2, <2>3
<1> QED
  BY <1>1, <1>2, <1>4 DEF Published!Next, Published!Replace, Published!vars, Flags

(* The empty row of a rerun takes the place of nothing, so the flag is down. *)
LEMMA RerunPublishes ==
  ASSUME ReportInv, PipeDataOK, NEW c \in Claims, RecordRerun(c)
  PROVE  [Published!Next]_(Published!vars)
<1>1. /\ UNCHANGED row
      /\ report[c] = "none" /\ report' = [report EXCEPT ![c] = "stub"]
  BY RerunData
<1>2. ~Flags[c] /\ Flags' = Flags
  BY <1>1 DEF ReportInv, CompletedHasReport, Flags
<1> QED
  BY <1>1, <1>2 DEF Published!Next, Published!Replace, Published!vars, Flags

\* The final update raises the flag over the report its run has stored.
LEMMA FinalisePublishes ==
  ASSUME ReportInv, PipeDataOK, NEW r \in Runs, Finalise(r)
  PROVE  [Published!Next]_(Published!vars)
<1> DEFINE c == target[r]
<1>1. c \in Claims /\ row[c] \in Rows /\ row \in [Claims -> Rows]
  BY DEF PipeDataOK
<1>2. at[r] = "saved" /\ report[c] = "full" /\ UNCHANGED report /\ ~succeeded[r]
  BY DEF ReportInv, Finalise
<1>3. ~Flags[c]
  BY <1>1, <1>2 DEF ReportInv, InTry, Flags
<1>4. UNCHANGED row \/ \E x : SetRow(c, x) /\ x.completed = TRUE
  <2> DEFINE minimal == [row[c] EXCEPT !.completed = TRUE, !.status = "analysis_complete",
                                       !.dps = "ANALYSIS_COMPLETE", !.updated = 0]
             complete == [minimal EXCEPT !.wf = "ai_assessment_completed", !.beat = NoTime]
  <2>1. minimal.completed = TRUE /\ complete.completed = TRUE
    BY <1>1 DEF Rows
  <2>2. SetRow(c, complete) \/ SetRow(c, minimal) \/ SetRow(c, row[c])
    BY DEF Finalise
  <2>3. SetRow(c, row[c]) => UNCHANGED row
    BY <1>1 DEF SetRow
  <2> QED
    BY <2>1, <2>2, <2>3
<1>5. CASE UNCHANGED row
  BY <1>2, <1>5 DEF Published!vars
<1>6. CASE \E x : SetRow(c, x) /\ x.completed = TRUE
  <2>1. Flags' = [Flags EXCEPT ![c] = TRUE]
    BY <1>1, <1>6 DEF SetRow, Flags
  <2> QED
    BY <1>1, <1>2, <1>3, <2>1 DEF Published!Next, Published!Publish, Flags
<1> QED
  BY <1>4, <1>5, <1>6

\* Which row a trigger or a user writes.
LEMMA OtherStepRow ==
  ASSUME PipeDataOK,
         \/ \E r \in Runs, c \in Claims : Trigger(r, c)
         \/ \E c \in Claims : UserAction(c)
         \/ ServerRestart \/ UNCHANGED pipeVars
  PROVE  UNCHANGED report /\ \E c \in Claims : \A d \in Claims \ {c} : row'[d] = row[d]
<1>1. ASSUME NEW c \in Claims, (\E x : SetRow(c, x)) \/ UNCHANGED row
      PROVE  \A d \in Claims \ {c} : row'[d] = row[d]
  BY <1>1 DEF SetRow, PipeDataOK
<1>2. ASSUME NEW r \in Runs, NEW c \in Claims, Trigger(r, c)
      PROVE  UNCHANGED report /\ ((\E x : SetRow(c, x)) \/ UNCHANGED row)
  BY <1>2 DEF Trigger, TriggerInBackground, TriggerFromIntake, TriggerManually,
              TriggerReanalysis, Invoke, TrySetRow
<1>3. ASSUME NEW c \in Claims, UserAction(c)
      PROVE  UNCHANGED report /\ \E x : SetRow(c, x)
  BY <1>3 DEF UserAction, ResetStuckClaim, AssignAssessor, MoveToAssessment
<1>4. CASE ServerRestart \/ UNCHANGED pipeVars
  <2>1. UNCHANGED <<row, report>>
    BY <1>4 DEF ServerRestart, pipeVars, claimVars
  <2> QED
    BY <2>1, PipelineAssumption DEF PipelineAssumption
<1> QED
  BY <1>1, <1>2, <1>3, <1>4

LEMMA StepPublishes ==
  ASSUME ReportInv, PipeDataOK, [PipeNext \/ ServerRestart]_pipeVars
  PROVE  [Published!Next]_(Published!vars)
<1>1. ASSUME NEW r \in Runs, RunAction(r)
      PROVE  [Published!Next]_(Published!vars)
  <2>1. CASE Finalise(r)
    BY <2>1, FinalisePublishes
  <2>2. CASE DeletePrevious(r) \/ InsertReport(r) \/ RecordIncomplete(r)
    BY <2>2, ReplacingPublishes
  <2>3. CASE ~(Finalise(r) \/ DeletePrevious(r) \/ InsertReport(r) \/ RecordIncomplete(r))
    <3>1. NoneCompleted
      BY <1>1, <2>3, RunActionData
    <3>2. UNCHANGED report
      BY <1>1, <2>3 DEF RunAction, Progress, DeferralWrite, MarkReady, claimVars, Validate,
         StartAnalysis, StartOrchestrator, TimeOut, FailIncomplete, ConfirmDocState,
         CatchError, FindTransient, Finally, CallerCatches, DeferForMemory,
         NoConnection, FailBeforeTry, AttemptRecovery, Heartbeat, OrchestratorEnds,
         IncompleteResult, Throw, WatchdogFires, WatchdogWrites, runVars
    <3>3. target[r] \in Claims /\ \A d \in Claims \ {target[r]} : row'[d] = row[d]
      BY <1>1, RunActionLocal DEF PipeDataOK
    <3> QED
      BY <3>1, <3>2, <3>3, QuietStepPublishes
  <2> QED
    BY <2>1, <2>2, <2>3
<1>2. ASSUME \/ \E r \in Runs, c \in Claims : Trigger(r, c)
             \/ \E c \in Claims : UserAction(c)
             \/ ServerRestart \/ UNCHANGED pipeVars
      PROVE  [Published!Next]_(Published!vars)
  <2>1. NoneCompleted
    BY <1>2, OtherStepData
  <2>2. UNCHANGED report /\ \E c \in Claims : \A d \in Claims \ {c} : row'[d] = row[d]
    BY <1>2, OtherStepRow
  <2> QED
    BY <2>1, <2>2, QuietStepPublishes
<1>3. ASSUME NEW c \in Claims, RecordRerun(c)
      PROVE  [Published!Next]_(Published!vars)
  BY <1>3, RerunPublishes
<1> QED
  BY <1>1, <1>2, <1>3 DEF PipeNext

LEMMA InitPublishes == PipeInit => Published!Init
<1> SUFFICES ASSUME PipeInit PROVE Published!Init
  OBVIOUS
<1>1. \A c \in Claims : row[c] \in Rows /\ ~row[c].completed
  BY PipelineAssumption DEF PipeInit, PipelineAssumption
<1>2. \A c \in Claims : row[c].completed = FALSE
  BY <1>1 DEF Rows
<1> QED
  BY <1>2 DEF PipeInit, Published!Init

(* As long as no two runs work on the same claim, triggerAiAssessment and its users
   implement the published report: reports are exchanged behind a lowered flag. *)
THEOREM PublishesUnlessTwice == CrashSpec /\ []OneRunPerClaim => ImplementsPublishedReport
<1>1. PipeInv => PipeDataOK
  BY DEF PipeInv
<1>2. PipeDataOK /\ ReportInv /\ [PipeNext \/ ServerRestart]_pipeVars
        => [Published!Next]_(Published!vars)
  BY StepPublishes
<1> QED
  BY <1>1, <1>2, InitPublishes, ReportInvInit, ReportInvStep, PipeInvInit, PipeInvStep, PTL
  DEF CrashSpec, ImplementsPublishedReport, Published!Spec

(* With MAX_CONCURRENT_PIPELINES = 1 they do so without condition. *)
THEOREM ImplementsPublishedReportHolds ==
  ASSUME MaxConcurrent = 1
  PROVE  CrashSpec => ImplementsPublishedReport
BY PublishesUnlessTwice, OneSlotKeepsRunsApart, PTL

------------------------------------------------------------------------------
(* A claim that has completed is failed by nobody but a late watchdog. *)

\* Claim c has completed, and a step fails it.
FailsCompleted(c) ==
  row[c].completed /\ row[c].status = "analysis_complete" /\ row'[c].status = "document_failed"

\* A watchdog of claim c writes.
WatchdogEnds(c) == \E r \in Runs : target[r] = c /\ watchdog[r] = "firing" /\ watchdog'[r] = "off"

(* Failure handling inside a run looks at a claim its run has not completed. *)
LEMMA RunActionFails ==
  ASSUME PipeDataOK, ReportInv, NEW r \in Runs, RunAction(r), NEW c \in Claims, FailsCompleted(c)
  PROVE  WatchdogEnds(c)
<1>a. /\ row \in [Claims -> Rows] /\ row[c] \in Rows /\ at \in [Runs -> Stops]
      /\ watchdog \in [Runs -> {"off", "armed", "firing"}]
  BY DEF PipeDataOK
<1>b. target[r] = c
  BY RunActionLocal DEF FailsCompleted
<1>c. ~(at[r] \in InTry /\ ~succeeded[r])
  BY <1>b DEF ReportInv, FailsCompleted
<1>d. \A x : SetRow(c, x) \/ TrySetRow(c, x) => x.status = "document_failed"
  BY <1>a DEF SetRow, TrySetRow, FailsCompleted
<1>e. ~UNCHANGED row
  BY DEF FailsCompleted
<1>1. CASE WatchdogWrites(r)
  BY <1>1, <1>a, <1>b DEF WatchdogWrites, WatchdogEnds
<1>2. ~Validate(r)
  <2>1. [row[c] EXCEPT !.triggered = TRUE, !.completed = FALSE, !.updated = 0,
           !.status = "document_validating", !.dps = "DOCUMENT_VALIDATING"].status # "document_failed"
    BY <1>a DEF Rows
  <2> QED
    BY <2>1, <1>b, <1>d DEF Validate
<1>3. /\ at[r] \notin {"preparing", "recovering", "ready", "starting", "analysing", "incomplete",
                       "stubbing", "inserting", "saved", "catching", "netting", "nettingOk"}
      /\ at[r] \in {"leaving", "leavingOk"} => succeeded[r]
  BY <1>c DEF InTry, ReportInv
<1>4. ~Heartbeat(r) /\ ~ConfirmDocState(r)
  <2>1. /\ [row[c] EXCEPT !.beat = Now, !.updated = 0].status # "document_failed"
        /\ [row[c] EXCEPT !.dps = "ANALYSIS_COMPLETE", !.updated = 0].status # "document_failed"
    BY <1>a DEF Rows, FailsCompleted
  <2> QED
    BY <2>1, <1>b, <1>d DEF Heartbeat, ConfirmDocState
<1>5. ~DeferralWrite(r) /\ ~CallerCatches(r)
  <2>1. \A d : /\ BackToIntake(row[c], d).status # "document_failed"
               /\ [BackToIntake(row[c], d) EXCEPT !.triggered = FALSE].status # "document_failed"
    BY <1>a DEF Rows, BackToIntake
  <2> QED
    BY <2>1, <1>b, <1>d, <1>e DEF DeferralWrite, CallerCatches
<1> QED
  BY <1>1, <1>2, <1>3, <1>4, <1>5, <1>e
  DEF RunAction, Progress, MarkReady, StartAnalysis, StartOrchestrator, TimeOut, FailIncomplete,
      RecordIncomplete, InsertReport, Finalise, CatchError, FindTransient, Finally, Nets,
      DeferForMemory, NoConnection, FailBeforeTry, AttemptRecovery, OrchestratorEnds,
      IncompleteResult, DeletePrevious, Throw, WatchdogFires, claimVars

(* Callers, users and restarts fail no claim. *)
LEMMA OtherStepFails ==
  ASSUME PipeDataOK, NEW c \in Claims,
         \/ \E r \in Runs, d \in Claims : Trigger(r, d)
         \/ \E d \in Claims : UserAction(d)
         \/ ServerRestart \/ UNCHANGED pipeVars
  PROVE  ~FailsCompleted(c)
<1>a. row \in [Claims -> Rows]
  BY DEF PipeDataOK
<1>b. ASSUME NEW d \in Claims, NEW x, x.status = row[d].status \/ x.status # "document_failed",
             SetRow(d, x) \/ UNCHANGED row
      PROVE  ~FailsCompleted(c)
  BY <1>a, <1>b DEF SetRow, FailsCompleted
<1>1. ASSUME NEW r \in Runs, NEW d \in Claims, Trigger(r, d)
      PROVE  ~FailsCompleted(c)
  <2> DEFINE manual == [row[d] EXCEPT !.triggered = TRUE, !.dps = "parsing", !.started = Now,
                                      !.updated = 0]
             again == [row[d] EXCEPT !.triggered = TRUE, !.completed = FALSE, !.dps = "parsing",
                                     !.started = Now, !.updated = 0]
  <2>1. manual.status = row[d].status /\ again.status = row[d].status
    BY <1>a DEF Rows
  <2>2. SetRow(d, manual) \/ SetRow(d, again) \/ UNCHANGED row
    BY <1>1 DEF Trigger, TriggerInBackground, TriggerFromIntake, TriggerManually,
                TriggerReanalysis, TrySetRow
  <2> HIDE DEF manual, again
  <2> QED
    BY <2>1, <2>2, <1>b
<1>2. ASSUME NEW d \in Claims, UserAction(d)
      PROVE  ~FailsCompleted(c)
  <2> DEFINE working == [row[d] EXCEPT !.status = "assessment_in_progress",
                                       !.wf = "under_assessment", !.updated = 0]
             assigned == [row[d] EXCEPT !.status = "assessment_pending", !.updated = 0]
             reset == [BackToIntake(row[d], "failed") EXCEPT !.triggered = FALSE]
  <2>1. \E x \in {row[d], working, assigned, reset} : SetRow(d, x)
    BY <1>2 DEF UserAction, MoveToAssessment, ResetStuckClaim, AssignAssessor
  <2>2. working.status # "document_failed" /\ assigned.status # "document_failed"
    BY <1>a DEF Rows
  <2>3. reset.status # "document_failed"
    BY <1>a DEF Rows, BackToIntake
  <2> HIDE DEF working, assigned, reset
  <2> QED
    BY <2>1, <2>2, <2>3, <1>b
<1>3. CASE ServerRestart \/ UNCHANGED pipeVars
  BY <1>3 DEF ServerRestart, pipeVars, claimVars, FailsCompleted
<1> QED
  BY <1>1, <1>2, <1>3

LEMMA StepFails ==
  ASSUME PipeDataOK, ReportInv, [PipeNext \/ ServerRestart]_pipeVars, NEW c \in Claims,
         FailsCompleted(c)
  PROVE  WatchdogEnds(c)
<1>1. ASSUME NEW d \in Claims, RecordRerun(d)
      PROVE  FALSE
  BY <1>1, RerunData DEF FailsCompleted
<1> QED
  BY <1>1, RunActionFails, OtherStepFails DEF PipeNext

(* "Do NOT reset ... that is the claim-cycling bug" (db.ts, the catch clause): as long as no
   two runs work on one claim, catch, finally, the orchestrator's refusal, users and restarts
   never fail a claim that has completed; the timer, which looks at pipelineSucceeded
   before it writes and not when it writes, is the only one that may. *)
THEOREM OnlyWatchdogUnlessTwice == CrashSpec /\ []OneRunPerClaim => OnlyWatchdogFailsCompleted
<1>1. PipeInv /\ ReportInv /\ [PipeNext \/ ServerRestart]_pipeVars
        => [\A c \in Claims :
              /\ row[c].completed /\ row[c].status = "analysis_complete"
              /\ row'[c].status = "document_failed"
              => \E r \in Runs : target[r] = c /\ watchdog[r] = "firing" /\ watchdog'[r] = "off"]_pipeVars
  BY StepFails DEF PipeInv, FailsCompleted, WatchdogEnds
<1> QED
  BY <1>1, ReportInvInit, ReportInvStep, PipeInvInit, PipeInvStep, PTL
  DEF CrashSpec, OnlyWatchdogFailsCompleted

(* With MAX_CONCURRENT_PIPELINES = 1 that holds without condition. *)
THEOREM OnlyWatchdogFailsCompletedHolds ==
  ASSUME MaxConcurrent = 1
  PROVE  CrashSpec => OnlyWatchdogFailsCompleted
BY OnlyWatchdogUnlessTwice, OneSlotKeepsRunsApart, PTL

------------------------------------------------------------------------------
(* Why every invocation comes back: the part of the argument that is safety. *)

\* The stops in an order in which every path through triggerAiAssessment visits them.
Rank == [stop \in Stops |->
           CASE stop = "called" -> 1
             [] stop \in {"deferring", "preparing"} -> 2
             [] stop = "recovering" -> 3
             [] stop = "ready" -> 4
             [] stop = "starting" -> 5
             [] stop = "analysing" -> 6
             [] stop \in {"incomplete", "inserting"} -> 7
             [] stop \in {"stubbing", "saved"} -> 8
             [] stop \in {"finalised", "catching"} -> 9
             [] stop \in {"leaving", "leavingOk"} -> 10
             [] stop \in {"netting", "nettingOk"} -> 11
             [] stop = "rejected" -> 12
             [] stop = "none" -> 13]

\* Invocation r is where it was, or further on.
MovesOn(r) == at[r] # "none" /\ at'[r] # at[r] => Rank[at[r]] < Rank[at'[r]]

LEMMA RunActionMovesOn ==
  ASSUME PipeDataOK, NEW r \in Runs, RunAction(r)
  PROVE  /\ MovesOn(r)
         /\ Progress(r) => at[r] # "none" /\ Rank[at[r]] < Rank[at'[r]]
<1>a. at \in [Runs -> Stops] /\ at[r] \in Stops
  BY DEF PipeDataOK
<1>r. /\ Rank["called"] = 1 /\ Rank["deferring"] = 2 /\ Rank["preparing"] = 2
      /\ Rank["recovering"] = 3 /\ Rank["ready"] = 4 /\ Rank["starting"] = 5
      /\ Rank["analysing"] = 6 /\ Rank["incomplete"] = 7 /\ Rank["inserting"] = 7
      /\ Rank["stubbing"] = 8 /\ Rank["saved"] = 8 /\ Rank["finalised"] = 9
      /\ Rank["catching"] = 9 /\ Rank["leaving"] = 10 /\ Rank["leavingOk"] = 10
      /\ Rank["netting"] = 11 /\ Rank["nettingOk"] = 11 /\ Rank["rejected"] = 12
      /\ Rank["none"] = 13
  BY DEF Rank, Stops, InTry
<1>1. ASSUME NEW stop \in Stops, Goto(r, stop)
      PROVE  at'[r] = stop
  BY <1>1, <1>a DEF Goto
<1>2. CASE Heartbeat(r) \/ OrchestratorEnds(r) \/ WatchdogFires(r) \/ WatchdogWrites(r)
  <2>1. UNCHANGED at
    BY <1>2 DEF Heartbeat, OrchestratorEnds, WatchdogFires, WatchdogWrites, runVars
  <2>2. ~Progress(r)
    BY <2>1, <1>a DEF Progress, DeferralWrite, Validate, MarkReady, StartAnalysis, StartOrchestrator,
       TimeOut, FailIncomplete, RecordIncomplete, InsertReport, Finalise, ConfirmDocState,
       CatchError, FindTransient, Finally, CallerCatches, Goto
  <2> QED
    BY <2>1, <2>2 DEF MovesOn
<1>3. CASE DeferForMemory(r) \/ NoConnection(r) \/ FailBeforeTry(r) \/ AttemptRecovery(r)
           \/ IncompleteResult(r) \/ DeletePrevious(r) \/ Throw(r)
  <2>1. at[r] # "none" /\ Rank[at[r]] < Rank[at'[r]]
    BY <1>3, <1>a, <1>r DEF DeferForMemory, NoConnection, FailBeforeTry, AttemptRecovery,
       IncompleteResult, DeletePrevious, Throw, Goto
  <2> QED
    BY <2>1 DEF MovesOn
<1>4. CASE Progress(r)
  <2>1. CASE DeferralWrite(r) \/ Validate(r) \/ MarkReady(r) \/ StartAnalysis(r)
             \/ StartOrchestrator(r) \/ TimeOut(r) \/ FailIncomplete(r) \/ RecordIncomplete(r)
    BY <2>1, <1>a, <1>r DEF DeferralWrite, Validate, MarkReady, StartAnalysis, StartOrchestrator,
       TimeOut, FailIncomplete, RecordIncomplete, Goto, MovesOn
  <2>2. CASE InsertReport(r) \/ Finalise(r) \/ ConfirmDocState(r) \/ CatchError(r)
             \/ FindTransient(r) \/ Finally(r) \/ CallerCatches(r)
    BY <2>2, <1>a, <1>r DEF InsertReport, Finalise, ConfirmDocState, CatchError, FindTransient,
       Finally, CallerCatches, Goto, MovesOn
  <2> QED
    BY <1>4, <2>1, <2>2 DEF Progress
<1> QED
  BY <1>2, <1>3, <1>4 DEF RunAction

LEMMA StepMovesOn ==
  ASSUME PipeDataOK, [PipeNext \/ ServerRestart]_pipeVars, NEW r \in Runs
  PROVE  MovesOn(r)
<1>a. at \in [Runs -> Stops] /\ at[r] \in Stops
  BY DEF PipeDataOK
<1>1. ASSUME NEW s \in Runs, RunAction(s)
      PROVE  MovesOn(r)
  BY <1>1, RunActionMovesOn, RunActionLocal DEF MovesOn
<1>2. ASSUME NEW s \in Runs, NEW c \in Claims, Trigger(s, c)
      PROVE  MovesOn(r)
  BY <1>2, <1>a DEF Trigger, TriggerInBackground, TriggerFromIntake, TriggerManually,
     TriggerReanalysis, Invoke, Reusable, Goto, MovesOn
<1>3. CASE ServerRestart
  <2>1. at'[r] = "none"
    BY <1>3 DEF ServerRestart
  <2>2. Rank["none"] = 13 /\ (at[r] # "none" => Rank[at[r]] < 13)
    BY <1>a DEF Rank, Stops, InTry
  <2> QED
    BY <2>1, <2>2 DEF MovesOn
<1>4. CASE UNCHANGED pipeVars \/ \E c \in Claims : UserAction(c) \/ RecordRerun(c)
  <2>1. UNCHANGED at
    BY <1>4 DEF UserAction, MoveToAssessment, ResetStuckClaim, AssignAssessor, RecordRerun,
                pipeVars, runVars
  <2> QED
    BY <2>1 DEF MovesOn
<1> QED
  BY <1>1, <1>2, <1>3, <1>4 DEF PipeNext

(* No retry, fallback, catch, finally, watchdog, timeout or restart sends an invocation back
   to an earlier stop: once called it only moves on, so no path through
   triggerAiAssessment is longer than the ranks allow.  With the fairness of FairPipeSpec
   this is why EveryRunEnds, which TLC checks, holds. *)
THEOREM RunsMoveOn == CrashSpec => [][\A r \in Runs : MovesOn(r)]_pipeVars
<1>1. PipeInv /\ [PipeNext \/ ServerRestart]_pipeVars => [\A r \in Runs : MovesOn(r)]_pipeVars
  BY StepMovesOn DEF PipeInv
<1> QED
  BY <1>1, PipeInvInit, PipeInvStep, PTL DEF CrashSpec

(* And each of the steps an invocation owes does move it on. *)
THEOREM OwedStepsMoveOn ==
  CrashSpec => [][\A r \in Runs : Progress(r) => Rank[at[r]] < Rank[at'[r]]]_pipeVars
<1>1. PipeInv /\ [PipeNext \/ ServerRestart]_pipeVars
        => [\A r \in Runs : Progress(r) => Rank[at[r]] < Rank[at'[r]]]_pipeVars
  BY RunActionMovesOn DEF PipeInv, RunAction
<1> QED
  BY <1>1, PipeInvInit, PipeInvStep, PTL DEF CrashSpec

------------------------------------------------------------------------------
(* No claim is left in a pipeline status while the server stays up. *)

\* From its first update on, a run owes its claim a write that leaves these statuses.
Owing == {"preparing", "recovering", "ready", "starting", "analysing", "incomplete",
          "inserting", "saved", "catching"}

TransientInv ==
  /\ \A c \in Claims : row[c].status \in RunStatuses
                         => \E r \in Runs : target[r] = c /\ at[r] \in Owing
  /\ \A r \in Runs : at[r] \in Owing \union {"called"} => ~succeeded[r]

(* Failing a claim and sending it back to intake leave the statuses of a run. *)
LEMMA FailureStatus ==
  ASSUME NEW x \in Rows
  PROVE  /\ Failed(x).status \notin RunStatuses
         /\ \A d : /\ BackToIntake(x, d).status \notin RunStatuses
                   /\ [BackToIntake(x, d) EXCEPT !.triggered = FALSE].status \notin RunStatuses
BY DEF Failed, BackToIntake, RunStatuses, Rows

(* A run that stops owing has just written another status, ... *)
LEMMA OwingEnds ==
  ASSUME DbMayFail = FALSE, PipeDataOK, TransientInv, NEW r \in Runs, RunAction(r),
         at[r] \in Owing, at'[r] \notin Owing
  PROVE  row'[target[r]].status \notin RunStatuses
<1> DEFINE c == target[r]
<1>a. c \in Claims /\ row \in [Claims -> Rows] /\ row[c] \in Rows
  BY DEF PipeDataOK
<1>1. CASE FailIncomplete(r)
  BY <1>1, <1>a, FailureStatus DEF FailIncomplete, SetRow
<1>2. CASE CatchError(r)
  <2>1. SetRow(c, Failed(row[c]))
    BY <1>2 DEF CatchError, TrySetRow, TransientInv
  <2> QED
    BY <2>1, <1>a, FailureStatus DEF SetRow
<1>3. CASE Finalise(r)
  <2> DEFINE minimal == [row[c] EXCEPT !.completed = TRUE, !.status = "analysis_complete",
                                       !.dps = "ANALYSIS_COMPLETE", !.updated = 0]
             complete == [minimal EXCEPT !.wf = "ai_assessment_completed", !.beat = NoTime]
  <2>1. complete.status \notin RunStatuses
    BY <1>a DEF Rows, RunStatuses
  <2>2. SetRow(c, complete)
    BY <1>3 DEF Finalise
  <2> HIDE DEF complete
  <2> QED
    BY <1>a, <2>1, <2>2 DEF SetRow
<1>4. FailIncomplete(r) \/ CatchError(r) \/ Finalise(r)
  BY DEF RunAction, Progress, DeferralWrite, Validate, MarkReady, StartAnalysis, StartOrchestrator,
         TimeOut, RecordIncomplete, InsertReport, ConfirmDocState, FindTransient, Finally,
         CallerCatches, DeferForMemory, NoConnection, FailBeforeTry, AttemptRecovery, Heartbeat,
         OrchestratorEnds, IncompleteResult, DeletePrevious, Throw, WatchdogFires, WatchdogWrites,
         runVars, Goto, Owing, PipeDataOK
<1> QED
  BY <1>1, <1>2, <1>3, <1>4

(* ... and one that owes nothing writes none of the statuses of a run. *)
LEMMA NotOwing ==
  ASSUME PipeDataOK, NEW r \in Runs, RunAction(r), at[r] \notin Owing, at'[r] \notin Owing,
         row'[target[r]].status \in RunStatuses
  PROVE  row[target[r]].status \in RunStatuses
<1> DEFINE c == target[r]
<1>a. c \in Claims /\ row \in [Claims -> Rows] /\ row[c] \in Rows
  BY DEF PipeDataOK
<1>1. \A n, d : /\ [row[c] EXCEPT !.beat = n, !.updated = 0].status = row[c].status
                /\ [row[c] EXCEPT !.dps = d, !.updated = 0].status = row[c].status
  BY <1>a DEF Rows
<1>2. CASE Heartbeat(r) \/ ConfirmDocState(r)
  <2>1. \E x : (SetRow(c, x) \/ UNCHANGED row) /\ x.status = row[c].status
    BY <1>2, <1>1 DEF Heartbeat, ConfirmDocState, TrySetRow
  <2> QED
    BY <1>a, <2>1 DEF SetRow
<1>3. CASE DeferralWrite(r) \/ Finally(r) \/ CallerCatches(r) \/ WatchdogWrites(r)
  <2>1. \E x : (SetRow(c, x) \/ UNCHANGED row) /\ x.status \notin RunStatuses
    BY <1>3, <1>a, FailureStatus
    DEF DeferralWrite, Finally, Nets, CallerCatches, WatchdogWrites, TrySetRow
  <2> QED
    BY <1>a, <2>1 DEF SetRow
<1>4. CASE UNCHANGED row
  BY <1>4
<1> QED
  BY <1>2, <1>3, <1>4
  DEF RunAction, Progress, Validate, MarkReady, StartAnalysis, StartOrchestrator, TimeOut,
      FailIncomplete, RecordIncomplete, InsertReport, Finalise, CatchError, FindTransient,
      DeferForMemory, NoConnection, FailBeforeTry, AttemptRecovery, OrchestratorEnds,
      IncompleteResult, DeletePrevious, Throw, WatchdogFires, claimVars, Goto, Owing, PipeDataOK

LEMMA RunActionTransient ==
  ASSUME DbMayFail = FALSE, PipeDataOK, TransientInv, NEW r \in Runs, RunAction(r)
  PROVE  TransientInv'
<1> DEFINE c == target[r]
<1>a. c \in Claims /\ row \in [Claims -> Rows] /\ at \in [Runs -> Stops]
      /\ succeeded \in [Runs -> BOOLEAN]
  BY DEF PipeDataOK
<1>b. /\ UNCHANGED target
      /\ \A s \in Runs : s # r => at'[s] = at[s]
      /\ \A d \in Claims : d # c => row'[d] = row[d]
      /\ \A s \in Runs : s # r => succeeded'[s] = succeeded[s]
  <2>1. /\ UNCHANGED target
        /\ (\E stop : Goto(r, stop)) \/ UNCHANGED at
        /\ (\E v : succeeded' = [succeeded EXCEPT ![r] = v]) \/ UNCHANGED succeeded
    BY DEF RunAction, Progress, Goto, DeferralWrite, Validate, MarkReady,
         StartAnalysis, StartOrchestrator, TimeOut, FailIncomplete, RecordIncomplete,
         InsertReport, Finalise, ConfirmDocState, CatchError, FindTransient, Finally,
         CallerCatches, DeferForMemory, NoConnection, FailBeforeTry, AttemptRecovery, Heartbeat,
         OrchestratorEnds, IncompleteResult, DeletePrevious, Throw, WatchdogFires,
         WatchdogWrites, runVars
  <2>2. (\E x : SetRow(c, x)) \/ UNCHANGED row
    BY DEF RunAction, Progress, DeferralWrite, Validate, MarkReady, TrySetRow,
         StartAnalysis, StartOrchestrator, TimeOut, FailIncomplete, RecordIncomplete,
         InsertReport, Finalise, ConfirmDocState, CatchError, FindTransient, Finally, Nets,
         CallerCatches, DeferForMemory, NoConnection, FailBeforeTry, AttemptRecovery, Heartbeat,
         OrchestratorEnds, IncompleteResult, DeletePrevious, Throw, WatchdogFires,
         WatchdogWrites, claimVars
  <2> QED
    BY <1>a, <2>1, <2>2 DEF Goto, SetRow
<1>1. ASSUME NEW d \in Claims, row'[d].status \in RunStatuses
      PROVE  \E s \in Runs : target'[s] = d /\ at'[s] \in Owing
  <2>1. CASE d # c
    BY <1>1, <1>b, <2>1 DEF TransientInv
  <2>2. CASE d = c /\ at'[r] \in Owing
    BY <1>b, <2>2
  <2>3. CASE d = c /\ at'[r] \notin Owing
    <3>1. at[r] \notin Owing
      BY <1>1, <2>3, OwingEnds
    <3>2. row[c].status \in RunStatuses
      BY <1>1, <2>3, <3>1, NotOwing
    <3>3. PICK s \in Runs : target[s] = c /\ at[s] \in Owing
      BY <1>a, <3>2 DEF TransientInv
    <3> QED
      BY <1>b, <2>3, <3>1, <3>3
  <2> QED
    BY <2>1, <2>2, <2>3
<1>2. ASSUME at'[r] \in Owing \union {"called"}
      PROVE  ~succeeded'[r]
  <2>1. CASE UNCHANGED succeeded /\ at[r] \in Owing \union {"called"}
    BY <2>1 DEF TransientInv
  <2>2. CASE Finalise(r) \/ Finally(r)
    BY <1>2, <2>2, <1>a DEF Finalise, Finally, Goto, Owing
  <2>3. UNCHANGED succeeded \/ Finalise(r) \/ Finally(r)
    BY DEF RunAction, Progress, DeferralWrite, Validate, MarkReady, StartAnalysis,
           StartOrchestrator, TimeOut, FailIncomplete, RecordIncomplete, InsertReport,
           ConfirmDocState, CatchError, FindTransient, CallerCatches, DeferForMemory,
           NoConnection, FailBeforeTry, AttemptRecovery, Heartbeat, OrchestratorEnds,
           IncompleteResult, DeletePrevious, Throw, WatchdogFires, WatchdogWrites, runVars
  <2>4. at[r] \in Owing \union {"called"} \/ Finalise(r) \/ Finally(r)
    <3>1. CASE UNCHANGED at
      BY <1>2, <3>1
    <3> QED
      BY <1>2, <1>a, <3>1
      DEF RunAction, Progress, DeferralWrite, Validate, MarkReady, StartAnalysis,
          StartOrchestrator, TimeOut, FailIncomplete, RecordIncomplete, InsertReport,
          ConfirmDocState, CatchError, FindTransient, CallerCatches, DeferForMemory,
          NoConnection, FailBeforeTry, AttemptRecovery, Heartbeat, OrchestratorEnds,
          IncompleteResult, DeletePrevious, Throw, WatchdogFires, WatchdogWrites, runVars,
          Goto, Owing
  <2> QED
    BY <2>1, <2>2, <2>3, <2>4
<1> QED
  BY <1>1, <1>2, <1>b DEF TransientInv

LEMMA TransientStep ==
  ASSUME DbMayFail = FALSE, PipeDataOK, TransientInv, [PipeNext]_pipeVars
  PROVE  TransientInv'
<1>a. /\ row \in [Claims -> Rows] /\ at \in [Runs -> Stops] /\ target \in [Runs -> Claims]
      /\ succeeded \in [Runs -> BOOLEAN]
  BY DEF PipeDataOK
<1>1. ASSUME NEW r \in Runs, RunAction(r) PROVE TransientInv'
  BY <1>1, RunActionTransient
<1>2. ASSUME NEW c \in Claims, NEW x, x.status \in RunStatuses => row[c].status \in RunStatuses,
             SetRow(c, x) \/ UNCHANGED row
      PROVE  \A d \in Claims : row'[d].status \in RunStatuses => row[d].status \in RunStatuses
  BY <1>2, <1>a DEF SetRow
<1>3. ASSUME NEW c \in Claims, UserAction(c)
      PROVE  TransientInv'
  <2>1. row[c] \in Rows
    BY <1>a
  <2>2. \E x : (x.status \in RunStatuses => row[c].status \in RunStatuses) /\ SetRow(c, x)
    <3>1. /\ [row[c] EXCEPT !.status = "assessment_in_progress", !.wf = "under_assessment",
                            !.updated = 0].status \notin RunStatuses
          /\ [row[c] EXCEPT !.status = "assessment_pending", !.updated = 0].status \notin RunStatuses
      BY <2>1 DEF Rows, RunStatuses
    <3> QED
      BY <1>3, <2>1, <3>1, FailureStatus DEF UserAction, MoveToAssessment, ResetStuckClaim, AssignAssessor
  <2>3. UNCHANGED <<target, at, succeeded>>
    BY <1>3 DEF UserAction, MoveToAssessment, ResetStuckClaim, AssignAssessor, runVars
  <2> QED
    BY <1>2, <2>2, <2>3 DEF TransientInv
<1>4. ASSUME NEW r \in Runs, NEW c \in Claims, Trigger(r, c)
      PROVE  TransientInv'
  <2>1. row[c] \in Rows
    BY <1>a
  <2>2. \E x : (x.status \in RunStatuses => row[c].status \in RunStatuses)
               /\ (SetRow(c, x) \/ UNCHANGED row)
    <3>1. /\ [row[c] EXCEPT !.triggered = TRUE, !.dps = "parsing", !.started = Now,
                            !.updated = 0].status = row[c].status
          /\ [row[c] EXCEPT !.triggered = TRUE, !.completed = FALSE, !.dps = "parsing",
                            !.started = Now, !.updated = 0].status = row[c].status
      BY <2>1 DEF Rows
    <3> QED
      BY <1>4, <3>1 DEF Trigger, TriggerInBackground, TriggerFromIntake, TriggerManually,
                        TriggerReanalysis, TrySetRow
  <2>3. /\ at[r] = "none" /\ at' = [at EXCEPT ![r] = "called"]
        /\ target' = [target EXCEPT ![r] = c]
        /\ succeeded' = [succeeded EXCEPT ![r] = FALSE]
    BY <1>4 DEF Trigger, TriggerInBackground, TriggerFromIntake, TriggerManually,
                TriggerReanalysis, Invoke, Reusable, Goto
  <2>4. \A s \in Runs : at[s] \in Owing => s # r /\ at'[s] = at[s] /\ target'[s] = target[s]
    BY <1>a, <2>3 DEF Owing
  <2>5. \A s \in Runs : at'[s] \in Owing \union {"called"}
                          => \/ ~succeeded'[s]
                             \/ at[s] \in Owing \union {"called"} /\ succeeded'[s] = succeeded[s]
    BY <1>a, <2>3
  <2>6. \A d \in Claims : row'[d].status \in RunStatuses => row[d].status \in RunStatuses
    BY <1>2, <2>2
  <2> QED
    BY <2>4, <2>5, <2>6 DEF TransientInv
<1>5. CASE UNCHANGED pipeVars \/ \E c \in Claims : RecordRerun(c)
  BY <1>5 DEF pipeVars, claimVars, runVars, RecordRerun, TransientInv
<1> QED
  BY <1>1, <1>3, <1>4, <1>5 DEF PipeNext

(* While the server stays up and the database answers, a claim has a pipeline status only
   while a run is between EnterTry and the finally clause on its behalf, however many runs
   of however many claims there are, and whatever throws or times out. *)
THEOREM NeverLeftTransientHolds ==
  ASSUME DbMayFail = FALSE, \A x \in FreshRows : x.status \notin RunStatuses
  PROVE  PipeSpec => []NeverLeftTransient
<1>1. PipeInit => TransientInv
  <2> SUFFICES ASSUME PipeInit PROVE TransientInv
    OBVIOUS
  <2>1. \A c \in Claims : row[c].status \notin RunStatuses
    BY DEF PipeInit
  <2>2. \A r \in Runs : at[r] = "none"
    BY DEF PipeInit
  <2> QED
    BY <2>1, <2>2 DEF TransientInv, Owing
<1>2. PipeInv /\ [PipeNext]_pipeVars => PipeInv'
  BY PipeInvStep
<1>3. PipeInv /\ TransientInv /\ [PipeNext]_pipeVars => TransientInv'
  BY TransientStep DEF PipeInv
<1>4. PipeInv /\ TransientInv => NeverLeftTransient
  BY DEF PipeInv, StopsMatchSlots, TransientInv, NeverLeftTransient, Owing, InTry
<1> QED
  BY <1>1, <1>2, <1>3, <1>4, PipeInvInit, PTL DEF PipeSpec
==============================================================================
