-------------------------- MODULE AssessmentPipeline --------------------------
(***************************************************************************)
(* triggerAiAssessment of server/db.ts: what one invocation does to the    *)
(* row of its claim, to the assessment report of the claim, to its         *)
(* watchdog and to the pipeline slots, and what its callers do when it     *)
(* throws.  Every write to the database is a step of its own, so runs,     *)
(* watchdogs, callers and restarts interleave between any two of them.     *)
(*                                                                         *)
(* A row keeps the columns that decide what happens next: status, dps      *)
(* (documentProcessingStatus), wf (workflowState), the flags triggered and *)
(* completed, the recovery retry counter, and three clocks.  A clock is    *)
(* the time since its column was written, up to MaxAge; only the recovery  *)
(* job looks at the clocks, so time passes in StuckRecovery.               *)
(***************************************************************************)
EXTENDS PipelineSlots, Integers

CONSTANTS Claims,      \* the claims of the platform
          FreshRows,   \* the rows claims are created with
          MaxAge,      \* where the clocks stop counting
          DbMayFail,   \* may a write to the database fail?
          MayRerun     \* do reruns store their empty report?

VARIABLES row,          \* the claims table
          report,       \* the best of the rows ai_assessments holds for a claim
          target,       \* the claim of an invocation
          caller,       \* who invoked it
          at,           \* where an invocation stands in triggerAiAssessment
          succeeded,    \* its local variable pipelineSucceeded
          watchdog,     \* its 8-minute timer
          orchestrating, \* the runs whose runPipelineV2 still executes
          moved         \* the claims a mutation has moved and not yet triggered

claimVars == <<row, report>>
runVars == <<target, caller, at, succeeded, watchdog, orchestrating, moved>>
pipeVars == <<slotVars, claimVars, runVars>>

NoTime == -1             \* null
Clock == 0..MaxAge
Now == IF MaxAge = 0 THEN NoTime ELSE 0   \* with MaxAge = 0 these two clocks are not kept

Statuses == {"submitted", "intake_pending", "assessment_pending", "assessment_in_progress",
             "document_validating", "recovery_attempted", "document_ready",
             "analysis_running", "analysis_complete", "document_failed"}
DocStates == {"pending", "intake_pending", "parsing", "failed", "DOCUMENT_VALIDATING",
              "RECOVERY_ATTEMPTED", "DOCUMENT_READY", "ANALYSIS_RUNNING",
              "ANALYSIS_COMPLETE", "DOCUMENT_FAILED", "ASSESSMENT_START_FAILED"}
WorkflowStates == {"created", "intake_queue", "under_assessment", "ai_assessment_completed"}

Rows == [status : Statuses, dps : DocStates, wf : WorkflowStates,
         triggered : BOOLEAN, completed : BOOLEAN, retries : Nat,
         updated : Clock, started : Clock \union {NoTime}, beat : Clock \union {NoTime}]

\* How claims enter: canonical intake and the portals, and the older channels.
IntakeRow == [status |-> "intake_pending", dps |-> "pending", wf |-> "intake_queue",
              triggered |-> FALSE, completed |-> FALSE, retries |-> 0,
              updated |-> 0, started |-> NoTime, beat |-> NoTime]
SubmittedRow == [IntakeRow EXCEPT !.status = "submitted", !.wf = "created"]

ASSUME PipelineAssumption ==
  /\ Claims # {}
  /\ FreshRows \subseteq {x \in Rows : ~x.completed}
  /\ MaxAge \in Nat
  /\ DbMayFail \in BOOLEAN

\* The statuses a claim has only while a run works on it, and their dps.
RunStatuses == {"document_validating", "recovery_attempted", "document_ready", "analysis_running"}
TransientDocStates == {"parsing", "DOCUMENT_VALIDATING", "RECOVERY_ATTEMPTED",
                       "DOCUMENT_READY", "ANALYSIS_RUNNING"}

\* The stops inside the try statement, its catch and its finally, and all of them.
InTry == {"preparing", "recovering", "ready", "starting", "analysing", "incomplete", "stubbing",
          "inserting", "saved", "finalised", "catching", "leaving", "leavingOk", "netting",
          "nettingOk"}
Stops == {"none", "called", "deferring", "rejected"} \union InTry

PipeInit ==
  /\ SlotsInit
  /\ row \in [Claims -> FreshRows]
  /\ report = [c \in Claims |-> "none"]
  /\ target = [r \in Runs |-> CHOOSE c \in Claims : TRUE]
  /\ caller = [r \in Runs |-> "background"]
  /\ at = [r \in Runs |-> "none"]
  /\ succeeded = [r \in Runs |-> FALSE]
  /\ watchdog = [r \in Runs |-> "off"]
  /\ orchestrating = {}
  /\ moved = {}

------------------------------------------------------------------------------
\* The writes to a row.

Failed(x) == [x EXCEPT !.status = "document_failed", !.dps = "DOCUMENT_FAILED",
                       !.wf = "intake_queue", !.updated = 0]

\* A faulty send-back that writes the name of the queue into the wrong column.
BackToIntakeQueue(x, d) == [x EXCEPT !.status = "intake_pending", !.dps = "intake_queue",
                                     !.wf = "intake_queue", !.updated = 0]

BackToIntake(x, d) == [x EXCEPT !.status = "intake_pending", !.dps = d,
                                !.wf = "intake_queue", !.updated = 0]

SetRow(c, x) == row' = [row EXCEPT ![c] = x]

\* A write whose error is caught and ignored: it happens, or nothing does.
TrySetRow(c, x) == SetRow(c, x) \/ (DbMayFail /\ UNCHANGED row)

Goto(r, stop) == at' = [at EXCEPT ![r] = stop]

------------------------------------------------------------------------------
\* The callers.

\* A new invocation may reuse an identifier whose last one left nothing behind.
Reusable(r) == at[r] = "none" /\ watchdog[r] = "off" /\ r \notin orchestrating

Invoke(r, c, who) ==
  /\ Reusable(r)
  /\ Acquire(r)
  /\ target' = [target EXCEPT ![r] = c]
  /\ caller' = [caller EXCEPT ![r] = who]
  /\ Goto(r, "called")
  /\ succeeded' = [succeeded EXCEPT ![r] = FALSE]
  /\ moved' = IF who = "mutation" THEN moved \ {c} ELSE moved
  /\ UNCHANGED <<report, watchdog, orchestrating>>

\* Claim creation, the bulk endpoints and ai-rerun-service only log a rejection.
TriggerInBackground(r, c) == Invoke(r, c, "background") /\ UNCHANGED row

\* startCanonicalIntakeAssessment of a claim just persisted.
TriggerFromIntake(r, c) ==
  /\ row[c].status = "intake_pending"
  /\ row[c].dps = "pending"
  /\ ~row[c].triggered
  /\ Invoke(r, c, "intake")
  /\ UNCHANGED row

\* What updateClaimStatus lets through.  A submitted claim goes by way of created, which
\* only intake_queue leads to; a claim that is under_assessment already needs a status
\* with an entry in STATUS_TO_WORKFLOW_STATE.
MayReturnToAssessment(x) ==
  /\ x.status = "submitted" => x.wf = "intake_queue"
  /\ x.wf = "under_assessment"
       => x.status \in {"intake_pending", "assessment_pending", "assessment_in_progress",
                        "document_validating", "document_failed"}

\* The triggerAiAssessment mutation first moves the claim, with one or more
\* awaited updates that each commit, ...
MoveToAssessment(c) ==
  LET x == row[c] IN
  /\ MayReturnToAssessment(x)
  /\ c \notin moved
  /\ SetRow(c, IF x.status = "assessment_in_progress" THEN x
               ELSE [x EXCEPT !.status = "assessment_in_progress", !.wf = "under_assessment",
                              !.updated = 0])
  /\ moved' = moved \union {c}
  /\ UNCHANGED <<slotVars, report, target, caller, at, succeeded, watchdog, orchestrating>>

\* ... and then marks it, unless that write fails, and fires the run.
TriggerManually(r, c) ==
  /\ c \in moved
  /\ Invoke(r, c, "mutation")
  /\ TrySetRow(c, [row[c] EXCEPT !.triggered = TRUE, !.dps = "parsing", !.started = Now,
                                 !.updated = 0])

\* The re-analysis mutation marks the claim and fires the run; the status stays.
TriggerReanalysis(r, c) ==
  /\ Invoke(r, c, "background")
  /\ TrySetRow(c, [row[c] EXCEPT !.triggered = TRUE, !.completed = FALSE, !.dps = "parsing",
                                 !.started = Now, !.updated = 0])

\* resetStuckClaim, the button of the claims processor.
ResetStuckClaim(c) ==
  /\ SetRow(c, [BackToIntake(row[c], "failed") EXCEPT !.triggered = FALSE])
  /\ UNCHANGED <<slotVars, report, runVars>>

\* The rerun of ai-rerun-service inserts an empty row before it triggers the run; what
\* an earlier run has stored stays beside it until the new one deletes both.
RecordRerun(c) ==
  /\ MayRerun
  /\ report[c] = "none"
  /\ report' = [report EXCEPT ![c] = "stub"]
  /\ UNCHANGED <<slotVars, row, runVars>>

\* assignClaimToAssessor, from the statuses ALLOWED_TRANSITIONS lets through.
AssignAssessor(c) ==
  /\ row[c].status \in {"submitted", "intake_pending", "assessment_pending"}
  /\ SetRow(c, [row[c] EXCEPT !.status = "assessment_pending", !.updated = 0])
  /\ UNCHANGED <<slotVars, report, runVars>>

\* What the caller's catch does once the invocation has thrown.
CallerCatches(r) ==
  LET c == target[r] IN
  /\ at[r] = "rejected"
  /\ \/ caller[r] = "background" /\ UNCHANGED row
     \/ caller[r] = "mutation"
        /\ TrySetRow(c, [BackToIntake(row[c], "failed") EXCEPT !.triggered = FALSE])
     \/ caller[r] = "intake"
        /\ TrySetRow(c, BackToIntake(row[c], "ASSESSMENT_START_FAILED"))
  /\ Goto(r, "none")
  /\ caller' = [caller EXCEPT ![r] = "background"]
  /\ UNCHANGED <<slotVars, report, target, succeeded, watchdog, orchestrating, moved>>

------------------------------------------------------------------------------
\* Before the try statement.

\* A faulty deferral that forgets to throw and runs on without a slot.
DeferAndRunOn(r) ==
  /\ at[r] = "called"
  /\ LeavePreflight(r)
  /\ Goto(r, "preparing")
  /\ UNCHANGED <<claimVars, target, caller, succeeded, watchdog, orchestrating, moved>>

\* The memory guard gives the slot back, and then writes to the row.
DeferForMemory(r) ==
  /\ at[r] = "called"
  /\ LeavePreflight(r)
  /\ Goto(r, "deferring")
  /\ UNCHANGED <<claimVars, target, caller, succeeded, watchdog, orchestrating, moved>>

DeferralWrite(r) ==
  /\ at[r] = "deferring"
  /\ TrySetRow(target[r], BackToIntake(row[target[r]], "intake_pending"))
  /\ Goto(r, "rejected")
  /\ UNCHANGED <<slotVars, report, target, caller, succeeded, watchdog, orchestrating, moved>>

\* A faulty exit that lowers the counter itself and wakes nobody.
NoConnectionNoWake(r) ==
  /\ DbMayFail
  /\ at[r] = "called"
  /\ phase[r] = "preflight"
  /\ activeCount' = Floored(activeCount)
  /\ phase' = [phase EXCEPT ![r] = "idle"]
  /\ Goto(r, "rejected")
  /\ UNCHANGED <<queue, claimVars, target, caller, succeeded, watchdog, orchestrating, moved>>

\* No database connection: give the slot back and throw.
NoConnection(r) ==
  /\ DbMayFail
  /\ at[r] = "called"
  /\ LeavePreflight(r)
  /\ Goto(r, "rejected")
  /\ UNCHANGED <<claimVars, target, caller, succeeded, watchdog, orchestrating, moved>>

\* getClaimById or the first update throws: the slot is not given back.
FailBeforeTry(r) ==
  /\ at[r] = "called"
  /\ ThrowInPreflight(r)
  /\ Goto(r, "rejected")
  /\ UNCHANGED <<claimVars, target, caller, succeeded, watchdog, orchestrating, moved>>

\* A faulty first update that keeps the completed flag of the last run.
ValidateKeepingFlag(r) ==
  LET c == target[r] IN
  /\ at[r] = "called"
  /\ EnterTry(r)
  /\ SetRow(c, [row[c] EXCEPT !.triggered = TRUE, !.updated = 0,
                              !.status = "document_validating", !.dps = "DOCUMENT_VALIDATING"])
  /\ watchdog' = [watchdog EXCEPT ![r] = "armed"]
  /\ Goto(r, "preparing")
  /\ UNCHANGED <<report, target, caller, succeeded, orchestrating, moved>>

\* The first update, the watchdog, and the try.
Validate(r) ==
  LET c == target[r] IN
  /\ at[r] = "called"
  /\ EnterTry(r)
  /\ SetRow(c, [row[c] EXCEPT !.triggered = TRUE, !.completed = FALSE, !.updated = 0,
                              !.status = "document_validating", !.dps = "DOCUMENT_VALIDATING"])
  /\ watchdog' = [watchdog EXCEPT ![r] = "armed"]
  /\ Goto(r, "preparing")
  /\ UNCHANGED <<report, target, caller, succeeded, orchestrating, moved>>

------------------------------------------------------------------------------
\* Inside the try statement.

\* The page renderer failed and a fallback is tried.
AttemptRecovery(r) ==
  LET c == target[r] IN
  /\ at[r] = "preparing"
  /\ TrySetRow(c, [row[c] EXCEPT !.status = "recovery_attempted", !.updated = 0,
                                 !.dps = "RECOVERY_ATTEMPTED"])
  /\ Goto(r, "recovering")
  /\ UNCHANGED <<slotVars, report, target, caller, succeeded, watchdog, orchestrating, moved>>

\* The document health gate lets every claim through; its own errors are ignored.
MarkReady(r) ==
  LET c == target[r] IN
  /\ at[r] \in {"preparing", "recovering"}
  /\ TrySetRow(c, [row[c] EXCEPT !.status = "document_ready", !.dps = "DOCUMENT_READY",
                                 !.updated = 0])
  /\ Goto(r, "ready")
  /\ UNCHANGED <<slotVars, report, target, caller, succeeded, watchdog, orchestrating, moved>>

StartAnalysis(r) ==
  LET c == target[r] IN
  /\ at[r] = "ready"
  /\ TrySetRow(c, [row[c] EXCEPT !.status = "analysis_running", !.dps = "ANALYSIS_RUNNING",
                                 !.updated = 0])
  /\ Goto(r, "starting")
  /\ UNCHANGED <<slotVars, report, target, caller, succeeded, watchdog, orchestrating, moved>>

\* The run id is stored with the first heartbeat, and runPipelineV2 sets off.
StartOrchestrator(r) ==
  LET c == target[r] IN
  /\ at[r] = "starting"
  /\ TrySetRow(c, [row[c] EXCEPT !.beat = Now, !.updated = 0])
  /\ orchestrating' = orchestrating \union {r}
  /\ Goto(r, "analysing")
  /\ UNCHANGED <<slotVars, report, target, caller, succeeded, watchdog, moved>>

\* onStageStart and tickHeartbeat, also of an orchestrator nobody waits for.
Heartbeat(r) ==
  LET c == target[r] IN
  /\ r \in orchestrating
  /\ SetRow(c, [row[c] EXCEPT !.beat = Now, !.updated = 0])
  /\ UNCHANGED <<slotVars, report, runVars>>

\* A faulty wait without the race: runPipelineV2 is awaited for as long as it takes.
NoTimeOut(r) == FALSE

\* The 15-minute promise wins the race; runPipelineV2 is not stopped.
TimeOut(r) ==
  /\ at[r] = "analysing"
  /\ Goto(r, "catching")
  /\ UNCHANGED <<slotVars, claimVars, target, caller, succeeded, watchdog, orchestrating, moved>>

\* An orchestrator that lost the race ends, unheard.
OrchestratorEnds(r) ==
  /\ r \in orchestrating
  /\ at[r] # "analysing"
  /\ orchestrating' = orchestrating \ {r}
  /\ UNCHANGED <<slotVars, claimVars, target, caller, at, succeeded, watchdog, moved>>

\* runPipelineV2 refuses an incomplete result.
IncompleteResult(r) ==
  /\ at[r] = "analysing"
  /\ orchestrating' = orchestrating \ {r}
  /\ Goto(r, "incomplete")
  /\ UNCHANGED <<slotVars, claimVars, target, caller, succeeded, watchdog, moved>>

FailIncomplete(r) ==
  LET c == target[r] IN
  /\ at[r] = "incomplete"
  /\ SetRow(c, Failed(row[c]))
  /\ Goto(r, "stubbing")
  /\ UNCHANGED <<slotVars, report, target, caller, succeeded, watchdog, orchestrating, moved>>

\* A claim without report gets a stub, and the function returns: the watchdog stays armed.
RecordIncomplete(r) ==
  LET c == target[r] IN
  /\ at[r] = "stubbing"
  /\ \/ /\ report' = [report EXCEPT ![c] = IF @ = "none" THEN "stub" ELSE @]
        /\ Goto(r, "leavingOk")
     \/ DbMayFail /\ UNCHANGED report /\ Goto(r, "catching")
  /\ UNCHANGED <<slotVars, row, target, caller, succeeded, watchdog, orchestrating, moved>>

\* runPipelineV2 returns: the previous reports of the claim are deleted.
DeletePrevious(r) ==
  /\ at[r] = "analysing"
  /\ orchestrating' = orchestrating \ {r}
  /\ \/ report' = [report EXCEPT ![target[r]] = "none"]
     \/ DbMayFail /\ UNCHANGED report
  /\ Goto(r, "inserting")
  /\ UNCHANGED <<slotVars, row, target, caller, succeeded, watchdog, moved>>

InsertReport(r) ==
  /\ at[r] = "inserting"
  /\ report' = [report EXCEPT ![target[r]] = "full"]
  /\ Goto(r, "saved")
  /\ UNCHANGED <<slotVars, row, target, caller, succeeded, watchdog, orchestrating, moved>>

\* A faulty final update that sets the flags and leaves the status.
FinaliseKeepingStatus(r) ==
  LET c == target[r] IN
  /\ at[r] = "saved"
  /\ succeeded' = [succeeded EXCEPT ![r] = TRUE]
  /\ watchdog' = [watchdog EXCEPT ![r] = IF @ = "armed" THEN "off" ELSE @]
  /\ SetRow(c, [row[c] EXCEPT !.completed = TRUE, !.dps = "ANALYSIS_COMPLETE",
                              !.wf = "ai_assessment_completed", !.updated = 0])
  /\ Goto(r, "finalised")
  /\ UNCHANGED <<slotVars, report, target, caller, orchestrating, moved>>

\* pipelineSucceeded is set and the timer cleared before the claim is updated:
\* with the full update, else with the minimal one, else not at all.
Finalise(r) ==
  LET c == target[r]
      minimal == [row[c] EXCEPT !.completed = TRUE, !.status = "analysis_complete",
                                !.dps = "ANALYSIS_COMPLETE", !.updated = 0]
      complete == [minimal EXCEPT !.wf = "ai_assessment_completed", !.beat = NoTime]
  IN  /\ at[r] = "saved"
      /\ succeeded' = [succeeded EXCEPT ![r] = TRUE]
      /\ watchdog' = [watchdog EXCEPT ![r] = IF @ = "armed" THEN "off" ELSE @]
      /\ \/ SetRow(c, complete)
         \/ DbMayFail /\ \E x \in {minimal, row[c]} : SetRow(c, x)
      /\ Goto(r, "finalised")
      /\ UNCHANGED <<slotVars, report, target, caller, orchestrating, moved>>

\* The last update sets the dps once more, whatever the row has become.
ConfirmDocState(r) ==
  LET c == target[r] IN
  /\ at[r] = "finalised"
  /\ TrySetRow(c, [row[c] EXCEPT !.dps = "ANALYSIS_COMPLETE", !.updated = 0])
  /\ Goto(r, "leavingOk")
  /\ UNCHANGED <<slotVars, report, target, caller, succeeded, watchdog, orchestrating, moved>>

\* Any other error inside the try: a renderer, a model call, a parser, an insert.
Throw(r) ==
  /\ \/ at[r] \in {"preparing", "recovering", "ready", "starting"} /\ UNCHANGED orchestrating
     \/ at[r] = "analysing" /\ orchestrating' = orchestrating \ {r}
     \/ at[r] \in {"incomplete", "inserting", "saved"} /\ DbMayFail /\ UNCHANGED orchestrating
  /\ Goto(r, "catching")
  /\ UNCHANGED <<slotVars, claimVars, target, caller, succeeded, watchdog, moved>>

\* The catch clause: clear the timer, fail the claim unless the run had succeeded, and
\* throw again.
CatchError(r) ==
  LET c == target[r] IN
  /\ at[r] = "catching"
  /\ watchdog' = [watchdog EXCEPT ![r] = IF @ = "armed" THEN "off" ELSE @]
  /\ TrySetRow(c, IF succeeded[r] THEN row[c] ELSE Failed(row[c]))
  /\ Goto(r, "leaving")
  /\ UNCHANGED <<slotVars, report, target, caller, succeeded, orchestrating, moved>>

\* The safety net of the finally clause first reads the dps ...
FindTransient(r) ==
  /\ at[r] \in {"leaving", "leavingOk"}
  /\ ~succeeded[r]
  /\ row[target[r]].dps \in TransientDocStates
  /\ Goto(r, IF at[r] = "leaving" THEN "netting" ELSE "nettingOk")
  /\ UNCHANGED <<slotVars, claimVars, target, caller, succeeded, watchdog, orchestrating, moved>>

\* A faulty net that does not look before it writes.
NetsAlways(r) ==
  /\ at[r] \in {"leaving", "leavingOk", "netting", "nettingOk"}
  /\ TrySetRow(target[r], Failed(row[target[r]]))

\* ... and fails a claim it found in a transient one.
Nets(r) ==
  \/ at[r] \in {"netting", "nettingOk"} /\ TrySetRow(target[r], Failed(row[target[r]]))
  \/ /\ at[r] \in {"leaving", "leavingOk"}
     /\ succeeded[r] \/ row[target[r]].dps \notin TransientDocStates \/ DbMayFail
     /\ UNCHANGED row

\* Then the slot is given back.  The locals of the invocation are gone, and after a
\* normal return so is its caller.
Finally(r) ==
  /\ Nets(r)
  /\ FinallyRelease(r)
  /\ succeeded' = [succeeded EXCEPT ![r] = FALSE]
  /\ \/ /\ at[r] \in {"leaving", "netting"}
        /\ Goto(r, "rejected")
        /\ UNCHANGED caller
     \/ /\ at[r] \in {"leavingOk", "nettingOk"}
        /\ Goto(r, "none")
        /\ caller' = [caller EXCEPT ![r] = "background"]
  /\ UNCHANGED <<report, target, watchdog, orchestrating, moved>>

------------------------------------------------------------------------------
\* The watchdog: the callback looks at pipelineSucceeded, then writes.

WatchdogFires(r) ==
  /\ watchdog[r] = "armed"
  /\ watchdog' = [watchdog EXCEPT ![r] = IF succeeded[r] THEN "off" ELSE "firing"]
  /\ UNCHANGED <<slotVars, claimVars, target, caller, at, succeeded, orchestrating, moved>>

WatchdogWrites(r) ==
  LET c == target[r] IN
  /\ watchdog[r] = "firing"
  /\ TrySetRow(c, Failed(row[c]))
  /\ watchdog' = [watchdog EXCEPT ![r] = "off"]
  /\ UNCHANGED <<slotVars, report, target, caller, at, succeeded, orchestrating, moved>>

\* The server restarts: rows and reports survive, nothing else does.
ServerRestart ==
  /\ Restart
  /\ at' = [r \in Runs |-> "none"]
  /\ succeeded' = [r \in Runs |-> FALSE]
  /\ watchdog' = [r \in Runs |-> "off"]
  /\ orchestrating' = {}
  /\ moved' = {}
  /\ UNCHANGED <<claimVars, target, caller>>

------------------------------------------------------------------------------

Trigger(r, c) ==
  TriggerInBackground(r, c) \/ TriggerFromIntake(r, c) \/ TriggerManually(r, c)
    \/ TriggerReanalysis(r, c)

\* The steps an invocation owes: each is taken once nothing else is possible.
Progress(r) ==
  \/ DeferralWrite(r) \/ Validate(r) \/ MarkReady(r) \/ StartAnalysis(r) \/ StartOrchestrator(r)
  \/ TimeOut(r) \/ FailIncomplete(r) \/ RecordIncomplete(r) \/ InsertReport(r) \/ Finalise(r)
  \/ ConfirmDocState(r) \/ CatchError(r) \/ FindTransient(r) \/ Finally(r) \/ CallerCatches(r)

RunAction(r) ==
  \/ Progress(r)
  \/ DeferForMemory(r) \/ NoConnection(r) \/ FailBeforeTry(r) \/ AttemptRecovery(r)
  \/ Heartbeat(r) \/ OrchestratorEnds(r) \/ IncompleteResult(r) \/ DeletePrevious(r)
  \/ Throw(r) \/ WatchdogFires(r) \/ WatchdogWrites(r)

UserAction(c) == MoveToAssessment(c) \/ ResetStuckClaim(c) \/ AssignAssessor(c)

PipeNext ==
  \/ \E r \in Runs : RunAction(r) \/ \E c \in Claims : Trigger(r, c)
  \/ \E c \in Claims : UserAction(c) \/ RecordRerun(c)

\* While the server stays up, and with restarts at any point.
PipeSpec == PipeInit /\ [][PipeNext]_pipeVars
CrashSpec == PipeInit /\ [][PipeNext \/ ServerRestart]_pipeVars

\* Timers and promises of a live process come due: an invocation that was
\* admitted gets through its steps, by the 15-minute race at the latest.
FairPipeSpec == PipeSpec /\ \A r \in Runs : WF_pipeVars(Progress(r))

------------------------------------------------------------------------------

\* The types: in particular every write leaves a row with a status, dps and workflow
\* state of the lists above.
PipeTypeOK ==
  /\ SlotsTypeOK
  /\ row \in [Claims -> Rows]
  /\ report \in [Claims -> {"none", "stub", "full"}]
  /\ target \in [Runs -> Claims]
  /\ caller \in [Runs -> {"background", "mutation", "intake"}]
  /\ at \in [Runs -> Stops]
  /\ succeeded \in [Runs -> BOOLEAN]
  /\ watchdog \in [Runs -> {"off", "armed", "firing"}]
  /\ orchestrating \subseteq Runs
  /\ moved \subseteq Claims

\* A claim flagged aiAssessmentCompleted has its full report: runs that replace
\* it, fail half way, time out, are superseded or die never leave the flag
\* standing on a deleted or a stub report (db.ts, delete, insert, then update).
CompletedHasReport == \A c \in Claims : row[c].completed => report[c] = "full"

\* "GUARANTEED SAFETY NET: Ensure claim is NEVER left in a transient state"
\* (db.ts, the finally clause): while the server stays up and the database
\* answers, a claim has a pipeline status only while a run is at work on it.
NeverLeftTransient ==
  \A c \in Claims : row[c].status \in RunStatuses
                     => \E r \in Runs : target[r] = c /\ phase[r] = "running"

\* An invocation in the semaphore's queue or past it is where the slots say.
StopsMatchSlots ==
  \A r \in Runs :
    /\ phase[r] \in {"waiting", "preflight"} <=> at[r] = "called"
    /\ phase[r] = "running" <=> at[r] \in InTry

\* No failure handling reaches a claim that has completed, neither that of its own run
\* nor that of an earlier one ("Do NOT reset ... that is the claim-cycling bug", db.ts,
\* the catch clause), but the one write that is not ordered with the run: a watchdog's.
OnlyWatchdogFailsCompleted ==
  [][\A c \in Claims :
       /\ row[c].completed /\ row[c].status = "analysis_complete"
       /\ row'[c].status = "document_failed"
       => \E r \in Runs : target[r] = c /\ watchdog[r] = "firing" /\ watchdog'[r] = "off"]_pipeVars

\* What the tables show is a published report: it is deleted and rewritten only while
\* the flag is down, a stub takes the place of nothing, and the flag goes up over a full
\* report only, wherever runs fail, time out or die, and whatever a watchdog, a caller
\* or a user writes in between (db.ts, delete, insert, then update).
Published == INSTANCE PublishedReport WITH completed <- [c \in Claims |-> row[c].completed]
ImplementsPublishedReport == Published!Spec

\* Every step of the pipeline is a step of its semaphore, or leaves it alone.
UsesSlots == SlotsSpec

\* Every invocation comes back to its caller, whatever waits before it.
EveryRunEnds == \A r \in Runs : at[r] = "called" ~> at[r] = "none"

\* A claim that is being worked on leaves the pipeline statuses in the end.
TransientEnds ==
  \A c \in Claims : row[c].status \in RunStatuses ~> row[c].status \notin RunStatuses
==============================================================================
