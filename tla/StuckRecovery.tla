---------------------------- MODULE StuckRecovery ----------------------------
(***************************************************************************)
(* stuck-assessment-recovery-job.ts beside the pipeline it watches: the    *)
(* startup cleanup and the periodic job, one case after the other.  Each   *)
(* case queries the claims table once and then works through the rows it   *)
(* found, every read and every write an await of its own; meanwhile runs,  *)
(* users and other invocations of the job go on.                           *)
(***************************************************************************)
EXTENDS AssessmentPipeline, Sequences

CONSTANTS Jobs,        \* invocations of the job that may overlap: interval, startup, HTTP
          Documented,  \* the claims whose source document is stored
          MaxRetries,  \* MAX_RECOVERY_RETRIES
          JobDbMayFail, \* may an access of the job to the database fail?
          Due          \* from which clock value on the rows of a case are old enough

VARIABLES job,         \* what each invocation of the job is doing
          staggered    \* the claims whose trigger the startup cleanup has put on a timer

recoveryVars == <<pipeVars, job, staggered>>

\* In the order in which runStartupCleanup and runStuckAssessmentRecoveryJob run them.
CaseOrder == <<"bootA", "bootB", "3", "5B", "1", "2", "4", "6", "7", "7b", "8", "9", "10", "11", "12">>
Cases == {CaseOrder[i] : i \in 1..Len(CaseOrder)}

ASSUME RecoveryAssumption ==
  /\ Documented \subseteq Claims
  /\ MaxRetries \in Nat
  /\ Due \in [Cases -> Clock]
  /\ Jobs # {} /\ IsFiniteSet(Jobs)
  /\ JobDbMayFail \in BOOLEAN
  /\ \A x \in FreshRows : x.retries = 0

Steps == {"query", "next", "mark", "reset", "count", "dispatch", "write"}
Idle == [case |-> "none", step |-> "query", todo |-> {}, claim |-> "none"]
At(k) == [case |-> k, step |-> "query", todo |-> {}, claim |-> "none"]

\* startStuckAssessmentRecoveryJob runs once per start of the server.
StarterJob == CHOOSE j \in Jobs : TRUE

RecoveryInit == PipeInit /\ job = [j \in Jobs |-> Idle] /\ staggered = {}

------------------------------------------------------------------------------
\* The queries.

InFlight == {"assessment_in_progress"} \union RunStatuses

Old(k, clock) == clock # NoTime /\ clock >= Due[k]

\* A faulty clock without the fallback: background triggers do not set it.
StartedOnly(x) == x.started

\* COALESCE(aiAssessmentStartedAt, updatedAt)
RunClock(x) == IF x.started = NoTime THEN x.updated ELSE x.started

Approved(x) == x.triggered /\ ~x.completed

Matches(k, c, x) ==
  CASE k = "bootA" -> x.status \in InFlight \ {"recovery_attempted"} /\ Old(k, x.updated)
    [] k = "bootB" -> x.status = "intake_pending" /\ Approved(x) /\ c \in Documented
    [] k = "3"  -> x.status \in {"assessment_in_progress", "intake_pending"} /\ x.completed
    [] k = "5B" -> /\ x.status = "assessment_in_progress" /\ Approved(x)
                   /\ x.dps \notin {"parsing", "pending"} /\ Old(k, x.updated)
    [] k = "1"  -> x.status = "assessment_in_progress" /\ ~x.triggered /\ Old(k, x.updated)
    [] k = "2"  -> /\ x.status = "assessment_in_progress" /\ Approved(x)
                   /\ x.dps = "parsing" /\ Old(k, x.updated)
    [] k = "4"  -> /\ x.status = "intake_pending" /\ Approved(x)
                   /\ x.dps \in {"failed", "parsing"} /\ Old(k, x.updated)
    [] k = "6"  -> x.status = "assessment_in_progress" /\ x.dps = "parsing" /\ Old(k, x.updated)
    [] k = "7"  -> x.status \in InFlight /\ ~x.completed /\ Old(k, RunClock(x))
    [] k = "7b" -> x.status \in InFlight /\ ~x.completed /\ Old(k, x.beat)
    [] k = "8"  -> x.status = "submitted" /\ ~x.triggered   \* older than 2 hours: createdAt is not modelled
    [] k = "9"  -> x.status = "analysis_complete" /\ x.dps \in TransientDocStates \union {"pending"}
    [] k = "10" -> x.status = "assessment_pending" /\ Approved(x) /\ Old(k, x.updated)
    [] k = "11" -> x.status = "document_failed" /\ Approved(x) /\ c \in Documented /\ Old(k, x.updated)
    [] k = "12" -> x.status = "intake_pending" /\ Approved(x) /\ c \in Documented /\ Old(k, x.updated)

\* A faulty Case 3 that looks among the claims under assessment only.
FoundUnderAssessment(k) ==
  {c \in Claims : Matches(k, c, row[c]) /\ (k = "3" => row[c].status = "assessment_in_progress")}

Found(k) == {c \in Claims : Matches(k, c, row[c])}

------------------------------------------------------------------------------
\* The writes.

\* The cases that rewrite the row and leave it at that.
Rewriting == {"bootA", "3", "7", "7b", "9"}

Rewritten(k, x) ==
  CASE k = "bootA" -> BackToIntake(x, "intake_pending")
    [] k = "3"  -> [x EXCEPT !.status = "analysis_complete", !.dps = "ANALYSIS_COMPLETE",
                             !.wf = "ai_assessment_completed", !.retries = 0, !.updated = 0]
    [] k = "7"  -> [BackToIntake(x, "intake_pending") EXCEPT !.completed = FALSE]
    [] k = "7b" -> [BackToIntake(x, "intake_pending") EXCEPT !.completed = FALSE, !.beat = NoTime]
    [] k = "9"  -> [x EXCEPT !.dps = "ANALYSIS_COMPLETE", !.updated = 0]

\* preResetFn of the cases that trigger a run again: the claim is pending anew.
Pending(x) == [x EXCEPT !.triggered = FALSE, !.completed = FALSE, !.dps = "pending", !.updated = 0]

HasReset == {"5B", "2", "4", "6", "8", "10", "11"}

PreReset(k, x) ==
  CASE k \in {"5B", "2", "6"} -> Pending(x)
    [] k \in {"4", "8"} -> [Pending(x) EXCEPT !.status = "assessment_in_progress",
                                              !.wf = "under_assessment"]
    [] k \in {"10", "11"} -> [Pending(x) EXCEPT !.status = "intake_pending", !.wf = "intake_queue"]

\* What happens to a claim whose retries are used up.
GivenUp(k, x) ==
  CASE k = "bootA" -> BackToIntake(x, "failed")
    [] k = "bootB" -> [Failed(x) EXCEPT !.triggered = FALSE]
    [] OTHER -> [BackToIntake(x, "failed") EXCEPT !.triggered = FALSE, !.completed = FALSE]

------------------------------------------------------------------------------
\* The steps of one invocation of the job.

\* An update of the job whose error does not keep it from going on.
TryUpdate(c, x) == SetRow(c, x) \/ (JobDbMayFail /\ UNCHANGED row)

UpdateJob(j, x) == job' = [job EXCEPT ![j] = x]

\* The state of a job that is done with every row case k found.
AfterCase(k) ==
  IF k = CaseOrder[Len(CaseOrder)]
    THEN Idle
    ELSE At(CaseOrder[1 + CHOOSE i \in 1..Len(CaseOrder) : CaseOrder[i] = k])

\* ... and that is done with the row at hand.
AfterClaim(b) ==
  IF b.todo = {} THEN AfterCase(b.case) ELSE [b EXCEPT !.step = "next", !.claim = "none"]

\* An error ends the job; one of the startup cleanup ends that only.
Aborted(b) == IF b.case \in {"bootA", "bootB"} THEN At("3") ELSE Idle

\* A write to the claim at hand: an error of it is caught, in the cleanup further out.
WriteClaim(j, x) ==
  LET b == job[j] IN
  \/ SetRow(b.claim, x) /\ UpdateJob(j, AfterClaim(b))
  \/ /\ JobDbMayFail
     /\ UNCHANGED row
     /\ UpdateJob(j, IF b.case \in {"bootA", "bootB"} THEN At("3") ELSE AfterClaim(b))

\* The interval timer or the HTTP endpoint; neither looks for a job at work.
StartJob(j) ==
  /\ job[j] = Idle
  /\ UpdateJob(j, At("3"))
  /\ UNCHANGED <<pipeVars, staggered>>

\* A query that fails ends the job; one that gets no connection finds nothing.
Query(j) ==
  LET b == job[j]
      found == Found(b.case)
  IN  /\ b.case # "none"
      /\ b.step = "query"
      /\ \/ UpdateJob(j, AfterClaim([b EXCEPT !.todo = found]))
         \/ JobDbMayFail /\ UpdateJob(j, Aborted(b))
         \/ JobDbMayFail /\ b.case \notin {"bootA", "bootB"} /\ UpdateJob(j, AfterCase(b.case))
      /\ UNCHANGED <<pipeVars, staggered>>

\* A faulty comparison: one retry too many.
CanRetriggerOnceMore(c) == row[c].retries <= MaxRetries

CanRetrigger(c) == row[c].retries < MaxRetries

\* The first step of a case for a claim that may be retried.
FirstStep(k) == IF k \in Rewriting THEN "write" ELSE IF k \in HasReset THEN "reset" ELSE "count"

\* The next row of a case.  The cases that trigger or clean up ask canRetrigger,
\* which is false when the database fails.
TakeNext(j) ==
  LET b == job[j]
      asks == b.case \notin Rewriting \ {"bootA"}
  IN  /\ b.step = "next"
      /\ \E c \in b.todo :
           LET taken == [b EXCEPT !.todo = @ \ {c}, !.claim = c] IN
           \/ /\ asks => CanRetrigger(c)
              /\ b.case # "bootB"
              /\ UpdateJob(j, [taken EXCEPT !.step = FirstStep(b.case)])
              /\ UNCHANGED staggered
           \/ /\ b.case = "bootB"
              /\ CanRetrigger(c)
              /\ staggered' = staggered \union {c}
              /\ UpdateJob(j, AfterClaim(taken))
           \/ /\ asks
              /\ ~CanRetrigger(c) \/ JobDbMayFail
              /\ UpdateJob(j, [taken EXCEPT !.step = "mark"])
              /\ UNCHANGED staggered
      /\ UNCHANGED pipeVars

Rewrite(j) ==
  LET b == job[j] IN
  /\ b.step = "write"
  /\ WriteClaim(j, Rewritten(b.case, row[b.claim]))
  /\ UNCHANGED <<slotVars, report, runVars, staggered>>

GiveUp(j) ==
  LET b == job[j] IN
  /\ b.step = "mark"
  /\ WriteClaim(j, GivenUp(b.case, row[b.claim]))
  /\ UNCHANGED <<slotVars, report, runVars, staggered>>

\* An error abandons the claim; without a connection the reset is skipped.
ResetClaim(j) ==
  LET b == job[j] IN
  /\ b.step = "reset"
  /\ \/ /\ TryUpdate(b.claim, PreReset(b.case, row[b.claim]))
        /\ UpdateJob(j, [b EXCEPT !.step = "count"])
     \/ JobDbMayFail /\ UNCHANGED row /\ UpdateJob(j, AfterClaim(b))
  /\ UNCHANGED <<slotVars, report, runVars, staggered>>

\* incrementRetryCount, whose errors are ignored.
CountRetry(j) ==
  LET b == job[j] IN
  /\ b.step = "count"
  /\ TryUpdate(b.claim, [row[b.claim] EXCEPT !.retries = @ + 1, !.updated = 0])
  /\ UpdateJob(j, [b EXCEPT !.step = "dispatch"])
  /\ UNCHANGED <<slotVars, report, runVars, staggered>>

\* triggerAiAssessment, not awaited.
Dispatch(j) ==
  LET b == job[j] IN
  /\ b.step = "dispatch"
  /\ \E r \in Runs : TriggerInBackground(r, b.claim)
  /\ UpdateJob(j, AfterClaim(b))
  /\ UNCHANGED staggered

\* The timer of the startup cleanup, 500 ms after the one of the claim before.
FireStaggered(c) ==
  /\ c \in staggered
  /\ \E r \in Runs : TriggerInBackground(r, c)
  /\ staggered' = staggered \ {c}
  /\ UNCHANGED job

JobStep(j) ==
  Query(j) \/ TakeNext(j) \/ Rewrite(j) \/ GiveUp(j) \/ ResetClaim(j) \/ CountRetry(j) \/ Dispatch(j)

\* The server restarts, and begins with the startup cleanup.
RestartAndClean ==
  /\ ServerRestart
  /\ job' = [j \in Jobs |-> IF j = StarterJob THEN At("bootA") ELSE Idle]
  /\ staggered' = {}

Older(n) == IF n = NoTime THEN NoTime ELSE IF n < MaxAge THEN n + 1 ELSE n

\* Time passes; MaxAge stands for every longer time.
Tick ==
  /\ row' = [c \in Claims |-> [row[c] EXCEPT !.updated = Older(@), !.started = Older(@),
                                             !.beat = Older(@)]]
  /\ row' # row
  /\ UNCHANGED <<slotVars, report, runVars, job, staggered>>

RecoveryNext ==
  \/ PipeNext /\ UNCHANGED <<job, staggered>>
  \/ \E j \in Jobs : StartJob(j) \/ JobStep(j)
  \/ \E c \in Claims : FireStaggered(c)
  \/ RestartAndClean
  \/ Tick

RecoverySpec == RecoveryInit /\ [][RecoveryNext]_recoveryVars

\* Timers fire and the event loop turns: runs, their timers and what they left
\* running get on, time passes, jobs are started and get through their awaits, and
\* the server does not restart for ever.
FairRecoverySpec ==
  /\ RecoverySpec
  /\ \A r \in Runs :
       WF_recoveryVars((Progress(r) \/ OrchestratorEnds(r) \/ WatchdogFires(r) \/ WatchdogWrites(r))
                         /\ UNCHANGED <<job, staggered>>)
  /\ \A j \in Jobs : WF_recoveryVars(StartJob(j) \/ JobStep(j))
  /\ \A c \in Claims : WF_recoveryVars(FireStaggered(c))
  /\ WF_recoveryVars(Tick)
  /\ <>[][~RestartAndClean]_recoveryVars

------------------------------------------------------------------------------

\* The types of the job's state beside those of the pipeline's: it only ever works on
\* claims, at one of its steps.
RecoveryTypeOK ==
  /\ PipeTypeOK
  /\ job \in [Jobs -> [case : Cases \union {"none"}, step : Steps, todo : SUBSET Claims,
                       claim : Claims \union {"none"}]]
  /\ staggered \subseteq Claims

\* The row once every clock that is set has run long enough.
Aged(x) == [x EXCEPT !.updated = MaxAge,
                     !.started = IF @ = NoTime THEN @ ELSE MaxAge,
                     !.beat = IF @ = NoTime THEN @ ELSE MaxAge]

\* A claim that still has a pipeline status when its run is gone is found by one
\* of the cases once it is old enough: there is no status, flag and dps that the
\* pipeline leaves behind and the job does not look for.
NoBlindSpot ==
  \A c \in Claims : row[c].status \in InFlight
                     => \E k \in Cases \ {"bootA", "bootB"} : Matches(k, c, Aged(row[c]))

\* "When the counter reaches MAX_RECOVERY_RETRIES (3), the claim is marked as
\* permanently failed and the recovery job will NOT re-trigger it again": no invocation of
\* the job passes the maximum; each one beside it may count one more, because canRetrigger
\* and incrementRetryCount are two awaits.
RetriesBounded == \A c \in Claims : row[c].retries <= MaxRetries + (Cardinality(Jobs) - 1)

\* Whatever dies, a claim does not keep a pipeline status for ever.
InFlightEnds == \A c \in Claims : row[c].status \in InFlight ~> row[c].status \notin InFlight

\* A claim whose assessment is complete does not stay in intake for ever, where a
\* caller that came too late, a user or the startup cleanup has put it back.
LateResetHeals ==
  \A c \in Claims :
    row[c].completed /\ row[c].status = "intake_pending"
      ~> ~(row[c].completed /\ row[c].status = "intake_pending")

------------------------------------------------------------------------------
\* What a comment of the job says and the code does not do.

\* "keep triggered=1 so the claim stays visible and Part B re-fires the pipeline"
\* (startup cleanup; the memory guard of db.ts says the like): a claim the job was
\* retrying, and that is back in intake without anybody having given it up, keeps its
\* approval, or somebody is at work on it.
KeepsApproval(c) ==
  /\ row[c].status = "intake_pending" /\ row[c].dps \in {"pending", "intake_pending"}
  /\ row[c].retries > 0 /\ ~row[c].completed /\ ~row[c].triggered
  => \/ \E r \in Runs : target[r] = c /\ at[r] # "none"
     \/ \E j \in Jobs : job[j].claim = c
RetryKeepsApproval == \A c \in Claims : KeepsApproval(c)
==============================================================================
