# KINGA: the life of a claim in TLA+

KINGA is a claims platform. The part of it that is hard to get right is what happens to a claim
when several actors work on it: an assessment takes minutes, runs in the memory of one Node.js
process, is started by many callers, is watched by timers, and is picked up again by a
recovery job that knows nothing but the claims table; people move the claim through its workflow
meanwhile, finalise and lock the decision on it, and scheduled jobs on several servers contend for
a lease. These modules model the intake, the assessment and its recovery, the workflow, the
decision, and the lease. TLC checks them on small instances, and TLAPS proves the safety results
for every instance.

Paths below are relative to `src/server/` unless they start with `src/`.

## Inventory

| Component | State | Operations | Hard because | Correct means |
|---|---|---|---|---|
| Pipeline semaphore (`db.ts` 1073-1104) | `_activePipelineCount`, `_pipelineQueue` (closures) | acquire, release with hand-off | hand-off against new arrivals; exceptions; restarts | exact accounting, at most the maximum, first come first served, no lost wake-up |
| Pipeline driver `triggerAiAssessment` (`db.ts` 1107-3515) | the claim's row, its report, the local `pipelineSucceeded`, the watchdog, the raced orchestrator | about twelve awaited writes, catch, finally | other runs, watchdogs, callers and users write the same row between any two of them | a completed claim has its report; no claim stays in a transient state; every run ends |
| Triggers (`routers/claims-core.ts`, `routers/ai-reanalysis.ts`, `ai-rerun-service.ts`, `services/canonicalClaimIntake.ts`, claim creation, bulk endpoints) | flags on the row | pre-flight, fire, error handlers, reset button | handlers run after the slot is free | a failure stays visible; a reset does not hit a live run |
| Recovery job (`stuck-assessment-recovery-job.ts`) | the retry counter on the row; nothing else | startup cleanup, thirteen cases | works on stale query results; invocations overlap; crashes between its steps | finds every claim a dead run leaves; retries are bounded |
| Canonical intake (`services/canonicalClaimIntake.ts`) | `claim_intake_requests` | persist, start | duplicated and concurrent requests, crash after "assessment_starting" | one claim per idempotency key |
| Workflow engine (`workflow-engine.ts`, `rbac.ts`, the endpoints that call it or write beside it, `workflow-validator.ts`) | `claims.workflowState`, `workflow_audit_trail`, `claim_involvement_tracking` | transitions with and without override, direct writes | the state an endpoint has read, the count of duties and the assessment are stale when the claim is updated; update, audit and tracking are three statements | approval before payment before closing, an assessment before all; segregation of duties; true records |
| Decision lifecycle and governance (`decision-lifecycle.ts`, `decision-governance.ts`, `routers/ai-assessments-core.ts`, `db/intelligence-db.ts`) | `decision_snapshots`, `claim_decision_lifecycle`, `governance_audit_log` | save, look, review, finalise, lock, replay | every read and write an await of its own; updates without a condition on the state | one legal record, nothing locked without it, what was decided stands, every transition logged |
| Scheduled lease and outbox (`_core/scheduled-execution-lease.ts`, `_core/scheduled-effect-outbox.ts`) | `scheduled_job_executions`, `scheduled_job_effects` | acquire, take over, renew, fenced transaction, enqueue, finish | leases run out anywhere, holders die and come back, INSERTs arrive late | one holder, one effect per window, nothing after its end |
| Orchestrator (`pipeline-v2/orchestrator.ts`, `db-pipeline.ts`) | stage results, run id | stages, durable resume | resumed and concurrent runs share a run id | a resumed run repeats no finished stage |
| Intake escalation, fast track | none of their own | assign, move through the engine | act on what their query returned | see the workflow engine |
| Maintenance mode, report snapshots, policy versions, photo re-extraction, rate limits, metering, invitations | one table or flag each | see `PROJECT.json` | mostly sequential | see `PROJECT.json` |
| LLM client, storage, client UI | - | I/O | - | environment of the models |

How they interact: callers invoke `triggerAiAssessment` without awaiting it; invocations queue
in the semaphore; each writes its claim's row through the driver; the orchestrator it races
against a timer writes heartbeats to the same row; the watchdog, the caller's error handler, the
reset button and the recovery job write to it whenever they run; the recovery job invokes
`triggerAiAssessment` again. The workflow's endpoints write the claim's state in between, and look
at the assessment the driver deletes and inserts. There are no transactions around these writes
and no row versions, so **the claims row is the shared state and every awaited write is a step**.
The decision has tables of its own and the same habit. Only the lease uses transactions, row locks
and conditional statements.

The hazards, each at its line and with the properties that watch it, are in `PROJECT.json`.

## Modules

| Module | Models |
|---|---|
| `PipelineAdmission` | what the semaphore promises: a waiting room with a limit, walk-ins only while nobody waits, departures that call in the head of the line |
| `PipelineSlots` | the semaphore as coded: counter, queue of closures, `Math.max(0, ...)`, hand-off; the paths of `triggerAiAssessment` before its try, its finally; restarts |
| `PublishedReport` | what the assessment promises a reader of the claims table: the flag is raised only over a full report, and a report is exchanged only behind a lowered flag |
| `AssessmentPipeline` (extends `PipelineSlots`) | the driver, its callers and their error handlers, users, watchdog, orchestrator, restarts |
| `IdempotentIntake` | what canonical intake promises: a key is bound to a claim once, and every answer under it is that claim |
| `CanonicalIntake` | `persistCanonicalClaimIntake` and `startCanonicalIntakeAssessment` as overlapping calls run them, await by await |
| `StuckRecovery` (extends `AssessmentPipeline`) | the startup cleanup and the periodic job beside all of that, and the time the job looks at |
| `FencedWindow` | what the durable schedule promises of one window: a generation per holder, one effect, nothing after the end |
| `ScheduledLease` | acquire, take over, renew, the fenced transaction, enqueue and finish, statement by statement, against expiry and death |
| `ClaimWorkflow` | `transition()` await by await, every endpoint that calls it, and what writes `workflowState` beside it, as far as the repository calls it |
| `DecisionLifecycle` | snapshots, lifecycle row and governance log as overlapping requests read and write them |
| `PipelineSlotsProofs`, `AssessmentPipelineProofs`, `StuckRecoveryProofs`, `CanonicalIntakeProofs`, `ScheduledLeaseProofs`, `ClaimWorkflowProofs`, `DecisionLifecycleProofs` | theorems and proofs |
| `MCPipelineSlots`, `MCAssessmentPipeline`, `MCStuckRecovery`, `MCCanonicalIntake`, `MCScheduledLease`, `MCClaimWorkflow`, `MCDecisionLifecycle` | constants and symmetry for TLC |

### State and code

* `activeCount`, `queue` are the two variables of the semaphore; a closure is represented by
  the invocation it resolves. `phase[r]` says where invocation `r` is: waiting, in the
  preflight (between the semaphore and the try), running (inside try/catch/finally), or
  leaked (it threw in the preflight and still counts).
* `row[c]` has the columns of `claims` that decide control: `status`, `dps`
  (`documentProcessingStatus`), `wf` (`workflowState`), `triggered`, `completed`, `retries`, and
  the clocks `updated` (`updated_at`, which MySQL sets on every write), `started`
  (`aiAssessmentStartedAt`) and `beat` (`pipelineHeartbeatAt`). A clock counts the time since
  its column was written, up to `MaxAge`; `NoTime` is null. Nothing but the job reads the
  clocks, so time passes (`Tick`) in `StuckRecovery` only. `report[c]` is what `ai_assessments`
  holds at best: nothing, a row without a report (the stub of an incomplete run, or the empty row a rerun
  inserts before its run, `RecordRerun`), or a full report. Several empty rows count as one, and one beside
  a full report is not seen; the next run deletes them all.
* `at[r]` is the await at which invocation `r` stands: `called` (semaphore and preflight),
  `deferring` (the memory guard's write), then inside the try `preparing`, `recovering`,
  `ready`, `starting`, `analysing`, `incomplete`, `stubbing`, `inserting`, `saved`, `finalised`,
  then `catching`, `leaving`/`leavingOk` and `netting`/`nettingOk` (the finally's read and
  write), `rejected` (the caller's handler has not run yet). One action per awaited write;
  `Throw` is any other error of the try statement.
* `watchdog[r]` is the 8-minute timer: its callback tests `pipelineSucceeded`
  (`WatchdogFires`) and writes after an await (`WatchdogWrites`). `orchestrating` are the runs
  whose `runPipelineV2` still executes, also after the race was lost. `moved` are the claims
  the trigger mutation has moved to `assessment_in_progress` and not yet triggered.
* `job[j]` is an invocation of the recovery job: the case it works on, its step, the rows its
  query returned and the row at hand. `staggered` are the claims on a timer of the startup
  cleanup.
* `CanonicalIntake`: `request[k]` is the row of `claim_intake_requests` with unique key `k` (tenant, user
  and idempotency key), `stored` the claims, `call[c]` a call of a client: its await (`step`), key,
  hash and claim, and in `ended` the calls that had ended when it came. `ended`, `fired` and `notified` are history: the
  properties need them, the code does not read them. A claim is named after the
  call whose transaction stored it.
* `ScheduledLease`: `row` is the window's row in `scheduled_job_executions`, `effect` the one in
  `scheduled_job_effects`, `now` the database's clock, `owner` the execution whose transaction holds
  the row lock, `pending` what that transaction has inserted and not committed. Of an execution,
  `at` is where it stands, `fence` the generation it was granted, `wanted` an INSERT on its way;
  `told` (history) is until when it was told to have the lease.
* `ClaimWorkflow`: `wf` is `claims.workflowState`, `assessed` whether `ai_assessments` has a row of
  the claim, `audit` and `involved` the stages that `workflow_audit_trail` and
  `claim_involvement_tracking` show of each user. `request[q]` is a request being served: who, the
  state asked for, whether the audit columns can hold its entry, and the await it is at: `asked`,
  `cleared` (duties counted), `moving` or `overriding` (before the update), `moved`, `logged`, or
  `writing` (past the engine). What a user has `entered` is kept as long as no request of his breaks off half-way. `Endpoints` lists who may ask for what in which state of the claim,
  one definition per endpoint. `visited`, `evaluated`, `entered` and `broken` are history.
* `DecisionLifecycle`: `snapshots` in order of their id, with version and final mark, `row` the row
  of `claim_decision_lifecycle`, `governed` and `transitions` the two kinds of entries of
  `governance_audit_log`. `request[q]` has the kind, the await, and what it has read: the state, the
  snapshot, the version. `moved`, `lost` and `overlapped` are history.

### Abstractions

* What a report, a document or a stage contains is left out; extraction, OCR, quotes and the
  building of the record appear as the possibility to throw.
* `MoveToAssessment` performs the trigger mutation's calls of `updateClaimStatus`, each a read
  and a commit, as one step, and `AssignAssessor` its read and its write. The stub of an
  incomplete run is read and written in one step (only the holder of the slot writes reports, but for the
  empty row of a rerun, which is a stub already).
  The slot is released with the finally's last database access: no await lies between them.
* Three retries of a query (`withDbRetry`) are one access that may fail. The limits of the
  job's queries (10 to 50 rows) and the age of `submitted` claims (`created_at`) are left out: more
  claims are found than in the code, never fewer.
* Fire-and-forget tails of a successful run (fast track, notifications, learning table) do
  not write the columns above and are left out, as are the notifications and audit entries of
  the callers.
* The transaction of intake is one step that commits or leaves nothing; its commit may also succeed
  and be reported as a failure. Of the other updates a failure is one that wrote nothing. Claims
  are not deleted. `claimState` keeps of the claim's row only whether the assessment is pending,
  has been done, failed, or could not be started.
* Time is not compared between timers: a timer may fire at any moment after it was set. So the
  8-minute watchdog, the 15-minute race and the job's thresholds come in every order.
* After its identifier is free again (nothing of it left running) an invocation may be reused;
  with `n` identifiers at most `n` invocations exist at once, in the queue or outside.
* Lease: one window, since every statement names its window; one duration; a fresh id per acquisition
  (`randomUUID`). Work may leave one INSERT behind, by not awaiting its enqueue. Validation of keys
  and payloads is left out. At this commit only tests use the lease; the production jobs do not.
* Workflow: `status` follows `workflowState` and is left out; so are fraud preconditions, amounts and
  `technicallyApprovedBy`. The tenant's configuration does not change. A claim has a state (null is
  mapped from the status by the endpoints and is not modelled). MySQL runs in strict mode: an enum
  column refuses what it cannot hold. A mutation that makes several transitions is several
  requests. A request the engine refuses for what it was given is no step. What is tracked of user 0
  is not kept. `workflow.ts` `authorizePayment` has no callers in the repository; it is modelled
  because without it no claim is ever paid and what lies behind payment would hold of nothing. Other
  writers of `workflowState` that nothing but tests and scripts calls are left out: `approveTechnicalBasis` (184-211) and `closeClaim` (274-302)
  of `workflow.ts`, `workflow/state-machine.ts` 288, and the simulation (`workflow-simulation.ts`). The first three
  have no condition on the state in their update, so `StagesInOrder` and `AssessmentFirst` would
  not survive a caller of theirs: the properties are about the repository as it is wired.
* `workflowAudit.updateClaimState` (`utils/workflow-audit.ts` 87-140) is wired: it is served, though the client does not call it,
  and sets any of ten states for any account in one transaction, without a look at the state, the role, the duties or the assessment.
  `UpdateClaimState` is this write. After it the claim is past milestones it never reached, so the history counts
  what the new state presupposes (`Presupposed`) as behind the claim: what `StagesInOrder` and `AssessmentFirst`
  say is that nothing else ever passes over a milestone or the assessment, also not what follows such a write.
* `audit` keeps the engine's entries. Others write to `workflow_audit_trail`, too: `updateClaimState` and `logTransition`
  (`utils/workflow-audit.ts`), `routers/comments.ts` (83, 192, 350, 471, with state `created`), the rerun (`ai-rerun-service.ts` 112, with the state it
  read); and, without callers outside tests and scripts, `routing-audit-logger.ts` 56, `fast-track-workflow-integration.ts` 151,
  `confidence-scoring.ts` 510 and `workflow/audit-logger.ts`. No code decides anything by these entries;
  `RecordsTrue` says that the engine's moves are on record, not that every record is of a move.
* Decision: one claim; replay, which writes only its own log, and entries about blocked actions are left out.

## Runs

TLC, two workers, all below five minutes.

| Run | Bounds | Shows |
|---|---|---|
| `Slots` | 5 invocations, 2 slots, exceptions in the preflight, restarts | accounting, at most the maximum, no lost wake-up, first come first served; nobody waits for ever unless every slot has leaked; `PipelineSlots` implements `PipelineAdmission` |
| `Pipeline` | 2 invocations of 1 claim, all database errors, exceptions in the preflight, restarts | stops match slots; row and report implement `PublishedReport`; nothing but a watchdog fails a completed claim; every step respects the semaphore |
| `PipelineLive` | 2 invocations of 1 claim, no database errors, no restart | no claim in a transient status without a run; every invocation ends; transient statuses end |
| `Recovery` | 1 invocation, 1 claim, 1 job, clocks up to 1, restarts | every pipeline status left on a claim is matched by a case of the job |
| `RecoveryFaults` | 1 invocation, 1 claim, 1 job, 1 retry, errors in every access of the job, restarts | types of all three modules; a completed claim has its full report; retries bounded |
| `RecoveryLive` | 1 invocation, 1 claim, 1 job, finitely many restarts | pipeline statuses end, whatever dies; a completed claim does not stay in intake, where a late caller, a user or the startup cleanup has put it back |
| `RetryForgotten` (violation) | 1 job, 1 retry, restarts | a claim whose retry died has lost its approval |
| `Intake` | 3 calls, 2 keys, 2 contents, database errors, lost commits, restarts | types; one claim per key; answers agree; a replay starts nothing; outcomes are on record; `CanonicalIntake` implements `IdempotentIntake` |
| `Lease` | 3 executions, 2 effects, lease of 2, clock to 5 | types; a holder keeps the window as long as it was told; an open transaction is the holder's; `ScheduledLease` implements `FencedWindow` |
| `Workflow` | 2 requests, a claims manager, a panel beater and the system, 2 stages per user, `updateClaimState` sets one of 2 states | types; approval before payment before closing; an assessment first; segregation of duties; true records |
| `Decision` | 2 requests, 2 snapshots, failures anywhere | types; nothing locked without a record; one legal record; a finalised decision can be locked; transitions are logged; decisions stand |
| `LockUndone` (violation) | 2 requests, 1 snapshot | a request that read an earlier state takes a decision out of LOCKED |

Why the bounds are enough. Claims interact only through the semaphore and each row is written
by its own claim's actors, so the row properties need one claim and several actors on it: two
invocations give a late watchdog, a late orchestrator or a late error handler of the first
against the second. The semaphore itself is run with five invocations, so that two wait while
two hold and one arrives. With `MaxAge = 1` a row is either new or old enough for every case;
with `MaxAge = 0` every row is old enough and only nullness could differ, so those runs do not
keep `started` and `beat`. Intake calls meet only under one key: three of them give a winner, a loser
of the race and a replay, and two keys and contents every way in which a call can differ. One retry exercises reset, count and trigger as well as giving up.
Three executions of a window give a holder, one that takes over and one that comes back or waits, and with a
lease of 2 in a clock of 5 the lease can be renewed, expire, be taken over and expire again. Two requests give the
workflow and the decision a stale reader and a writer; since they are served one after the other without end, the
history of a claim is not bounded by them. The manager and the panel beater, with endpoints that borrow other roles,
reach every milestone, and the refused audit entry (nothing in the table leads to `intake_verified` or `ai_assessment_pending`); overlapping requests of one user and half-way failures of the workflow
(`Overlap`, `MaxBroken`) are left to the proofs, which hold for all of them.
Some bounds are as small as they are because the next larger one does not end in five minutes: `Recovery` and
`RecoveryLive` have `MaxRetries = 0` and every recovery run one job, `Workflow` has `Overlap = FALSE` and lets `updateClaimState` set two states of its ten: one
past the guard of the assessment (`internal_review`), and one past all milestones (`closed`).
What they leave out is proved for every value: `NoBlindSpotHolds`, `RetriesBoundedHolds` and
`RetryForgottenOnlyBy` for any number of retries and overlapping jobs, `WorkflowStagesInOrder`, `WorkflowAssessmentFirst` and
`OverlapCostsOneStageEach` with overlapping requests. Liveness is not proved; that an invocation of the job
ends with retries and overlap is left to `JobsGetOn`. With one identifier for runs `RecoveryLive` could not have retries at all: a dispatch
waits for the identifier, which users can keep in use, where the code always has a new invocation.
`MayRerun` is FALSE in the two liveness runs, and in `RetryForgotten`: no guard of a run or of the job
looks at a report.
The runs over `FreshRows` start from claims of both intake paths (`IntakeRow`,
`SubmittedRow`); the recovery runs start from a submitted one, from which the other's states
are reached as well.

Every property has a mutant, a plausible bug in the mapped definition, under which its run
fails; the faulty variants stand beside the definitions they vary, so marked.

## Fairness

* Intake, lease, workflow and decision are checked for safety only; nothing obliges a client, a user or a
  scheduler to come back. `Lease` does not check deadlock: the clock is bounded and executions end.
* `FairSlotsSpec`: an invocation past the semaphore gets to its try, and a running one to its
  finally. The 15-minute race bounds the wait for the orchestrator, and each call to a model
  has its own timeout (`_core/llm.ts`).
* `FairPipeSpec`: weak fairness on what an invocation owes, `Progress(r)`, which includes losing the
  race against the timer but neither success nor any particular error. The watchdog, users
  and triggers owe nothing.
* `FairRecoverySpec`: further, watchdogs fire, orchestrators end, the interval timer starts the
  job, the job goes on, time passes, staggered triggers fire, and the server restarts only
  finitely often. No fairness on users or on triggers.

No strong fairness is used: a guard that stays enabled is the only claim on the event loop.

## Proofs

For every set of invocations, claims and jobs, every maximum, and with every database error and
restart that the constants allow. Assumptions beyond the modules' own are named with the theorem.

* `PipelineSlotsProofs`: the inductive invariant `SlotInv` joins the accounting (the counter is the
  number of holders), the bound, the agreement of queue and waiting phases without repetition,
  and "somebody waits only when all slots are taken". The bound alone is not inductive: a
  release admits a waiter because the *counter* was full, so the counter has to be tied to the
  holders. From it follow accounting, bound, no lost wake-up, first come first served, and that
  `PipelineSlots` implements `PipelineAdmission`.
* `AssessmentPipelineProofs`: every step of the pipeline is a step of the semaphore
  (`PipelineUsesSlots`), so its theorems carry over. `PipeInv` joins the types with the agreement of
  stops and phases.
  - Reports. What the code relies on is that no two runs work on one claim (`OneRunPerClaim`), and
    the theorems say so: `CompletedHasReportUnlessTwice`, `PublishesUnlessTwice` and
    `OnlyWatchdogUnlessTwice` hold for every maximum of every behaviour in which this is so, and
    `OneSlotKeepsRunsApart` shows that `MaxConcurrent = 1`, the value in the code, makes it so, which
    gives each of them without the condition. The first two need `ReportInv`: a run that has deleted a report
    and not finished has its claim's flag down since its first update, and nobody else can raise it.
    `PublishesUnlessTwice` maps every step to a withdrawal, a replacement, a publication or a stutter
    of `PublishedReport`.
  - Progress. Liveness is out of the prover's reach, but the argument for it is not: `RunsMoveOn`
    gives the stops a rank that no step of anybody lowers while an invocation is on its way, and
    `OwedStepsMoveOn` that every step an invocation owes raises it. `EveryRunEnds` is what
    fairness makes of the two.
  - `NeverLeftTransientHolds` is about `PipeSpec` (no restart) with `DbMayFail = FALSE` and fresh rows outside
    the pipeline statuses: `TransientInv` says which stops of an invocation owe their claim a write that
    leaves those statuses, and that none of them believes to have succeeded.
* `StuckRecoveryProofs`: the job adds writes of its own; `JobOK` says what an invocation of it may be
  working on, and `RecoveryInv` joins it with `PipeInv`. Everything above that holds with restarts is proved again with
  any number of overlapping invocations of the job beside the pipeline (`RecoverySlotsHold`, `RecoveryStopsMatchSlots`,
  `RecoveryKeepsReports`, `RecoveryPublishesUnlessTwice`), because the job only clears the flag and takes slots only
  through `triggerAiAssessment`. `OnlyWatchdogFailsCompleted` does not survive: `OnlyWatchdogAndCleanupFail` names the one
  writer that joins the watchdog, Part B of the startup cleanup.
  - `RetriesBoundedHolds`: the counter is compared and raised several awaits apart. `RetryInv` counts, with the
    counter, the invocations that have compared and not yet raised; each started from a counter below the
    maximum, so that n invocations reach at most n - 1 beyond it. No assumption on overlapping is made but
    that the set of invocations is finite.
  - `NoBlindSpotUnlessTwice` (and `NoBlindSpotHolds`, under `MaxConcurrent = 1`) needs `SettledInv`: a claim flagged completed has
    no status of a run. Of the statuses in question it can then only have `assessment_in_progress`, in which
    Case 3 looks for it; Case 7 finds every claim that is not completed.
  - `RetryForgottenOnlyBy` is about the finding of the run `RetryForgotten`, and lists what can make the system forget a claim
    it was retrying. `Undisturbed` excludes it step by step: a restart; a run turned away before its first update (`TurnedAway`: the
    memory guard, no connection, an early error); and the reset button, the mutation's catch or a job that gives
    the claim up (`TakesApproval`). Without these, and with any number of overlapping jobs, whichever access
    fails and however old the rows are that they work on, a claim whose approval a job has taken
    has a run or a job on the way to restore it (`ApprovedOrAttended`). None of the three can be left out: without any
    one of them TLC finds a claim forgotten.
  - `JobsGetOn` orders what an invocation of the job has before it (cases left, rows left, step), and shows that
    each of its steps goes down in that order: the safety half of `InFlightEnds` and `LateResetHeals`.
* `CanonicalIntakeProofs`: `IntakeInv` joins the types; the ledger (`LedgerOK`: an entry names a stored claim,
  whose call sent what the entry says); every call (`CallOK`: what it stored or was answered with is
  in the entry of its key, and it fires only with its start on record); and `ReplayOK` (if a call had
  ended and had fired, the later call is not on its way to fire). None of them is inductive
  alone: that the transaction answers nobody wrongly needs that no call of a free key has a claim. From it follow one claim per key,
  agreement of answers, no start by replays, with `OutcomeInv` that outcomes are on record, and that `CanonicalIntake` implements `IdempotentIntake`.
  The assumption is that the marker for "none" is no call, key or content.
* `ScheduledLeaseProofs`: `LeaseInv` ties the promise to the row: whoever was told about a time in
  the future is the holder and the row expires no earlier (`PromiseInv`); the owner of the lock has
  a transaction open (`OwnerInv`), and what is pending was inserted by it, into an empty outbox (`PendingInv`). That
  no takeover happens below an open transaction is what keeps `TransactionOwnsWindow` although the clock
  runs on. `LeaseRefinesWindow` maps every step to a grant, a record, a finish or a stutter.
  `FencesNameTheirHolder` shows that generations are not given twice, so that the condition on the generation in each
  statement shuts out everybody but the last holder, and `StaleHolderIsHarmless` concludes that an
  execution that was taken over changes neither window nor outbox by any step of its own, late INSERT and death included.
* `ClaimWorkflowProofs`: a request that writes does not know the state of the claim, which may have
  changed since it was read; it knows what the claim *has been through*, which cannot be undone.
  `WorkflowInv` says so for every target (`Knows`) and every state (`Reached`). It holds with
  overrides, direct writers, `updateClaimState` to any state, and the pipeline, for every assignment of roles. For duties it adds what
  a request with a positive count still owes to the tables (`Pending`, `Serial`, `WithinLimit`).
  `DutiesSegregated` supposes that a user's requests do not overlap. `OverlapCostsOneStageEach` says what it costs when
  they do: at most one stage beyond the limit for each further request served at the time.
  `OwedInv` bounds the stages entered together with those that were let through; a stage that
  is not on record when duties are counted belongs to another request in flight, and a request is for one stage.
* `DecisionLifecycleProofs`: what a lock has checked cannot be undone (`RequestInv`, `RowInv`), so
  nothing is locked without a record however requests overlap. While requests to decide do not
  overlap, the state one of them has read is the state of the row when it writes
  (`SequentialInv`), from which one legal record, `FinalisedCanBeLocked` and `DecisionStands` follow, and that LOCKED is then
  terminal (`LockEndsUnlessOverlapped`): the overlap in the run `LockUndone` is the only way out of it.
  Three results need no condition on overlapping. `RecordIsAppendOnly`: nothing that was saved, marked, logged, finalised or
  locked is ever taken back, although the state may be. `FinalSnapshotOfFinalDecision`: an authoritative
  snapshot belongs to a decision that was finalised. `VersionsHaveNoGap`: overlapping saves repeat versions and skip none.

Only model-checked: the liveness properties under fairness (`ServedUnlessLeaked`, `EveryRunEnds`,
`TransientEnds`, `InFlightEnds`, `LateResetHeals`), which the prover does not reach. Every other property of
a passing run is stated by a theorem.

## Departures from the comments

Two disagreements have a run and are listed as findings (`RetryForgotten`, `LockUndone`). Others
were met while the models were written, and are visible in the code without one.

Pipeline, recovery and intake:

* `db.ts` 3510, "Always release the pipeline semaphore slot so the next queued claim can start": what
  throws between the semaphore and the try statement (1164-1188) keeps the slot, and everybody behind
  it waits for ever (the exception that `ServedUnlessLeaked` makes).
* `db.ts` 1140-1143, "Claim will be retried by recovery job", "keep aiAssessmentTriggered=1 so the claim stays visible": the
  memory guard writes the row without the flag. If it is down, as it is after the reset of a retry
  and in a claim whose first run was started in the background, no case looks for the claim (`RetryForgottenOnlyBy`).
* `db.ts` 1171-1177, "SAFE REPLACE", the old report "is still intact and the reports can still render": a rerun inserts
  an empty row of its own before its run, which until the run replaces it is the claim's latest, also of a
  claim that is complete. It counts as an assessment for the engine's guard, too (`workflow-engine.ts`, 4.5).
* `db.ts` 1077, "only one pipeline runs at a time": `Promise.race` does not stop the orchestrator that
  lost, so the next invocation's runs beside it.
* Recovery job, 67, "the recovery job will NOT re-trigger it again": the counter is compared and
  raised several awaits apart, and the interval, the startup and the endpoint may overlap, so that two
  invocations both use the last retry (`RetriesBoundedHolds` says how far that goes).
* `canonicalClaimIntake.ts` 94: two overlapping submissions of one key both find no start on record and both
  start the assessment, where `src/audit/p0-package-2-isolated-operational-acceptance-work-notice-2026-08-13.md` 17
  promises "a single ... assessment-start side effect".
* `db.ts` 3457, "the success path already wrote assessment_complete to the DB. Do NOT reset": the
  watchdog tests `pipelineSucceeded`, awaits a connection and then fails the claim that completed in
  between; and the `PIPELINE_INCOMPLETE` return does not clear it, so that it fires into the next run
  (the exception that `OnlyWatchdogFailsCompleted` makes).
* `canonicalClaimIntake.ts` 94, a restart after "assessment_starting": a replay is told "already_recorded",
  and no case of the recovery job looks for the claim, whose flag was never set.

* `workflow-validator.ts` 87, `document_failed` "MUST NEVER transition to analysis_complete": the
  watchdog fails the claim of a slow run, which then completes it.
* `db.ts` 3495, "Do NOT reset aiAssessmentTriggered to 0 here": the catch handler of the trigger
  mutation (`claims-core.ts` 2262) does so right after.
* `claims-core.ts` 2161, the flag "prevents the resetStuckClaim guard" from resetting a claim in
  flight: `resetStuckClaim` has no such guard.
* Recovery job, Cases 3, 7 and 12 write to rows that may have changed since their query: a new run
  may have started (3), the run may have completed (7), the approval may be gone (12).
* Case 7 resets claims whose run is alive or still queued, after 5 minutes since the pre-flight.
* Claims created with photos only have no source document, so Case 12 never fires again what Case 7 reset.
* The header says the retry counter is reset on completion and by the reset button; only Case 3 does.
* `claims-core.ts` 2121-2124 moves a submitted claim through intermediate states, which
  `updateClaimStatus` refuses for a claim that is in workflow state `created`.

Workflow:

* `workflow-engine.ts` 6, "legal transitions only": the update (262-269) has no condition on the state, so
  that two requests that read the same state both write, and the second move starts from a state the claim has left.
* The audit entry is inserted after the update, and its columns cannot hold the role `panel_beater` nor the states
  `ai_assessment_pending`, `ai_assessment_completed` and `manual_review` (`src/drizzle/schema.ts` 4046-4048): such a
  transition stands and is not on record. `quotes.submit` from `internal_review` is refused for a panel beater
  after the quote was stored.
* Header, 12, "NO direct claim state updates": `intake-gate.ts`, the escalation job, `acceptSettlement`, the
  pipeline and the recovery job write `workflowState` themselves, over whatever it is by then. `workflowAudit.updateClaimState`
  closes a claim that was just created (the exception that `StagesInOrder` and `AssessmentFirst` make).
* `allowOverride || true` (489) overrides always. `technical_approval -> payment_authorized` has no entry in the table of
  roles and is open to all. The trigger mutation passes the role `claims_processor` whoever calls.
* Overlapping requests of a user, or an error between update and tracking, take him past the limit of
  segregation (the exceptions that `DutiesSegregated` makes; `OverlapCostsOneStageEach` says how far the first goes).
* `fast-track-dispatcher.ts` 353 calls an action straight to payment that moves to `under_assessment` (365-369).
* Four mutations of `claims-core.ts` (`authorizePayment`, `initiateDispute`, `rejectClaim`, `insurerOverride`) write
  values that the column's enum does not have.

Decision:

* An error between FINALISED and `markAuthoritativeSnapshot` leaves a decision that can never be locked.
* `decision-lifecycle.ts` 202-209, "structurally impossible to change the decision lifecycle state without a record":
  an error of that write is swallowed (229), and a restart can come before it.
* Two overlapping saves give the same version; `ai-assessments-core.ts` 1228 says "ordered by createdAt", the
  query orders by version. Snapshots may be saved after the decision is final (`isRecalculationAllowed` has no callers).

## Not modelled

* The stages of the orchestrator and their durable resume: what they resume from is the content of
  stage results, which no module keeps; their outcome, timeout and heartbeats are in `AssessmentPipeline`.
* The composition of canonical intake with the pipeline: `AssessmentPipeline` has intake's start as
  `TriggerFromIntake`, and `CanonicalIntake` what the run does to the claim as one of two outcomes. The claim
  that a restart strands after "assessment_starting" is therefore only described above.
* The composition of workflow and pipeline: `ClaimWorkflow` has the pipeline's writes as environment, in any order.
* The validator of the old status column, replays and report snapshots, report and policy computation, rule
  evaluation, notifications.
* Activation of policy and threshold versions, and `report-snapshot-service.ts`: each reads the active version
  and writes in separate statements without a transaction, so that two that overlap leave two active versions.
* Maintenance mode: a flag at the start of the process, a middleware that answers 503, jobs not started.
* Photo re-extraction, rate limits, metering, invitations, the LLM client, storage and the client: data or
  I/O without control state shared with the claim.
