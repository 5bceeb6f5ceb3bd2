---------------------------- MODULE PipelineSlots ----------------------------
(***************************************************************************)
(* The in-process pipeline semaphore of server/db.ts: a counter of active  *)
(* pipelines and a FIFO of wake-up closures, together with the slot        *)
(* discipline of its only user, triggerAiAssessment.                       *)
(*                                                                         *)
(* Both semaphore functions run without an await, so each is one step of   *)
(* the event loop.  A run is one invocation of triggerAiAssessment.  It is *)
(* "preflight" from the grant of its slot to the try statement whose       *)
(* finally gives the slot back, and "running" inside that statement.       *)
(***************************************************************************)
EXTENDS Naturals, Sequences, FiniteSets

CONSTANTS Runs,            \* invocations of triggerAiAssessment
          MaxConcurrent,   \* MAX_CONCURRENT_PIPELINES
          PreflightMayThrow \* may the code before the try throw (no claim row, database error)?

ASSUME SlotsAssumption ==
  /\ IsFiniteSet(Runs)
  /\ MaxConcurrent \in Nat \ {0}
  /\ PreflightMayThrow \in BOOLEAN

VARIABLES activeCount,     \* _activePipelineCount
          queue,           \* _pipelineQueue: the runs whose wake-up closures wait
          phase            \* where each invocation stands

slotVars == <<activeCount, queue, phase>>

Phases == {"idle", "waiting", "preflight", "running", "leaked"}

\* The runs the counter stands for: a leaked run ended without giving its slot back.
Holders == {r \in Runs : phase[r] \in {"preflight", "running", "leaked"}}

SlotsInit ==
  /\ activeCount = 0
  /\ queue = <<>>
  /\ phase = [r \in Runs |-> "idle"]

------------------------------------------------------------------------------

\* A faulty acquire that compares with <= instead of <.
AcquireOneTooMany(r) ==
  /\ phase[r] = "idle"
  /\ activeCount <= MaxConcurrent
  /\ activeCount' = activeCount + 1
  /\ phase' = [phase EXCEPT ![r] = "preflight"]
  /\ UNCHANGED queue

\* acquirePipelineSlot with a slot free: count it and resolve.
AcquireNow(r) ==
  /\ phase[r] = "idle"
  /\ activeCount < MaxConcurrent
  /\ activeCount' = activeCount + 1
  /\ phase' = [phase EXCEPT ![r] = "preflight"]
  /\ UNCHANGED queue

\* acquirePipelineSlot with every slot taken: queue the wake-up closure.
AcquireLater(r) ==
  /\ phase[r] = "idle"
  /\ activeCount >= MaxConcurrent
  /\ queue' = Append(queue, r)
  /\ phase' = [phase EXCEPT ![r] = "waiting"]
  /\ UNCHANGED activeCount

Acquire(r) == AcquireNow(r) \/ AcquireLater(r)

Floored(n) == IF n = 0 THEN 0 ELSE n - 1

\* Faulty releases, against which the properties are tried: one that uncounts the
\* slot twice, one that wakes nobody, and one that pops the last closure.
ReleaseCountedTwice(r) ==
  IF queue = <<>>
    THEN /\ activeCount' = Floored(Floored(activeCount))
         /\ phase' = [phase EXCEPT ![r] = "idle"]
         /\ UNCHANGED queue
    ELSE /\ activeCount' = Floored(Floored(activeCount)) + 1
         /\ phase' = [phase EXCEPT ![r] = "idle", ![Head(queue)] = "preflight"]
         /\ queue' = Tail(queue)

ReleaseWakingNobody(r) ==
  /\ activeCount' = Floored(activeCount)
  /\ phase' = [phase EXCEPT ![r] = "idle"]
  /\ UNCHANGED queue

ReleaseToLast(r) ==
  IF queue = <<>>
    THEN ReleaseWakingNobody(r)
    ELSE /\ activeCount' = Floored(activeCount) + 1
         /\ phase' = [phase EXCEPT ![r] = "idle", ![queue[Len(queue)]] = "preflight"]
         /\ queue' = SubSeq(queue, 1, Len(queue) - 1)

\* releasePipelineSlot: uncount the slot, then wake the head, which counts itself.
Release(r) ==
  IF queue = <<>>
    THEN /\ activeCount' = Floored(activeCount)
         /\ phase' = [phase EXCEPT ![r] = "idle"]
         /\ UNCHANGED queue
    ELSE /\ activeCount' = Floored(activeCount) + 1
         /\ phase' = [phase EXCEPT ![r] = "idle", ![Head(queue)] = "preflight"]
         /\ queue' = Tail(queue)

\* The memory guard and the missing database connection give the slot back.
LeavePreflight(r) == phase[r] = "preflight" /\ Release(r)

\* A missing claim row, or an error of the first database calls, is thrown
\* before the try statement: no finally runs and the slot stays counted.
ThrowInPreflight(r) ==
  /\ PreflightMayThrow
  /\ phase[r] = "preflight"
  /\ phase' = [phase EXCEPT ![r] = "leaked"]
  /\ UNCHANGED <<activeCount, queue>>

EnterTry(r) ==
  /\ phase[r] = "preflight"
  /\ phase' = [phase EXCEPT ![r] = "running"]
  /\ UNCHANGED <<activeCount, queue>>

\* The finally clause, on success, on failure and on timeout alike.
FinallyRelease(r) == phase[r] = "running" /\ Release(r)

\* A restart of the server: the counter, the queue and every run are lost.
Restart ==
  /\ activeCount' = 0
  /\ queue' = <<>>
  /\ phase' = [r \in Runs |-> "idle"]

RunStep(r) ==
  LeavePreflight(r) \/ ThrowInPreflight(r) \/ EnterTry(r) \/ FinallyRelease(r)

SlotsNext == Restart \/ \E r \in Runs : Acquire(r) \/ RunStep(r)

SlotsSpec == SlotsInit /\ [][SlotsNext]_slotVars

\* Every admitted run gets through: the 15-minute race and the finally clause
\* bound it.  Nothing obliges a caller to trigger another run.
FairSlotsSpec ==
  SlotsSpec /\ \A r \in Runs : WF_slotVars(EnterTry(r)) /\ WF_slotVars(FinallyRelease(r))

------------------------------------------------------------------------------

\* The types: the counter is never negative, and every invocation is where a path of
\* the code can take it.
SlotsTypeOK ==
  /\ activeCount \in Nat
  /\ queue \in Seq(Runs)
  /\ phase \in [Runs -> Phases]

\* The counter is exactly the number of runs that hold a slot or lost it: no
\* path of acquire, hand-off and release counts a slot twice or forgets one
\* (db.ts acquirePipelineSlot and releasePipelineSlot).
SlotAccounting == activeCount = Cardinality(Holders)

\* "MAX_CONCURRENT_PIPELINES=1 means only one pipeline runs at a time": the
\* hand-off of a slot to a queued run never admits one run too many.
AtMostMax == Cardinality({r \in Runs : phase[r] \in {"preflight", "running"}}) <= MaxConcurrent

\* No lost wake-up: a run waits only while every slot is taken.
NoLostWakeup == queue # <<>> => activeCount = MaxConcurrent

\* The queue holds exactly the waiting runs, each once: no closure is called
\* twice and no awaiting caller is without one.
QueueIsTheWaiters ==
  /\ \A i, j \in 1..Len(queue) : queue[i] = queue[j] => i = j
  /\ \A r \in Runs : phase[r] = "waiting" <=> \E i \in 1..Len(queue) : queue[i] = r

\* First come, first served: a run stops waiting only from the head of the
\* queue, unless the server restarted and nothing waits any more.
FirstComeFirstServed ==
  [][\A r \in Runs :
       phase[r] = "waiting" /\ phase'[r] # "waiting"
         => r = Head(queue) \/ (queue' = <<>> /\ activeCount' = 0)]_slotVars

\* "Always release the pipeline semaphore slot so the next queued claim can start" (db.ts,
\* the finally clause), as far as it is true when the code between the semaphore and the
\* try statement may throw: nobody waits for ever while the server is up, unless every
\* slot has leaked.
ServedUnlessLeaked ==
  \A r \in Runs :
    phase[r] = "waiting"
      ~> (phase[r] # "waiting" \/ Cardinality({q \in Runs : phase[q] = "leaked"}) = MaxConcurrent)

\* The counter and the closures implement bounded first-come-first-served
\* admission: acquire, hand-off, release and leak are steps of PipelineAdmission.
Admission == INSTANCE PipelineAdmission
               WITH Limit <- MaxConcurrent, inside <- Holders, line <- queue
ImplementsAdmission == Admission!Spec
==============================================================================
