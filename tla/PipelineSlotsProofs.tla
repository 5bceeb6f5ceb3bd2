------------------------- MODULE PipelineSlotsProofs -------------------------
(***************************************************************************)
(* Proofs about the pipeline semaphore, for every set of runs and every    *)
(* MAX_CONCURRENT_PIPELINES.  SlotInv is the inductive invariant: the      *)
(* counter equals the number of holders, never exceeds the maximum, is at  *)
(* the maximum while somebody waits, and the queue lists the waiters.      *)
(***************************************************************************)
EXTENDS PipelineSlots, FiniteSetTheorems, SequenceTheorems, TLAPS

SlotInv ==
  /\ SlotsTypeOK
  /\ SlotAccounting
  /\ activeCount <= MaxConcurrent
  /\ NoLostWakeup
  /\ QueueIsTheWaiters

(* Holders is finite, so adding and removing one run moves its size by one. *)
LEMMA HoldersFinite ==
  IsFiniteSet(Holders) /\ Cardinality(Holders) \in Nat
BY SlotsAssumption, FS_Subset, FS_CardinalityType DEF Holders, SlotsAssumption

(* The initial state, and the state after a restart, has no holder at all. *)
LEMMA EmptySlots ==
  ASSUME activeCount = 0, queue = <<>>, phase = [r \in Runs |-> "idle"]
  PROVE  SlotInv
<1>1. Holders = {}
  BY DEF Holders
<1>2. SlotAccounting
  BY <1>1, FS_EmptySet DEF SlotAccounting
<1>3. SlotsTypeOK
  BY DEF SlotsTypeOK, Phases
<1>4. NoLostWakeup /\ activeCount <= MaxConcurrent
  BY SlotsAssumption DEF NoLostWakeup, SlotsAssumption
<1>5. QueueIsTheWaiters
  BY DEF QueueIsTheWaiters
<1> QED
  BY <1>2, <1>3, <1>4, <1>5 DEF SlotInv

(* acquirePipelineSlot with room: one more holder, one more counted. *)
LEMMA AcquireNowKeeps ==
  ASSUME SlotInv, NEW r \in Runs, AcquireNow(r)
  PROVE  SlotInv'
<1> USE DEF SlotInv
<1>1. Holders' = Holders \union {r} /\ r \notin Holders
  BY DEF AcquireNow, Holders, SlotsTypeOK
<1>2. Cardinality(Holders') = Cardinality(Holders) + 1
  BY <1>1, HoldersFinite, FS_AddElement
<1>3. SlotAccounting' /\ (activeCount <= MaxConcurrent)'
  BY <1>2, SlotsAssumption DEF SlotAccounting, AcquireNow, SlotsTypeOK, SlotsAssumption
<1>4. SlotsTypeOK'
  BY DEF AcquireNow, SlotsTypeOK, Phases
<1>5. NoLostWakeup'
  BY SlotsAssumption DEF NoLostWakeup, AcquireNow, SlotsTypeOK, SlotsAssumption
<1>6. QueueIsTheWaiters'
  BY DEF QueueIsTheWaiters, AcquireNow, SlotsTypeOK
<1> QED
  BY <1>3, <1>4, <1>5, <1>6

(* acquirePipelineSlot without room: the run joins the end of the queue. *)
LEMMA AcquireLaterKeeps ==
  ASSUME SlotInv, NEW r \in Runs, AcquireLater(r)
  PROVE  SlotInv'
<1> USE DEF SlotInv
<1>1. Holders' = Holders
  BY DEF AcquireLater, Holders, SlotsTypeOK
<1>2. SlotAccounting' /\ (activeCount <= MaxConcurrent)'
  BY <1>1 DEF SlotAccounting, AcquireLater
<1>3. SlotsTypeOK'
  BY DEF AcquireLater, SlotsTypeOK, Phases
<1>4. NoLostWakeup'
  BY SlotsAssumption DEF NoLostWakeup, AcquireLater, SlotsTypeOK, SlotsAssumption
<1>5. QueueIsTheWaiters'
  <2>1. /\ Len(queue') = Len(queue) + 1
        /\ queue'[Len(queue) + 1] = r
        /\ \A i \in 1..Len(queue) : queue'[i] = queue[i]
    BY DEF AcquireLater, SlotsTypeOK
  <2>2. \A i \in 1..Len(queue) : queue[i] # r
    BY DEF QueueIsTheWaiters, AcquireLater
  <2>3. \A i, j \in 1..Len(queue') : queue'[i] = queue'[j] => i = j
    BY <2>1, <2>2 DEF QueueIsTheWaiters, SlotsTypeOK
  <2>4. ASSUME NEW s \in Runs
        PROVE  phase'[s] = "waiting" <=> \E i \in 1..Len(queue') : queue'[i] = s
    <3>1. CASE s = r
      BY <3>1, <2>1 DEF AcquireLater, SlotsTypeOK
    <3>2. CASE s # r
      BY <3>2, <2>1 DEF AcquireLater, SlotsTypeOK, QueueIsTheWaiters
    <3> QED
      BY <3>1, <3>2
  <2> QED
    BY <2>3, <2>4 DEF QueueIsTheWaiters
<1> QED
  BY <1>2, <1>3, <1>4, <1>5

(* releasePipelineSlot by a holder: its slot disappears or passes to the head. *)
LEMMA ReleaseKeeps ==
  ASSUME SlotInv, NEW r \in Runs, phase[r] \in {"preflight", "running"}, Release(r)
  PROVE  SlotInv'
<1> USE DEF SlotInv
<1>1. r \in Holders
  BY DEF Holders
<1>2. /\ Cardinality(Holders \ {r}) = Cardinality(Holders) - 1
      /\ IsFiniteSet(Holders \ {r})
      /\ Cardinality(Holders \ {r}) \in Nat
  BY <1>1, HoldersFinite, FS_RemoveElement, FS_CardinalityType
<1>3. activeCount > 0 /\ Floored(activeCount) = activeCount - 1
  BY <1>2 DEF SlotAccounting, SlotsTypeOK, Floored
<1>4. CASE queue = <<>>
  <2>1. Holders' = Holders \ {r}
    BY <1>4 DEF Release, Holders, SlotsTypeOK
  <2>2. SlotAccounting' /\ (activeCount <= MaxConcurrent)'
    BY <1>2, <1>3, <1>4, <2>1, SlotsAssumption
    DEF SlotAccounting, Release, SlotsTypeOK, SlotsAssumption
  <2>3. SlotsTypeOK'
    BY <1>3, <1>4 DEF Release, SlotsTypeOK, Phases
  <2>4. NoLostWakeup'
    BY <1>4 DEF NoLostWakeup, Release
  <2>5. QueueIsTheWaiters'
    BY <1>4 DEF QueueIsTheWaiters, Release, SlotsTypeOK
  <2> QED
    BY <2>2, <2>3, <2>4, <2>5
<1>5. CASE queue # <<>>
  <2> DEFINE h == Head(queue)
  <2>1. /\ Len(queue) \in Nat \ {0}
        /\ h = queue[1]
        /\ h \in Runs
        /\ phase[h] = "waiting"
        /\ h # r
    BY <1>5 DEF SlotsTypeOK, QueueIsTheWaiters
  <2>2. Holders' = (Holders \ {r}) \union {h} /\ h \notin Holders \ {r}
    BY <1>5, <2>1 DEF Release, Holders, SlotsTypeOK
  <2>3. Cardinality(Holders') = Cardinality(Holders)
    <3>1. Cardinality(Holders') = Cardinality(Holders \ {r}) + 1
      BY <1>2, <2>2, FS_AddElement
    <3> QED
      BY <3>1, <1>2, HoldersFinite
  <2>4. SlotAccounting' /\ (activeCount <= MaxConcurrent)' /\ activeCount' = activeCount
    BY <1>3, <1>5, <2>3 DEF SlotAccounting, Release, SlotsTypeOK
  <2>5. SlotsTypeOK'
    <3>1. queue' \in Seq(Runs)
      BY <1>5 DEF Release, SlotsTypeOK
    <3>2. phase' \in [Runs -> Phases]
      BY <1>5 DEF Release, SlotsTypeOK, Phases
    <3> QED
      BY <2>4, <3>1, <3>2 DEF SlotsTypeOK
  <2>6. NoLostWakeup'
    BY <1>5, <2>4 DEF NoLostWakeup
  <2>7. /\ queue' = Tail(queue)
        /\ Len(queue') = Len(queue) - 1
        /\ \A i \in 1..Len(queue') : queue'[i] = queue[i + 1]
    <3>1. queue' = Tail(queue)
      BY <1>5 DEF Release
    <3>2. queue \in Seq(Runs)
      BY DEF SlotsTypeOK
    <3>3. /\ Len(Tail(queue)) = Len(queue) - 1
          /\ \A i \in 1..Len(Tail(queue)) : Tail(queue)[i] = queue[i + 1]
      BY <1>5, <3>2, HeadTailProperties
    <3> QED
      BY <3>1, <3>3
  <2>8. \A i, j \in 1..Len(queue') : queue'[i] = queue'[j] => i = j
    BY <2>1, <2>7 DEF QueueIsTheWaiters
  <2>9. ASSUME NEW s \in Runs
        PROVE  phase'[s] = "waiting" <=> \E i \in 1..Len(queue') : queue'[i] = s
    <3>1. CASE s = r
      BY <3>1, <2>1, <2>7, <1>5 DEF Release, SlotsTypeOK, QueueIsTheWaiters
    <3>2. CASE s = h
      <4>1. phase'[s] = "preflight"
        BY <3>2, <2>1, <1>5 DEF Release, SlotsTypeOK
      <4>2. \A i \in 1..Len(queue') : queue'[i] # s
        BY <3>2, <2>1, <2>7 DEF QueueIsTheWaiters
      <4> QED
        BY <4>1, <4>2
    <3>3. CASE s # r /\ s # h
      <4>1. phase'[s] = phase[s]
        BY <3>3, <1>5 DEF Release, SlotsTypeOK
      <4>2. \A i \in 1..Len(queue) : queue[i] = s => i - 1 \in 1..Len(queue') /\ queue'[i - 1] = s
        BY <3>3, <2>1, <2>7 DEF SlotsTypeOK
      <4>3. \A i \in 1..Len(queue') : i + 1 \in 1..Len(queue)
        BY <2>1, <2>7
      <4>4. (\E i \in 1..Len(queue) : queue[i] = s) <=> \E i \in 1..Len(queue') : queue'[i] = s
        BY <4>2, <4>3, <2>7, Zenon
      <4>5. phase[s] = "waiting" <=> \E i \in 1..Len(queue) : queue[i] = s
        BY DEF QueueIsTheWaiters
      <4> QED
        BY <4>1, <4>4, <4>5, Zenon
    <3> QED
      BY <3>1, <3>2, <3>3
  <2> QED
    BY <2>4, <2>5, <2>6, <2>8, <2>9 DEF QueueIsTheWaiters
<1> QED
  BY <1>4, <1>5

(* Entering the try, and throwing before it, leave the holders as they are. *)
LEMMA StayHolderKeeps ==
  ASSUME SlotInv, NEW r \in Runs, EnterTry(r) \/ ThrowInPreflight(r)
  PROVE  SlotInv'
<1> USE DEF SlotInv
<1>1. Holders' = Holders
  BY DEF EnterTry, ThrowInPreflight, Holders, SlotsTypeOK
<1>2. SlotAccounting' /\ (activeCount <= MaxConcurrent)' /\ NoLostWakeup'
  BY <1>1 DEF SlotAccounting, NoLostWakeup, EnterTry, ThrowInPreflight
<1>3. SlotsTypeOK'
  BY DEF EnterTry, ThrowInPreflight, SlotsTypeOK, Phases
<1>4. QueueIsTheWaiters'
  BY DEF EnterTry, ThrowInPreflight, SlotsTypeOK, QueueIsTheWaiters
<1> QED
  BY <1>2, <1>3, <1>4

(* Every step of the semaphore and of its user preserves the invariant. *)
LEMMA SlotStepKeeps ==
  ASSUME SlotInv, [SlotsNext]_slotVars
  PROVE  SlotInv'
<1>1. CASE Restart
  <2>1. Holders' = {}
    BY <1>1 DEF Restart, Holders
  <2>2. SlotAccounting'
    BY <1>1, <2>1, FS_EmptySet DEF Restart, SlotAccounting
  <2>3. SlotsTypeOK' /\ QueueIsTheWaiters' /\ NoLostWakeup' /\ (activeCount <= MaxConcurrent)'
    BY <1>1, SlotsAssumption
    DEF Restart, SlotsTypeOK, Phases, QueueIsTheWaiters, NoLostWakeup, SlotsAssumption
  <2> QED
    BY <2>2, <2>3 DEF SlotInv
<1>2. ASSUME NEW r \in Runs, Acquire(r)
      PROVE  SlotInv'
  BY <1>2, AcquireNowKeeps, AcquireLaterKeeps DEF Acquire
<1>3. ASSUME NEW r \in Runs, RunStep(r)
      PROVE  SlotInv'
  <2>1. CASE LeavePreflight(r)
    BY <2>1, ReleaseKeeps DEF LeavePreflight
  <2>2. CASE FinallyRelease(r)
    BY <2>2, ReleaseKeeps DEF FinallyRelease
  <2>3. CASE EnterTry(r) \/ ThrowInPreflight(r)
    BY <2>3, StayHolderKeeps
  <2> QED
    BY <1>3, <2>1, <2>2, <2>3 DEF RunStep
<1>4. CASE UNCHANGED slotVars
  BY <1>4 DEF slotVars, SlotInv, SlotsTypeOK, SlotAccounting, Holders, NoLostWakeup, QueueIsTheWaiters
<1> QED
  BY <1>1, <1>2, <1>3, <1>4 DEF SlotsNext

(* The inductive invariant holds of every behaviour of the semaphore. *)
THEOREM SlotInvariant == SlotsSpec => []SlotInv
<1>1. SlotsInit => SlotInv
  BY EmptySlots DEF SlotsInit
<1>2. SlotInv /\ [SlotsNext]_slotVars => SlotInv'
  BY SlotStepKeeps
<1> QED
  BY <1>1, <1>2, PTL DEF SlotsSpec

(* Every invocation is where a path of the code can take it, and the counter is
   never negative. *)
THEOREM SlotsTypes == SlotsSpec => []SlotsTypeOK
<1>1. SlotInv => SlotsTypeOK
  BY DEF SlotInv
<1> QED
  BY <1>1, SlotInvariant, PTL

(* Every awaiting caller has exactly one closure in pipelineQueue, and every
   closure a caller that awaits it. *)
THEOREM QueueIsTheWaitersHolds == SlotsSpec => []QueueIsTheWaiters
<1>1. SlotInv => QueueIsTheWaiters
  BY DEF SlotInv
<1> QED
  BY <1>1, SlotInvariant, PTL

(* The counter of active pipelines is the number of runs that hold a slot or
   leaked one, for any number of runs (acquirePipelineSlot, releasePipelineSlot). *)
THEOREM SlotAccountingHolds == SlotsSpec => []SlotAccounting
<1>1. SlotInv => SlotAccounting
  BY DEF SlotInv
<1> QED
  BY <1>1, SlotInvariant, PTL

(* No more than MAX_CONCURRENT_PIPELINES runs are between grant and release. *)
THEOREM AtMostMaxHolds == SlotsSpec => []AtMostMax
<1>1. SlotInv => AtMostMax
  <2> SUFFICES ASSUME SlotInv PROVE AtMostMax
    OBVIOUS
  <2> DEFINE admitted == {r \in Runs : phase[r] \in {"preflight", "running"}}
  <2>1. admitted \subseteq Holders
    BY DEF Holders
  <2>2. Cardinality(admitted) <= Cardinality(Holders) /\ Cardinality(admitted) \in Nat
    BY <2>1, HoldersFinite, FS_Subset, FS_CardinalityType
  <2> QED
    BY <2>2, SlotsAssumption DEF AtMostMax, SlotInv, SlotAccounting, SlotsTypeOK, SlotsAssumption
<1> QED
  BY <1>1, SlotInvariant, PTL

(* A run waits only while every slot is taken. *)
THEOREM NoLostWakeupHolds == SlotsSpec => []NoLostWakeup
<1>1. SlotInv => NoLostWakeup
  BY DEF SlotInv
<1> QED
  BY <1>1, SlotInvariant, PTL

(* A run leaves the queue from its head only, or with a restart. *)
THEOREM FirstComeFirstServedHolds == SlotsSpec => FirstComeFirstServed
<1> DEFINE Fair == \A r \in Runs :
             phase[r] = "waiting" /\ phase'[r] # "waiting"
               => r = Head(queue) \/ (queue' = <<>> /\ activeCount' = 0)
<1>1. SlotInv /\ [SlotsNext]_slotVars => [Fair]_slotVars
  <2> SUFFICES ASSUME SlotInv, SlotsNext,
                      NEW s \in Runs, phase[s] = "waiting", phase'[s] # "waiting"
               PROVE  s = Head(queue) \/ (queue' = <<>> /\ activeCount' = 0)
    BY Zenon
  <2>1. CASE Restart
    BY <2>1 DEF Restart
  <2>2. ASSUME NEW r \in Runs, Acquire(r) PROVE FALSE
    BY <2>2 DEF Acquire, AcquireNow, AcquireLater, SlotInv, SlotsTypeOK
  <2>3. ASSUME NEW r \in Runs, RunStep(r) PROVE s = Head(queue)
    BY <2>3 DEF RunStep, LeavePreflight, ThrowInPreflight, EnterTry, FinallyRelease,
                Release, SlotInv, SlotsTypeOK
  <2> QED
    BY <2>1, <2>2, <2>3 DEF SlotsNext
<1> QED
  BY <1>1, SlotInvariant, PTL DEF SlotsSpec, FirstComeFirstServed

(* A release by a holder is a departure: alone, or handing over to the head. *)
LEMMA ReleaseIsDeparture ==
  ASSUME SlotInv, NEW r \in Runs, phase[r] \in {"preflight", "running"}, Release(r)
  PROVE  Admission!LeaveAlone(r) \/ Admission!HandOver(r)
<1> USE DEF SlotInv
<1>1. r \in Holders
  BY DEF Holders
<1>2. CASE queue = <<>>
  <2>1. Holders' = Holders \ {r}
    BY <1>2 DEF Release, Holders, SlotsTypeOK
  <2> QED
    BY <1>1, <1>2, <2>1 DEF Admission!LeaveAlone, Release
<1>3. CASE queue # <<>>
  <2>1. Head(queue) \in Runs /\ phase[Head(queue)] = "waiting"
    BY <1>3 DEF SlotsTypeOK, QueueIsTheWaiters
  <2>2. Holders' = (Holders \ {r}) \union {Head(queue)}
    BY <1>3, <2>1 DEF Release, Holders, SlotsTypeOK
  <2> QED
    BY <1>1, <1>3, <2>2 DEF Admission!HandOver, Release
<1> QED
  BY <1>2, <1>3

(* The instance's cardinality is the cardinality. *)
LEMMA SameCardinality ==
  ASSUME NEW S
  PROVE  Admission!Cardinality(S) = Cardinality(S)
BY DEF Admission!Cardinality, Cardinality

(* The semaphore of db.ts, its counter and its closures, is bounded
   first-come-first-served admission. *)
THEOREM ImplementsAdmissionHolds == SlotsSpec => ImplementsAdmission
<1>1. SlotsInit => Admission!Init
  BY DEF SlotsInit, Admission!Init, Holders
<1>2. SlotInv /\ [SlotsNext]_slotVars => [Admission!Next]_(Admission!admissionVars)
  <2> SUFFICES ASSUME SlotInv, [SlotsNext]_slotVars
               PROVE  [Admission!Next]_(Admission!admissionVars)
    OBVIOUS
  <2> USE DEF SlotInv
  <2>1. CASE Restart
    BY <2>1 DEF Restart, Holders, Admission!Next, Admission!Forget
  <2>2. ASSUME NEW r \in Runs, AcquireNow(r)
        PROVE  Admission!WalkIn(r)
    <3>1. Holders' = Holders \union {r} /\ r \notin Holders
      BY <2>2 DEF AcquireNow, Holders, SlotsTypeOK
    <3>2. queue = <<>>
      BY <2>2, SlotsAssumption DEF AcquireNow, NoLostWakeup, SlotsTypeOK, SlotsAssumption
    <3> QED
      BY <2>2, <3>1, <3>2, SameCardinality DEF AcquireNow, Admission!WalkIn, SlotAccounting
  <2>3. ASSUME NEW r \in Runs, AcquireLater(r)
        PROVE  Admission!QueueUp(r)
    <3>1. Holders' = Holders /\ r \notin Holders
      BY <2>3 DEF AcquireLater, Holders, SlotsTypeOK
    <3>2. activeCount = MaxConcurrent
      BY <2>3, SlotsAssumption DEF AcquireLater, SlotsTypeOK, SlotsAssumption
    <3>3. \A i \in 1..Len(queue) : queue[i] # r
      BY <2>3 DEF QueueIsTheWaiters, AcquireLater
    <3> QED
      BY <2>3, <3>1, <3>2, <3>3, SameCardinality DEF AcquireLater, Admission!QueueUp, SlotAccounting
  <2>4. ASSUME NEW r \in Runs, LeavePreflight(r) \/ FinallyRelease(r)
        PROVE  Admission!LeaveAlone(r) \/ Admission!HandOver(r)
    BY <2>4, ReleaseIsDeparture DEF LeavePreflight, FinallyRelease
  <2>5. ASSUME NEW r \in Runs, ThrowInPreflight(r) \/ EnterTry(r)
        PROVE  UNCHANGED Admission!admissionVars
    BY <2>5 DEF ThrowInPreflight, EnterTry, Holders, SlotsTypeOK, Admission!admissionVars
  <2>6. CASE UNCHANGED slotVars
    BY <2>6 DEF slotVars, Holders, Admission!admissionVars
  <2> QED
    BY <2>1, <2>2, <2>3, <2>4, <2>5, <2>6 DEF SlotsNext, Acquire, RunStep, Admission!Next
<1> QED
  BY <1>1, <1>2, SlotInvariant, PTL DEF SlotsSpec, ImplementsAdmission, Admission!Spec
==============================================================================
