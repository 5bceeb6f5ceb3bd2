------------------------ MODULE ScheduledLeaseProofs ------------------------
(***************************************************************************)
(* Theorems about ScheduledLease, for every number of executions, every    *)
(* set of effects, every lease and clock.                                  *)
(*                                                                         *)
(* The promise made to an execution is kept because nobody is granted the  *)
(* window before the deadline in the row, which is never earlier than one  *)
(* the holder was told; an open transaction owns the window because a      *)
(* takeover waits for its lock.  LeaseInv adds what a transaction has      *)
(* inserted and not yet committed.  The last part is about the fence: what *)
(* an execution can still do once it has been taken over.                  *)
(***************************************************************************)
EXTENDS ScheduledLease, TLAPS

(* The deadline an execution was told does not lie beyond that of its row,  *)
(* which in turn is never further away than a lease.                        *)
PromiseInv ==
  /\ row.expires <= now + Lease
  /\ \A e \in Executions :
       told[e] > now =>
         row.holder = e /\ row.generation = fence[e] /\ told[e] <= row.expires

(* The lock belongs to a transaction that is open. *)
OwnerInv == owner # Nobody => at[owner] \in InTransaction

(* An effect is inserted by the transaction that has the lock, into an empty *)
(* outbox, with the generation of the row.                                  *)
PendingInv ==
  pending # NoEffect =>
    /\ owner # Nobody /\ at[owner] \in {"working", "inserting"}
    /\ effect = NoEffect /\ pending.generation = row.generation

(* Who is about to insert has seen an empty outbox. *)
InsertInv ==
  \A e \in Executions :
    at[e] = "inserting" => wanted[e] # NoEffect /\ pending = NoEffect /\ effect = NoEffect

LeaseInv ==
  LeaseTypeOK /\ PromiseInv /\ TransactionOwnsWindow /\ OwnerInv /\ PendingInv /\ InsertInv

LEMMA InitLeaseInv == LeaseInit => LeaseInv
  BY LeaseAssumption
  DEF LeaseInit, LeaseInv, LeaseTypeOK, PromiseInv, TransactionOwnsWindow, OwnerInv,
      PendingInv, InsertInv, NoRow, Stored, Steps, InTransaction, Ended

LEMMA GrantKeepsInv ==
  ASSUME LeaseInv, NEW e \in Executions,
         at[e] = "idle", Unlocked, row = NoRow \/ ~Current, Grant(e)
  PROVE  LeaseInv'
  <1> USE LeaseAssumption DEF LeaseInv, Unlocked, Current, Grant, NoRow
  <1>1. LeaseTypeOK'
    BY DEF LeaseTypeOK, Steps, Stored
  <1>2. PromiseInv'
    BY DEF LeaseTypeOK, PromiseInv
  <1>3. TransactionOwnsWindow'
    BY DEF LeaseTypeOK, TransactionOwnsWindow, InTransaction
  <1>4. OwnerInv' /\ PendingInv' /\ InsertInv'
    BY DEF LeaseTypeOK, OwnerInv, PendingInv, InsertInv
  <1> QED BY <1>1, <1>2, <1>3, <1>4

LEMMA TurnedAwayKeepsInv ==
  ASSUME LeaseInv, NEW e \in Executions, TurnedAway(e)
  PROVE  LeaseInv'
  BY DEF TurnedAway, LeaseInv, LeaseTypeOK, Steps, PromiseInv, TransactionOwnsWindow, OwnerInv,
         PendingInv, InsertInv, InTransaction

LEMMA RenewKeepsInv ==
  ASSUME LeaseInv, NEW e \in Executions, Renew(e)
  PROVE  LeaseInv'
  <1> USE LeaseAssumption DEF LeaseInv, Renew, Unlocked, HasFence, Current
  <1>1. LeaseTypeOK'
    BY DEF LeaseTypeOK, Steps, Stored, Ended
  <1>2. PromiseInv'
    <2>1. row'.holder = e /\ row'.generation = fence[e] /\ row'.expires = now + Lease
      BY DEF LeaseTypeOK
    <2>2. \A x \in Executions : told[x] > now => x = e /\ told[x] <= now + Lease
      BY DEF LeaseTypeOK, PromiseInv
    <2>3. \A x \in Executions : told'[x] > now => x = e /\ told'[x] <= now + Lease
      BY <2>2 DEF LeaseTypeOK
    <2> QED BY <2>1, <2>3 DEF LeaseTypeOK, PromiseInv
  <1>3. TransactionOwnsWindow'
    BY DEF LeaseTypeOK, TransactionOwnsWindow, OwnerInv, InTransaction
  <1>4. OwnerInv'
    BY DEF LeaseTypeOK, TransactionOwnsWindow, OwnerInv, InTransaction
  <1>5. PendingInv'
    BY DEF LeaseTypeOK, TransactionOwnsWindow, OwnerInv, PendingInv, InsertInv, InTransaction, Stored
  <1>6. InsertInv'
    BY DEF LeaseTypeOK, TransactionOwnsWindow, PendingInv, InsertInv, InTransaction
  <1> QED BY <1>1, <1>2, <1>3, <1>4, <1>5, <1>6

LEMMA BeginKeepsInv ==
  ASSUME LeaseInv, NEW e \in Executions, NEW step \in {"working", "finishing"}, Begin(e, step)
  PROVE  LeaseInv'
  <1> USE LeaseAssumption DEF LeaseInv, Begin, Unlocked, HasFence, Current
  <1>1. LeaseTypeOK'
    BY DEF LeaseTypeOK, Steps, Stored, Ended
  <1>2. PromiseInv'
    BY DEF LeaseTypeOK, PromiseInv, TransactionOwnsWindow, InTransaction
  <1>3. TransactionOwnsWindow'
    BY DEF LeaseTypeOK, TransactionOwnsWindow, OwnerInv, InTransaction
  <1>4. OwnerInv'
    BY DEF LeaseTypeOK, TransactionOwnsWindow, OwnerInv, InTransaction
  <1>5. PendingInv'
    BY DEF LeaseTypeOK, TransactionOwnsWindow, OwnerInv, PendingInv, InsertInv, InTransaction, Stored
  <1>6. InsertInv'
    BY DEF LeaseTypeOK, TransactionOwnsWindow, PendingInv, InsertInv, InTransaction
  <1> QED BY <1>1, <1>2, <1>3, <1>4, <1>5, <1>6

LEMMA EnqueueKeepsInv ==
  ASSUME LeaseInv, NEW e \in Executions, NEW c \in Effects, Enqueue(e, c)
  PROVE  LeaseInv'
  <1> USE LeaseAssumption DEF LeaseInv, Enqueue, HasFence, Visible, Current
  <1>1. LeaseTypeOK'
    BY DEF LeaseTypeOK, Steps, Stored, Ended
  <1>2. PromiseInv'
    BY DEF LeaseTypeOK, PromiseInv, TransactionOwnsWindow, InTransaction
  <1>3. TransactionOwnsWindow'
    BY DEF LeaseTypeOK, TransactionOwnsWindow, OwnerInv, InTransaction
  <1>4. OwnerInv'
    BY DEF LeaseTypeOK, TransactionOwnsWindow, OwnerInv, InTransaction
  <1>5. PendingInv'
    BY DEF LeaseTypeOK, TransactionOwnsWindow, OwnerInv, PendingInv, InsertInv, InTransaction, Stored
  <1>6. InsertInv'
    BY DEF LeaseTypeOK, TransactionOwnsWindow, PendingInv, InsertInv, InTransaction
  <1> QED BY <1>1, <1>2, <1>3, <1>4, <1>5, <1>6

LEMMA InsertKeepsInv ==
  ASSUME LeaseInv, NEW e \in Executions, Insert(e)
  PROVE  LeaseInv'
  <1> USE LeaseAssumption DEF LeaseInv, Insert, HasFence, NewEffect, Current
  <1>1. LeaseTypeOK'
    <2>1. wanted[e] \in Effects
      BY DEF LeaseTypeOK, InsertInv
    <2>2. pending' \in Stored
      BY <2>1 DEF LeaseTypeOK, Stored
    <2> QED BY <2>2 DEF LeaseTypeOK, Steps
  <1>2. PromiseInv'
    BY DEF LeaseTypeOK, PromiseInv, TransactionOwnsWindow, InTransaction
  <1>3. TransactionOwnsWindow'
    BY DEF LeaseTypeOK, TransactionOwnsWindow, OwnerInv, InTransaction
  <1>4. OwnerInv'
    BY DEF LeaseTypeOK, TransactionOwnsWindow, OwnerInv, InTransaction
  <1>5. PendingInv'
    BY DEF LeaseTypeOK, TransactionOwnsWindow, OwnerInv, PendingInv, InsertInv, InTransaction, Stored
  <1>6. InsertInv'
    BY DEF LeaseTypeOK, TransactionOwnsWindow, PendingInv, InsertInv, InTransaction
  <1> QED BY <1>1, <1>2, <1>3, <1>4, <1>5, <1>6

LEMMA CommitKeepsInv ==
  ASSUME LeaseInv, NEW e \in Executions, Commit(e)
  PROVE  LeaseInv'
  <1> USE LeaseAssumption DEF LeaseInv, Commit, EndTransaction, Visible
  <1>1. LeaseTypeOK'
    BY DEF LeaseTypeOK, Steps, Stored, Ended
  <1>2. PromiseInv'
    BY DEF LeaseTypeOK, PromiseInv, TransactionOwnsWindow, InTransaction
  <1>3. TransactionOwnsWindow'
    BY DEF LeaseTypeOK, TransactionOwnsWindow, OwnerInv, InTransaction
  <1>4. OwnerInv'
    BY DEF LeaseTypeOK, TransactionOwnsWindow, OwnerInv, InTransaction
  <1>5. PendingInv'
    BY DEF LeaseTypeOK, TransactionOwnsWindow, OwnerInv, PendingInv, InsertInv, InTransaction, Stored
  <1>6. InsertInv'
    BY DEF LeaseTypeOK, TransactionOwnsWindow, PendingInv, InsertInv, InTransaction
  <1> QED BY <1>1, <1>2, <1>3, <1>4, <1>5, <1>6

LEMMA RollBackKeepsInv ==
  ASSUME LeaseInv, NEW e \in Executions, RollBack(e) \/ FinishFails(e)
  PROVE  LeaseInv'
  <1> USE LeaseAssumption DEF LeaseInv, RollBack, FinishFails, EndTransaction
  <1>1. LeaseTypeOK'
    BY DEF LeaseTypeOK, Steps, Stored, Ended
  <1>2. PromiseInv'
    BY DEF LeaseTypeOK, PromiseInv, TransactionOwnsWindow, InTransaction
  <1>3. TransactionOwnsWindow'
    BY DEF LeaseTypeOK, TransactionOwnsWindow, OwnerInv, InTransaction
  <1>4. OwnerInv'
    BY DEF LeaseTypeOK, TransactionOwnsWindow, OwnerInv, InTransaction
  <1>5. PendingInv'
    BY DEF LeaseTypeOK, TransactionOwnsWindow, OwnerInv, PendingInv, InsertInv, InTransaction, Stored
  <1>6. InsertInv'
    BY DEF LeaseTypeOK, TransactionOwnsWindow, PendingInv, InsertInv, InTransaction
  <1> QED BY <1>1, <1>2, <1>3, <1>4, <1>5, <1>6

LEMMA FinishKeepsInv ==
  ASSUME LeaseInv, NEW e \in Executions, Finish(e)
  PROVE  LeaseInv'
  <1> USE LeaseAssumption DEF LeaseInv, Finish, EndTransaction, HasFence, Current
  <1>1. LeaseTypeOK'
    BY DEF LeaseTypeOK, Steps, Stored, Ended
  <1>2. PromiseInv'
    BY DEF LeaseTypeOK, PromiseInv, TransactionOwnsWindow, InTransaction
  <1>3. TransactionOwnsWindow'
    BY DEF LeaseTypeOK, TransactionOwnsWindow, OwnerInv, InTransaction
  <1>4. OwnerInv'
    BY DEF LeaseTypeOK, TransactionOwnsWindow, OwnerInv, InTransaction
  <1>5. PendingInv'
    BY DEF LeaseTypeOK, TransactionOwnsWindow, OwnerInv, PendingInv, InsertInv, InTransaction, Stored
  <1>6. InsertInv'
    BY DEF LeaseTypeOK, TransactionOwnsWindow, PendingInv, InsertInv, InTransaction
  <1> QED BY <1>1, <1>2, <1>3, <1>4, <1>5, <1>6

LEMMA InsertLateKeepsInv ==
  ASSUME LeaseInv, NEW e \in Executions, InsertLate(e)
  PROVE  LeaseInv'
  <1> USE LeaseAssumption DEF LeaseInv, InsertLate, Unlocked, HasFence, NewEffect, Current
  <1>1. LeaseTypeOK'
    BY DEF LeaseTypeOK, Steps, Stored, Ended
  <1>2. PromiseInv'
    BY DEF LeaseTypeOK, PromiseInv, TransactionOwnsWindow, InTransaction
  <1>3. TransactionOwnsWindow'
    BY DEF LeaseTypeOK, TransactionOwnsWindow, OwnerInv, InTransaction
  <1>4. OwnerInv'
    BY DEF LeaseTypeOK, TransactionOwnsWindow, OwnerInv, InTransaction
  <1>5. PendingInv'
    BY DEF LeaseTypeOK, TransactionOwnsWindow, OwnerInv, PendingInv, InsertInv, InTransaction, Stored
  <1>6. InsertInv'
    BY DEF LeaseTypeOK, TransactionOwnsWindow, PendingInv, InsertInv, InTransaction
  <1> QED BY <1>1, <1>2, <1>3, <1>4, <1>5, <1>6

LEMMA ReturnKeepsInv ==
  ASSUME LeaseInv, NEW e \in Executions, Return(e)
  PROVE  LeaseInv'
  BY DEF Return, LeaseInv, LeaseTypeOK, Steps, PromiseInv, TransactionOwnsWindow, OwnerInv,
         PendingInv, InsertInv, InTransaction

LEMMA DieKeepsInv ==
  ASSUME LeaseInv, NEW e \in Executions, Die(e)
  PROVE  LeaseInv'
  <1> USE LeaseAssumption DEF LeaseInv, Die
  <1>1. LeaseTypeOK'
    BY DEF LeaseTypeOK, Steps, Stored, Ended
  <1>2. PromiseInv'
    BY DEF LeaseTypeOK, PromiseInv, TransactionOwnsWindow, InTransaction
  <1>3. TransactionOwnsWindow'
    BY DEF LeaseTypeOK, TransactionOwnsWindow, OwnerInv, InTransaction
  <1>4. OwnerInv'
    BY DEF LeaseTypeOK, TransactionOwnsWindow, OwnerInv, InTransaction
  <1>5. PendingInv'
    BY DEF LeaseTypeOK, TransactionOwnsWindow, OwnerInv, PendingInv, InsertInv, InTransaction, Stored
  <1>6. InsertInv'
    BY DEF LeaseTypeOK, TransactionOwnsWindow, PendingInv, InsertInv, InTransaction
  <1> QED BY <1>1, <1>2, <1>3, <1>4, <1>5, <1>6

LEMMA TickKeepsInv ==
  ASSUME LeaseInv, Tick
  PROVE  LeaseInv'
  <1>1. LeaseTypeOK' /\ PromiseInv'
    BY LeaseAssumption DEF Tick, LeaseInv, LeaseTypeOK, PromiseInv
  <1>2. TransactionOwnsWindow' /\ OwnerInv' /\ PendingInv' /\ InsertInv'
    BY DEF Tick, LeaseInv, TransactionOwnsWindow, OwnerInv, PendingInv, InsertInv
  <1> QED BY <1>1, <1>2 DEF LeaseInv

LEMMA StepKeepsInv == LeaseInv /\ [LeaseNext]_vars => LeaseInv'
  <1> SUFFICES ASSUME LeaseInv, [LeaseNext]_vars PROVE LeaseInv'
    OBVIOUS
  <1>1. CASE Tick
    BY <1>1, TickKeepsInv
  <1>2. ASSUME NEW e \in Executions, ExecutionStep(e) PROVE LeaseInv'
    <2>1. CASE AcquireNew(e)
      BY <2>1, GrantKeepsInv DEF AcquireNew
    <2>2. CASE TakeOver(e)
      BY <2>2, GrantKeepsInv DEF TakeOver
    <2>3. CASE TurnedAway(e) \/ Renew(e)
      BY <2>3, TurnedAwayKeepsInv, RenewKeepsInv
    <2>4. CASE BeginWork(e) \/ BeginFinish(e)
      BY <2>4, BeginKeepsInv DEF BeginWork, BeginFinish
    <2>5. CASE (\E c \in Effects : Enqueue(e, c)) \/ Insert(e)
      BY <2>5, EnqueueKeepsInv, InsertKeepsInv
    <2>6. CASE Commit(e) \/ RollBack(e) \/ FinishFails(e)
      BY <2>6, CommitKeepsInv, RollBackKeepsInv
    <2>7. CASE Finish(e) \/ InsertLate(e)
      BY <2>7, FinishKeepsInv, InsertLateKeepsInv
    <2>8. CASE Return(e) \/ Die(e)
      BY <2>8, ReturnKeepsInv, DieKeepsInv
    <2> QED BY <1>2, <2>1, <2>2, <2>3, <2>4, <2>5, <2>6, <2>7, <2>8 DEF ExecutionStep
  <1>3. CASE UNCHANGED vars
    BY <1>3 DEF vars, LeaseInv, LeaseTypeOK, PromiseInv, TransactionOwnsWindow,
                OwnerInv, PendingInv, InsertInv
  <1> QED BY <1>1, <1>2, <1>3 DEF LeaseNext

(* LeaseInv is an invariant of every execution of the lease and the outbox. *)
THEOREM LeaseInvariant == LeaseSpec => []LeaseInv
  <1> QED BY InitLeaseInv, StepKeepsInv, PTL DEF LeaseSpec

(* The variables keep their types. *)
THEOREM LeaseTypeCorrect == LeaseSpec => []LeaseTypeOK
  <1>1. LeaseInv => LeaseTypeOK
    BY DEF LeaseInv
  <1> QED BY <1>1, LeaseInvariant, PTL

(* An execution keeps the window until the moment it was told, whatever the  *)
(* other executions of the window do.                                        *)
THEOREM LeasePromiseKept == LeaseSpec => []PromiseKept
  <1>1. LeaseInv => PromiseKept
    BY DEF LeaseInv, PromiseInv, PromiseKept
  <1> QED BY <1>1, LeaseInvariant, PTL

(* A fenced transaction never loses the window before it ends. *)
THEOREM LeaseTransactionOwns == LeaseSpec => []TransactionOwnsWindow
  <1>1. LeaseInv => TransactionOwnsWindow
    BY DEF LeaseInv
  <1> QED BY <1>1, LeaseInvariant, PTL

-----------------------------------------------------------------------------
(* The refinement.                                                           *)

LEMMA GrantRefines ==
  ASSUME LeaseInv, NEW e \in Executions, AcquireNew(e) \/ TakeOver(e)
  PROVE  Window!Grant
  BY DEF AcquireNew, TakeOver, Grant, NoRow, Window!Grant, Window!Ended

LEMMA CommitRefines ==
  ASSUME LeaseInv, NEW e \in Executions, Commit(e)
  PROVE  Window!Record \/ UNCHANGED Window!vars
  <1> USE LeaseAssumption DEF LeaseInv, Commit, EndTransaction, Visible
  <1>1. CASE pending = NoEffect
    BY <1>1 DEF Window!vars
  <1>2. CASE pending # NoEffect
    <2>1. pending \in [content : Effects, generation : Nat]
      BY <1>2 DEF LeaseTypeOK, Stored
    <2>2. pending = [content |-> pending.content, generation |-> row.generation]
      BY <1>2, <2>1 DEF PendingInv
    <2>3. effect = NoEffect /\ row.status = "running"
      BY <1>2 DEF PendingInv, TransactionOwnsWindow, InTransaction
    <2> QED BY <1>2, <2>1, <2>2, <2>3 DEF Window!Record
  <1> QED BY <1>1, <1>2

LEMMA InsertLateRefines ==
  ASSUME LeaseInv, NEW e \in Executions, InsertLate(e)
  PROVE  Window!Record \/ UNCHANGED Window!vars
  <1> USE LeaseAssumption DEF LeaseInv, InsertLate, HasFence, NewEffect
  <1>1. CASE HasFence(e) /\ effect = NoEffect
    BY <1>1 DEF LeaseTypeOK, Window!Record
  <1>2. CASE ~(HasFence(e) /\ effect = NoEffect)
    BY <1>2 DEF Window!vars
  <1> QED BY <1>1, <1>2

LEMMA FinishRefines ==
  ASSUME LeaseInv, NEW e \in Executions, Finish(e)
  PROVE  Window!Finish
  BY DEF LeaseInv, LeaseTypeOK, Finish, HasFence, EndTransaction, Ended, Window!Finish,
         Window!Ended

LEMMA RenewRefines ==
  ASSUME LeaseInv, NEW e \in Executions, Renew(e)
  PROVE  UNCHANGED Window!vars
  BY DEF LeaseInv, LeaseTypeOK, Renew, Window!vars

LEMMA StepRefines == LeaseInv /\ [LeaseNext]_vars => [Window!Next]_(Window!vars)
  <1> SUFFICES ASSUME LeaseInv, [LeaseNext]_vars PROVE [Window!Next]_(Window!vars)
    OBVIOUS
  <1>1. CASE Tick \/ UNCHANGED vars
    BY <1>1 DEF Tick, vars, Window!vars
  <1>2. ASSUME NEW e \in Executions, ExecutionStep(e) PROVE [Window!Next]_(Window!vars)
    <2>1. CASE AcquireNew(e) \/ TakeOver(e)
      BY <2>1, GrantRefines DEF Window!Next
    <2>2. CASE Commit(e)
      BY <2>2, CommitRefines DEF Window!Next
    <2>3. CASE InsertLate(e)
      BY <2>3, InsertLateRefines DEF Window!Next
    <2>4. CASE Finish(e)
      BY <2>4, FinishRefines DEF Window!Next
    <2>5. CASE Renew(e)
      BY <2>5, RenewRefines
    <2>6. CASE \/ TurnedAway(e) \/ BeginWork(e) \/ BeginFinish(e)
               \/ (\E c \in Effects : Enqueue(e, c)) \/ Insert(e)
      BY <2>6 DEF TurnedAway, BeginWork, BeginFinish, Begin, Enqueue, Insert, Window!vars
    <2>7. CASE RollBack(e) \/ FinishFails(e) \/ Return(e) \/ Die(e)
      BY <2>7 DEF RollBack, FinishFails, EndTransaction, Return, Die, Window!vars
    <2> QED BY <1>2, <2>1, <2>2, <2>3, <2>4, <2>5, <2>6, <2>7 DEF ExecutionStep
  <1> QED BY <1>1, <1>2 DEF LeaseNext

(* Every execution of the lease and the outbox is a fenced window: one       *)
(* generation per holder, one effect, stored by the holder of the moment,    *)
(* nothing after the end.                                                    *)
THEOREM LeaseRefinesWindow == LeaseSpec => ImplementsFencedWindow
  <1>1. LeaseInit => Window!Init
    BY DEF LeaseInit, NoRow, Window!Init
  <1> QED BY <1>1, LeaseInvariant, StepRefines, PTL DEF LeaseSpec, ImplementsFencedWindow, Window!Spec

-----------------------------------------------------------------------------
(* The fence.                                                                *)

(* A generation names one execution: each grant draws the next one, and an   *)
(* execution is granted the window at most once.                             *)
FenceInv ==
  /\ \A e \in Executions : fence[e] <= row.generation /\ (at[e] = "idle" => fence[e] = 0)
  /\ \A e, f \in Executions : fence[e] = fence[f] /\ fence[e] # 0 => e = f
  /\ row.holder # Nobody => fence[row.holder] = row.generation
  /\ row.status # "none" => row.generation > 0
  /\ effect # NoEffect => \E e \in Executions : fence[e] = effect.generation /\ fence[e] # 0

(* Somebody else has been granted the window since execution e was. *)
Superseded(e) == fence[e] # 0 /\ fence[e] < row.generation

LEMMA GrantKeepsFences ==
  ASSUME LeaseInv, FenceInv, NEW e \in Executions, at[e] = "idle", Grant(e)
  PROVE  FenceInv'
  <1> USE LeaseAssumption DEF LeaseInv, LeaseTypeOK, Grant
  <1>1. /\ row'.generation = row.generation + 1 /\ row'.holder = e
        /\ fence'[e] = row.generation + 1 /\ fence[e] = 0
        /\ \A f \in Executions \ {e} : fence'[f] = fence[f] /\ at'[f] = at[f]
        /\ at'[e] = "holding" /\ effect' = effect
    BY DEF FenceInv
  <1>2. \A f \in Executions : fence[f] \in Nat /\ fence[f] <= row.generation /\ row.generation \in Nat
    BY DEF FenceInv
  <1>3. \A f \in Executions : fence'[f] <= row'.generation /\ (at'[f] = "idle" => fence'[f] = 0)
    BY <1>1, <1>2 DEF FenceInv
  <1>4. \A f, g \in Executions : fence'[f] = fence'[g] /\ fence'[f] # 0 => f = g
    BY <1>1, <1>2 DEF FenceInv
  <1>5. effect' # NoEffect => \E f \in Executions : fence'[f] = effect'.generation /\ fence'[f] # 0
    BY <1>1 DEF FenceInv
  <1> QED BY <1>1, <1>3, <1>4, <1>5 DEF FenceInv

(* What a transaction of the holder, or an INSERT it left behind, stores has *)
(* the generation of the holder; everything else leaves fence and outbox.    *)
LEMMA StepKeepsFences == LeaseInv /\ FenceInv /\ [LeaseNext]_vars => FenceInv'
  <1> SUFFICES ASSUME LeaseInv, FenceInv, [LeaseNext]_vars PROVE FenceInv'
    OBVIOUS
  <1> USE DEF LeaseInv, LeaseTypeOK
  <1>a. ASSUME UNCHANGED fence, row'.generation = row.generation, row'.holder = row.holder,
               row'.status # "none" => row.status # "none",
               \A f \in Executions : at'[f] = "idle" => at[f] = "idle",
               effect' # effect => \E f \in Executions :
                                     fence[f] = effect'.generation /\ fence[f] # 0
        PROVE  FenceInv'
    BY <1>a DEF FenceInv
  <1>1. CASE Tick \/ UNCHANGED vars
    BY <1>1, <1>a DEF Tick, vars
  <1>2. ASSUME NEW e \in Executions, ExecutionStep(e) PROVE FenceInv'
    <2>1. CASE AcquireNew(e) \/ TakeOver(e)
      BY <2>1, GrantKeepsFences DEF AcquireNew, TakeOver
    <2>2. CASE Commit(e)
      <3>1. row.generation = fence[e] /\ owner = e
        BY <2>2 DEF Commit, TransactionOwnsWindow, InTransaction
      <3>2. fence[e] # 0
        <4>1. row.generation # 0
          BY <2>2 DEF Commit, TransactionOwnsWindow, InTransaction, FenceInv
        <4> QED BY <3>1, <4>1
      <3>3. effect' # effect => effect'.generation = fence[e]
        BY <2>2, <3>1 DEF Commit, EndTransaction, Visible, PendingInv
      <3> QED BY <2>2, <3>2, <3>3, <1>a DEF Commit, EndTransaction
    <2>3. CASE InsertLate(e)
      <3>1. effect' # effect => effect' = NewEffect(e) /\ HasFence(e)
        BY <2>3 DEF InsertLate
      <3>2. HasFence(e) => fence[e] # 0
        BY DEF HasFence, FenceInv
      <3> QED BY <2>3, <3>1, <3>2, <1>a DEF InsertLate, NewEffect
    <2>4. CASE TurnedAway(e) \/ Renew(e) \/ BeginWork(e) \/ BeginFinish(e)
      BY <2>4, <1>a DEF TurnedAway, Renew, BeginWork, BeginFinish, Begin
    <2>5. CASE (\E c \in Effects : Enqueue(e, c)) \/ Insert(e)
      BY <2>5, <1>a DEF Enqueue, Insert
    <2>6. CASE RollBack(e) \/ FinishFails(e) \/ Return(e) \/ Die(e)
      <3>1. UNCHANGED <<row, fence, effect>>
        BY <2>6 DEF RollBack, FinishFails, EndTransaction, Return, Die
      <3>2. \A f \in Executions : at'[f] = "idle" => at[f] = "idle"
        BY <2>6 DEF RollBack, FinishFails, EndTransaction, Return, Die
      <3> QED BY <3>1, <3>2, <1>a
    <2>7. CASE Finish(e)
      <3>1. UNCHANGED <<fence, effect>> /\ row.status = "running"
        BY <2>7 DEF Finish, EndTransaction, HasFence
      <3>2. row'.generation = row.generation /\ row'.holder = row.holder
        BY <2>7 DEF Finish
      <3>3. \A f \in Executions : at'[f] = "idle" => at[f] = "idle"
        BY <2>7 DEF Finish, EndTransaction
      <3> QED BY <3>1, <3>2, <3>3, <1>a
    <2> QED BY <1>2, <2>1, <2>2, <2>3, <2>4, <2>5, <2>6, <2>7 DEF ExecutionStep
  <1> QED BY <1>1, <1>2 DEF LeaseNext

LEMMA FenceInvariant == LeaseSpec => []FenceInv
  <1>1. LeaseInit => FenceInv
    BY LeaseAssumption DEF LeaseInit, NoRow, FenceInv
  <1> QED BY <1>1, LeaseInvariant, StepKeepsFences, PTL DEF LeaseSpec

(* The generation in an effect tells which execution stored it: no two       *)
(* executions of a window ever have the same fence, whatever expired, died   *)
(* or was taken over between their grants.                                   *)
THEOREM FencesNameTheirHolder ==
  LeaseSpec => [](\A e, f \in Executions : fence[e] = fence[f] /\ fence[e] # 0 => e = f)
  <1>1. FenceInv => \A e, f \in Executions : fence[e] = fence[f] /\ fence[e] # 0 => e = f
    BY DEF FenceInv
  <1> QED BY <1>1, FenceInvariant, PTL

LEMMA SupersededStep ==
  ASSUME LeaseInv, FenceInv, NEW e \in Executions, Superseded(e), ExecutionStep(e)
  PROVE  UNCHANGED <<row, effect>>
  <1> USE DEF LeaseInv, LeaseTypeOK
  <1>1. row.generation # fence[e] /\ at[e] # "idle"
    BY DEF Superseded, FenceInv
  <1>2. at[e] \notin InTransaction /\ ~HasFence(e)
    BY <1>1 DEF TransactionOwnsWindow, HasFence
  <1> QED
    BY <1>1, <1>2
    DEF ExecutionStep, AcquireNew, TakeOver, TurnedAway, Renew, BeginWork, BeginFinish, Begin,
        Enqueue, Insert, Commit, RollBack, InsertLate, Finish, FinishFails, Return, Die,
        InTransaction

(* An execution that has been taken over changes neither the window nor its  *)
(* outbox any more: not by a renewal, a transaction, a late INSERT, a finish *)
(* or its death, however far it was when its lease expired.                  *)
THEOREM StaleHolderIsHarmless ==
  LeaseSpec
    => [][\A e \in Executions :
            Superseded(e) /\ ExecutionStep(e) => UNCHANGED <<row, effect>>]_vars
  <1>1. LeaseInv /\ FenceInv /\ [LeaseNext]_vars
          => [\A e \in Executions :
                Superseded(e) /\ ExecutionStep(e) => UNCHANGED <<row, effect>>]_vars
    BY SupersededStep
  <1> QED BY <1>1, LeaseInvariant, FenceInvariant, PTL DEF LeaseSpec
=============================================================================
