--------------------------- MODULE ScheduledLease ---------------------------
(***************************************************************************)
(* The lease and the outbox of scheduled jobs                              *)
(* (src/server/_core/scheduled-execution-lease.ts and                      *)
(* scheduled-effect-outbox.ts) for one window of one job: every statement  *)
(* of the two files names its window, so windows do not meet.              *)
(*                                                                         *)
(* Overlapping executions contend for the window's row.  A transaction     *)
(* locks the row (FOR UPDATE) until it commits or rolls back; every other  *)
(* statement on the row waits for the lock.  The lease is compared with    *)
(* the clock of the database alone, and may expire at any moment, also     *)
(* while its holder has a transaction open.                                *)
(***************************************************************************)
EXTENDS Naturals

CONSTANTS
  Executions,   \* calls of acquireScheduledLease; each draws an id (randomUUID)
  Nobody,       \* no execution
  Effects,      \* contents an effect may have
  NoEffect,     \* nothing in the outbox
  Lease,        \* leaseDurationMs
  MaxNow        \* bound on the clock

ASSUME LeaseAssumption ==
  /\ Nobody \notin Executions
  /\ NoEffect \notin Effects
  /\ NoEffect \notin [content : Effects, generation : Nat]
  /\ Lease \in Nat \ {0}
  /\ MaxNow \in Nat

VARIABLES
  now,      \* UTC_TIMESTAMP(3) of the database
  row,      \* the window's row in scheduled_job_executions
  effect,   \* the window's row in scheduled_job_effects
  owner,    \* the execution whose transaction has locked the row
  pending,  \* the effect that transaction has inserted and not yet committed
  at,       \* where each execution stands
  fence,    \* the generation an execution was granted, 0 if none
  told,     \* until when an execution was told it has the lease (history)
  wanted    \* the effect of an enqueue that has read and not yet inserted

vars == <<now, row, effect, owner, pending, at, fence, told, wanted>>

Ended == {"completed", "failed", "cancelled"}

\* NoRow stands for the absence of the row.
NoRow == [status |-> "none", holder |-> Nobody, generation |-> 0, expires |-> 0]

LeaseInit ==
  /\ now = 0 /\ row = NoRow /\ effect = NoEffect
  /\ owner = Nobody /\ pending = NoEffect
  /\ at = [e \in Executions |-> "idle"]
  /\ fence = [e \in Executions |-> 0]
  /\ told = [e \in Executions |-> 0]
  /\ wanted = [e \in Executions |-> NoEffect]

Current == row.expires > now

\* The condition every fenced statement puts on the row.
HasFence(e) ==
  /\ row.status = "running"
  /\ row.holder = e /\ row.generation = fence[e]
  /\ Current

Unlocked == owner = Nobody

-----------------------------------------------------------------------------
(* acquireScheduledLease is one transaction that locks the row first.      *)

Grant(e) ==
  /\ row' = [status |-> "running", holder |-> e,
             generation |-> row.generation + 1, expires |-> now + Lease]
  /\ at' = [at EXCEPT ![e] = "holding"]
  /\ fence' = [fence EXCEPT ![e] = row.generation + 1]
  /\ told' = [told EXCEPT ![e] = now + Lease]
  /\ UNCHANGED <<now, effect, owner, pending, wanted>>

AcquireNew(e) == at[e] = "idle" /\ Unlocked /\ row = NoRow /\ Grant(e)

\* A faulty takeover that reads the row without locking it.
TakeOverUnlocked(e) ==
  at[e] = "idle" /\ row.status = "running" /\ ~Current /\ Grant(e)

TakeOver(e) ==
  at[e] = "idle" /\ Unlocked /\ row.status = "running" /\ ~Current /\ Grant(e)

\* Busy, or terminal.
TurnedAway(e) ==
  /\ at[e] = "idle" /\ Unlocked
  /\ row.status \in Ended \/ (row.status = "running" /\ Current)
  /\ at' = [at EXCEPT ![e] = "gone"]
  /\ UNCHANGED <<now, row, effect, owner, pending, fence, told, wanted>>

\* A faulty renewal that does not ask who holds the lease.
RenewAnyHolder(e) ==
  /\ at[e] = "holding" /\ Unlocked /\ row.status = "running" /\ Current
  /\ row' = [row EXCEPT !.expires = now + Lease]
  /\ told' \in {told, [told EXCEPT ![e] = now + Lease]}
  /\ UNCHANGED <<now, effect, owner, pending, at, fence, wanted>>

\* renewScheduledLease is one conditional UPDATE.  Its answer may be lost.
Renew(e) ==
  /\ at[e] = "holding" /\ Unlocked /\ HasFence(e)
  /\ row' = [row EXCEPT !.expires = now + Lease]
  /\ told' \in {told, [told EXCEPT ![e] = now + Lease]}
  /\ UNCHANGED <<now, effect, owner, pending, at, fence, wanted>>

-----------------------------------------------------------------------------
(* withScheduledLeaseTransaction: lock, verify, let the work run, commit   *)
(* or roll back.  A fence that does not hold throws and changes nothing.   *)

Begin(e, step) ==
  /\ at[e] = "holding" /\ Unlocked /\ HasFence(e)
  /\ owner' = e
  /\ at' = [at EXCEPT ![e] = step]
  /\ UNCHANGED <<now, row, effect, pending, fence, told, wanted>>

BeginWork(e) == wanted[e] = NoEffect /\ Begin(e, "working")

\* The transaction of e is over; s is what it leaves in the outbox.
EndTransaction(e, s) ==
  /\ owner' = Nobody /\ pending' = NoEffect
  /\ effect' = s
  /\ at' = [at EXCEPT ![e] = "holding"]
  /\ UNCHANGED <<now, fence, told, wanted>>

Visible == IF pending = NoEffect THEN effect ELSE pending

\* enqueueScheduledEffect up to its INSERT.  An effect that is there already
\* answers "not inserted" or is a conflict, a stale fence throws; all three
\* leave everything as it is.
Enqueue(e, c) ==
  /\ at[e] = "working" /\ HasFence(e) /\ Visible = NoEffect
  /\ at' = [at EXCEPT ![e] = "inserting"]
  /\ wanted' = [wanted EXCEPT ![e] = c]
  /\ UNCHANGED <<now, row, effect, owner, pending, fence, told>>

NewEffect(e) == [content |-> wanted[e], generation |-> fence[e]]

\* INSERT ... SELECT repeats the test of the fence.  What it throws, the work
\* may catch (then it goes on) or not (then RollBack follows).
Insert(e) ==
  /\ at[e] = "inserting"
  /\ pending' = IF HasFence(e) THEN NewEffect(e) ELSE pending
  /\ at' = [at EXCEPT ![e] = "working"]
  /\ wanted' = [wanted EXCEPT ![e] = NoEffect]
  /\ UNCHANGED <<now, row, effect, owner, fence, told>>

\* The work returned.  The lease is not looked at again.  Work that did not
\* await its enqueue leaves the INSERT behind.
Commit(e) ==
  /\ at[e] \in {"working", "inserting"}
  /\ EndTransaction(e, Visible)
  /\ UNCHANGED row

\* The work threw.
RollBack(e) ==
  /\ at[e] \in {"working", "inserting"}
  /\ EndTransaction(e, effect)
  /\ UNCHANGED row

\* A faulty plain INSERT, which trusts the fence its transaction has seen.
InsertUnfenced(e) ==
  /\ at[e] \notin {"working", "inserting"} /\ wanted[e] # NoEffect /\ Unlocked
  /\ effect' = IF effect = NoEffect THEN NewEffect(e) ELSE effect
  /\ wanted' = [wanted EXCEPT ![e] = NoEffect]
  /\ UNCHANGED <<now, row, owner, pending, at, fence, told>>

\* A faulty INSERT that reaches the database twice, the second time empty.
InsertAgain(e) ==
  /\ at[e] \notin {"working", "inserting"} /\ Unlocked
  /\ effect' = IF HasFence(e) /\ effect = NoEffect THEN NewEffect(e) ELSE effect
  /\ wanted' = [wanted EXCEPT ![e] = NoEffect]
  /\ UNCHANGED <<now, row, owner, pending, at, fence, told>>

\* An INSERT that was left behind reaches the database after its transaction.
\* The unique key of the window refuses a second effect.
InsertLate(e) ==
  /\ at[e] \notin {"working", "inserting"} /\ wanted[e] # NoEffect /\ Unlocked
  /\ effect' = IF HasFence(e) /\ effect = NoEffect THEN NewEffect(e) ELSE effect
  /\ wanted' = [wanted EXCEPT ![e] = NoEffect]
  /\ UNCHANGED <<now, row, owner, pending, at, fence, told>>

-----------------------------------------------------------------------------
(* finishScheduledLease is such a transaction whose work is one UPDATE.    *)

BeginFinish(e) == Begin(e, "finishing")

Finish(e) ==
  /\ at[e] = "finishing" /\ HasFence(e)
  /\ \E s \in Ended : row' = [row EXCEPT !.status = s]
  /\ EndTransaction(e, effect)

\* The lease expired after the check, so that the UPDATE finds no row and false
\* is returned; or the database failed.
FinishFails(e) ==
  /\ at[e] = "finishing"
  /\ EndTransaction(e, effect)
  /\ UNCHANGED row

-----------------------------------------------------------------------------
\* The runner returns or throws; an INSERT it left behind is still on its way.
Return(e) ==
  /\ at[e] = "holding"
  /\ at' = [at EXCEPT ![e] = "gone"]
  /\ UNCHANGED <<now, row, effect, owner, pending, fence, told, wanted>>

\* Its process dies, and the database rolls back what it has open.
Die(e) ==
  /\ at[e] # "idle" /\ (at[e] # "gone" \/ wanted[e] # NoEffect)
  /\ at' = [at EXCEPT ![e] = "gone"]
  /\ wanted' = [wanted EXCEPT ![e] = NoEffect]
  /\ owner' = IF owner = e THEN Nobody ELSE owner
  /\ pending' = IF owner = e THEN NoEffect ELSE pending
  /\ UNCHANGED <<now, row, effect, fence, told>>

Tick ==
  /\ now < MaxNow
  /\ now' = now + 1
  /\ UNCHANGED <<row, effect, owner, pending, at, fence, told, wanted>>

ExecutionStep(e) ==
  \/ AcquireNew(e) \/ TakeOver(e) \/ TurnedAway(e) \/ Renew(e)
  \/ BeginWork(e) \/ (\E c \in Effects : Enqueue(e, c)) \/ Insert(e)
  \/ Commit(e) \/ RollBack(e) \/ InsertLate(e)
  \/ BeginFinish(e) \/ Finish(e) \/ FinishFails(e) \/ Return(e) \/ Die(e)

LeaseNext == Tick \/ \E e \in Executions : ExecutionStep(e)
LeaseSpec == LeaseInit /\ [][LeaseNext]_vars

-----------------------------------------------------------------------------
Steps == {"idle", "holding", "working", "inserting", "finishing", "gone"}
InTransaction == {"working", "inserting", "finishing"}
Stored == [content : Effects, generation : Nat] \cup {NoEffect}

(* Types of the variables. *)
LeaseTypeOK ==
  /\ now \in Nat
  /\ row \in [status : {"none", "running"} \cup Ended,
              holder : Executions \cup {Nobody},
              generation : Nat, expires : Nat]
  /\ effect \in Stored /\ pending \in Stored
  /\ owner \in Executions \cup {Nobody}
  /\ at \in [Executions -> Steps]
  /\ fence \in [Executions -> Nat] /\ told \in [Executions -> Nat]
  /\ wanted \in [Executions -> Effects \cup {NoEffect}]

(* Until the moment an execution was told it has the lease, at its grant or  *)
(* by a renewal, the window is its own: nobody has taken over, although      *)
(* holders race, renew late, die and come back with an old fence.            *)
PromiseKept ==
  \A e \in Executions :
    told[e] > now => row.holder = e /\ row.generation = fence[e]

(* Whoever has a fenced transaction open is the holder of the running        *)
(* window, also when its lease has expired meanwhile: withScheduledLease-    *)
(* Transaction does not look at the clock again before it commits.           *)
TransactionOwnsWindow ==
  \A e \in Executions :
    at[e] \in InTransaction =>
      /\ owner = e
      /\ row.status = "running" /\ row.holder = e /\ row.generation = fence[e]

(* What the tables show is a fenced window: no generation is given twice, an *)
(* effect is stored once and by the holder of the moment, whatever is left   *)
(* behind by earlier holders, and nothing happens to a window after its end. *)
Window == INSTANCE FencedWindow
  WITH status <- row.status, generation <- row.generation, effect <- effect
ImplementsFencedWindow == Window!Spec
=============================================================================
