-------------------------- MODULE PipelineAdmission --------------------------
(***************************************************************************)
(* What the pipeline semaphore of server/db.ts promises its callers: at    *)
(* most Limit of them inside, the others admitted in the order in which    *)
(* they came, and nobody kept waiting while there is room.  There is no    *)
(* counter here and no closure; PipelineSlots implements this.             *)
(***************************************************************************)
EXTENDS Naturals, Sequences, FiniteSets

CONSTANTS Runs, Limit

VARIABLES inside,  \* the runs admitted and not yet gone
          line     \* the runs that wait, first come first

admissionVars == <<inside, line>>

Init == inside = {} /\ line = <<>>

WalkIn(r) ==
  /\ r \notin inside
  /\ Cardinality(inside) < Limit
  /\ line = <<>>
  /\ inside' = inside \union {r}
  /\ UNCHANGED line

QueueUp(r) ==
  /\ r \notin inside
  /\ \A i \in 1..Len(line) : line[i] # r
  /\ Cardinality(inside) = Limit
  /\ line' = Append(line, r)
  /\ UNCHANGED inside

LeaveAlone(r) ==
  /\ r \in inside
  /\ line = <<>>
  /\ inside' = inside \ {r}
  /\ UNCHANGED line

HandOver(r) ==
  /\ r \in inside
  /\ line # <<>>
  /\ inside' = (inside \ {r}) \union {Head(line)}
  /\ line' = Tail(line)

Forget == inside' = {} /\ line' = <<>>

Next == Forget \/ \E r \in Runs : WalkIn(r) \/ QueueUp(r) \/ LeaveAlone(r) \/ HandOver(r)

Spec == Init /\ [][Next]_admissionVars
==============================================================================
