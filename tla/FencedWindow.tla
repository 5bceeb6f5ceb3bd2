---------------------------- MODULE FencedWindow ----------------------------
(***************************************************************************)
(* What the durable schedule of src/server/_core promises of one window of *)
(* one job, as scheduled_job_executions and scheduled_job_effects show it: *)
(* every holder has a generation of its own, one more than the one before; *)
(* at most one effect is ever on record, stored by the holder of its day;  *)
(* and a window that has ended stays as it is.                             *)
(***************************************************************************)
EXTENDS Naturals

CONSTANTS
  Effects,    \* type, subject and reason of an effect, taken together
  NoEffect    \* the window has no row in scheduled_job_effects

VARIABLES status, generation, effect
vars == <<status, generation, effect>>

Ended == {"completed", "failed", "cancelled"}

Init == status = "none" /\ generation = 0 /\ effect = NoEffect

\* Somebody becomes the holder: the first one, or one that takes over.
Grant ==
  /\ status \notin Ended
  /\ status' = "running"
  /\ generation' = generation + 1
  /\ UNCHANGED effect

\* The holder stores the effect of the window.
Record ==
  /\ status = "running" /\ effect = NoEffect
  /\ \E c \in Effects : effect' = [content |-> c, generation |-> generation]
  /\ UNCHANGED <<status, generation>>

\* The holder ends the window.
Finish ==
  /\ status = "running"
  /\ status' \in Ended
  /\ UNCHANGED <<generation, effect>>

Next == Grant \/ Record \/ Finish
Spec == Init /\ [][Next]_vars
=============================================================================
