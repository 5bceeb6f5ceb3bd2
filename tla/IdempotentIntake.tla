--------------------------- MODULE IdempotentIntake ---------------------------
(***************************************************************************)
(* What canonical intake promises the client that sends a submission again *)
(* (an idempotency key, a double click, a replay after a lost answer): the *)
(* key is bound to one claim, once, and every answer under the key names   *)
(* that claim, to calls that sent what it was bound with.  No ledger, no   *)
(* lookup and no transaction here; CanonicalIntake implements this.        *)
(***************************************************************************)
CONSTANTS Calls, Keys, Contents, Nothing

VARIABLES bound,   \* the content and the claim a key is bound to, each Nothing at first
          stored,  \* the claims there are
          asked,   \* the key and the content of a call
          told     \* the claim a call was answered with, or Nothing

intakeVars == <<bound, stored, asked, told>>

Init ==
  /\ bound = [k \in Keys |-> [hash |-> Nothing, claim |-> Nothing]]
  /\ stored = {}
  /\ asked = [c \in Calls |-> [key |-> Nothing, hash |-> Nothing]]
  /\ told = [c \in Calls |-> Nothing]

Ask(c, k, h) ==
  /\ asked[c].key = Nothing
  /\ asked' = [asked EXCEPT ![c] = [key |-> k, hash |-> h]]
  /\ UNCHANGED <<bound, stored, told>>

\* A claim that is stored is bound to its key in the same step; the call that stored
\* it may or may not hear of it.
Bind(c) ==
  LET k == asked[c].key IN
  /\ asked[c].key # Nothing
  /\ bound[k].claim = Nothing
  /\ c \notin stored
  /\ bound' = [bound EXCEPT ![k] = [hash |-> asked[c].hash, claim |-> c]]
  /\ stored' = stored \union {c}
  /\ told' \in {told, [told EXCEPT ![c] = c]}
  /\ UNCHANGED asked

Tell(c) ==
  LET k == asked[c].key IN
  /\ asked[c].key # Nothing
  /\ bound[k].claim # Nothing
  /\ bound[k].hash = asked[c].hash
  /\ told[c] = Nothing
  /\ told' = [told EXCEPT ![c] = bound[k].claim]
  /\ UNCHANGED <<bound, stored, asked>>

Next ==
  \E c \in Calls : Bind(c) \/ Tell(c) \/ \E k \in Keys, h \in Contents : Ask(c, k, h)

Spec == Init /\ [][Next]_intakeVars
==============================================================================
