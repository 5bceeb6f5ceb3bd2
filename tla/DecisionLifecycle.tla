------------------------- MODULE DecisionLifecycle -------------------------
(***************************************************************************)
(* The decision on one claim: decision-lifecycle.ts, decision-             *)
(* governance.ts and the endpoints of routers/ai-assessments-core.ts that  *)
(* use them.  Snapshots of the decision are appended under growing         *)
(* versions; the lifecycle row of the claim goes DRAFT, REVIEWED,          *)
(* FINALISED, LOCKED; the governance log is to record who asked and what   *)
(* happened.  Every read and every write is an await of its own, there is  *)
(* no transaction, and no write has a condition on what was read before    *)
(* it.                                                                     *)
(***************************************************************************)
EXTENDS Naturals, Sequences

CONSTANTS
  Requests,     \* identifiers of requests that are being served
  NoRequest,    \* an identifier that is free
  NoRow,        \* the claim has no lifecycle row yet
  MaxSnapshots  \* bound: no snapshot is saved once there are so many

States == {"DRAFT", "REVIEWED", "FINALISED", "LOCKED"}

\* saveSnapshot, getLifecycle, and the three mutations that decide.
Kinds == {"save", "look", "review", "finalise", "lock"}
Deciding == {"review", "finalise", "lock"}
Target == [k \in Deciding |-> IF k = "review" THEN "REVIEWED"
                              ELSE IF k = "finalise" THEN "FINALISED" ELSE "LOCKED"]

Steps == {"version", "insert", "conditions", "marked", "govern", "latest",
          "read", "create", "update", "audit", "mark"}

Row == [state : States, final : BOOLEAN, locked : BOOLEAN, snapshot : Nat]
RequestRecord == [kind : Kinds, step : Steps, state : States, snapshot : Nat, version : Nat]

ASSUME DecisionAssumption ==
  /\ NoRequest \notin RequestRecord
  /\ NoRow \notin Row
  /\ MaxSnapshots \in Nat

VARIABLES
  snapshots,   \* decision_snapshots of the claim in order of id: version, marked final
  row,         \* claim_decision_lifecycle of the claim
  governed,    \* governance_audit_log: the actions that were let through
  transitions, \* governance_audit_log: the transitions that are recorded
  request,     \* the requests that are being served
  moved,       \* the transitions that were made (history)
  lost,        \* whether a record is missing for an error or a restart (history)
  overlapped   \* whether two requests to decide ever overlapped (history)

vars == <<snapshots, row, governed, transitions, request, moved, lost, overlapped>>
tables == <<snapshots, row, governed, transitions>>
history == <<moved, lost, overlapped>>

DecisionInit ==
  /\ snapshots = <<>> /\ row = NoRow
  /\ governed = {} /\ transitions = {}
  /\ request = [q \in Requests |-> NoRequest]
  /\ moved = {} /\ lost = FALSE /\ overlapped = FALSE

-----------------------------------------------------------------------------

\* A faulty table with which a decision may be finalised again.
MayRefinalise(from, to) ==
  <<from, to>> \in {<<"DRAFT", "REVIEWED">>, <<"DRAFT", "FINALISED">>,
                    <<"REVIEWED", "FINALISED">>, <<"FINALISED", "LOCKED">>,
                    <<"FINALISED", "FINALISED">>}

CanTransition(from, to) ==
  <<from, to>> \in {<<"DRAFT", "REVIEWED">>, <<"DRAFT", "FINALISED">>,
                    <<"REVIEWED", "FINALISED">>, <<"FINALISED", "LOCKED">>}

Open(q) == request[q] # NoRequest
Serving(q, step) == Open(q) /\ request[q].step = step
Goto(q, step) == request' = [request EXCEPT ![q].step = step]
Done(q) == request' = [request EXCEPT ![q] = NoRequest]

\* The snapshots of the highest version: saves that overlap share one.
Newest == {s \in DOMAIN snapshots : \A t \in DOMAIN snapshots :
                                      snapshots[t].version <= snapshots[s].version}

FirstStep(kind) ==
  CASE kind = "save" -> "version"
    [] kind = "look" -> "read"
    [] kind = "lock" -> "conditions"
    [] kind \in {"review", "finalise"} -> "govern"

Begin(q, kind) ==
  /\ ~Open(q)
  /\ request' = [request EXCEPT ![q] = [kind |-> kind, step |-> FirstStep(kind),
                                        state |-> "DRAFT", snapshot |-> 0, version |-> 0]]
  /\ overlapped' = (overlapped \/ (kind \in Deciding
                                     /\ \E p \in Requests : Open(p) /\ request[p].kind \in Deciding))
  /\ UNCHANGED <<tables, moved, lost>>

\* saveDecisionSnapshot reads the highest version, and inserts the next.
ReadVersion(q) ==
  /\ Serving(q, "version")
  /\ \E v \in IF snapshots = <<>> THEN {0} ELSE {snapshots[s].version : s \in Newest} :
       request' = [request EXCEPT ![q].step = "insert", ![q].version = 1 + v]
  /\ UNCHANGED <<tables, history>>

InsertSnapshot(q) ==
  /\ Serving(q, "insert")
  /\ Len(snapshots) < MaxSnapshots
  /\ snapshots' = Append(snapshots, [version |-> request[q].version, final |-> FALSE])
  /\ request' = [request EXCEPT ![q].step = "read", ![q].version = 0]
  /\ UNCHANGED <<row, governed, transitions, history>>

\* The newest snapshot, without which there is nothing to finalise.
ReadLatest(q) ==
  /\ Serving(q, "latest")
  /\ IF snapshots = <<>>
     THEN Done(q)
     ELSE \E s \in Newest :
            request' = [request EXCEPT ![q].step = "read", ![q].snapshot = s]
  /\ UNCHANGED <<tables, history>>

\* A faulty validateLockConditions that trusts the lifecycle row.
CheckRowOnly(q) ==
  /\ Serving(q, "conditions")
  /\ IF row # NoRow /\ row.state = "FINALISED" /\ row.snapshot # 0
     THEN Goto(q, "govern")
     ELSE Done(q)
  /\ UNCHANGED <<tables, history>>

\* validateLockConditions: the row is finalised and names a snapshot ...
CheckRow(q) ==
  /\ Serving(q, "conditions")
  /\ IF row # NoRow /\ row.state = "FINALISED" /\ row.snapshot # 0
     THEN request' = [request EXCEPT ![q].step = "marked", ![q].snapshot = row.snapshot]
     ELSE Done(q)
  /\ UNCHANGED <<tables, history>>

\* ... that exists and is marked.  The entry about a blocked action is left out.
CheckMark(q) ==
  /\ Serving(q, "marked")
  /\ IF request[q].snapshot \in DOMAIN snapshots /\ snapshots[request[q].snapshot].final
     THEN request' = [request EXCEPT ![q].step = "govern", ![q].snapshot = 0]
     ELSE Done(q)
  /\ UNCHANGED <<tables, history>>

\* enforceGovernance lets the action through; its entry may fail to be written.
Govern(q) ==
  /\ Serving(q, "govern")
  /\ \/ governed' = governed \cup {request[q].kind} /\ UNCHANGED lost
     \/ lost' = TRUE /\ UNCHANGED governed
  /\ Goto(q, IF request[q].kind = "finalise" THEN "latest" ELSE "read")
  /\ UNCHANGED <<snapshots, row, transitions, moved, overlapped>>

\* What a request does that knows the state of the lifecycle.
Proceed(q, state) ==
  IF request[q].kind \in Deciding /\ CanTransition(state, Target[request[q].kind])
  THEN request' = [request EXCEPT ![q].step = "update", ![q].state = state]
  ELSE Done(q)

\* getOrCreateLifecycle: the row, if there is one ...
ReadRow(q) ==
  /\ Serving(q, "read")
  /\ IF row = NoRow THEN Goto(q, "create") ELSE Proceed(q, row.state)
  /\ UNCHANGED <<tables, history>>

\* ... and else a new one, which the unique index refuses if there is one by now.
CreateRow(q) ==
  /\ Serving(q, "create")
  /\ IF row = NoRow
     THEN /\ row' = [state |-> "DRAFT", final |-> FALSE, locked |-> FALSE, snapshot |-> 0]
          /\ Proceed(q, "DRAFT")
     ELSE Done(q) /\ UNCHANGED row
  /\ UNCHANGED <<snapshots, governed, transitions, history>>

\* A faulty write of the action in place of the state.
WrittenAsAsked(q) == [row EXCEPT !.state = request[q].kind]

Written(q) ==
  LET to == Target[request[q].kind]
  IN [state |-> to,
      final |-> row.final \/ to = "FINALISED",
      locked |-> row.locked \/ to = "LOCKED",
      snapshot |-> IF to = "FINALISED" THEN request[q].snapshot ELSE row.snapshot]

\* transitionLifecycle writes the row, whatever it is by now ...
UpdateRow(q) ==
  /\ Serving(q, "update")
  /\ row' = Written(q)
  /\ moved' = moved \cup {<<request[q].state, Target[request[q].kind]>>}
  /\ Goto(q, "audit")
  /\ UNCHANGED <<snapshots, governed, transitions, lost, overlapped>>

\* A faulty log that leaves out the transition to LOCKED.
AuditUnlessLocked(q) ==
  /\ Serving(q, "audit")
  /\ transitions' = transitions \cup
       ({<<request[q].state, Target[request[q].kind]>>} \ {<<"FINALISED", "LOCKED">>})
  /\ IF request[q].kind = "finalise" THEN Goto(q, "mark") ELSE Done(q)
  /\ UNCHANGED <<snapshots, row, governed, history>>

\* ... and records the transition; an error of that is swallowed.
AuditTransition(q) ==
  /\ Serving(q, "audit")
  /\ \/ /\ transitions' = transitions \cup {<<request[q].state, Target[request[q].kind]>>}
        /\ UNCHANGED lost
     \/ lost' = TRUE /\ UNCHANGED transitions
  /\ IF request[q].kind = "finalise" THEN Goto(q, "mark") ELSE Done(q)
  /\ UNCHANGED <<snapshots, row, governed, moved, overlapped>>

\* A faulty mark that looks for the newest snapshot again.
MarkNewest(q) ==
  /\ Serving(q, "mark")
  /\ \E s \in Newest : snapshots' = [snapshots EXCEPT ![s].final = TRUE]
  /\ Done(q)
  /\ UNCHANGED <<row, governed, transitions, history>>

\* A finalisation that forgets the mark.
MarkNothing(q) ==
  /\ Serving(q, "mark")
  /\ Done(q)
  /\ UNCHANGED <<tables, history>>

\* markAuthoritativeSnapshot
Mark(q) ==
  /\ Serving(q, "mark")
  /\ snapshots' = [snapshots EXCEPT ![request[q].snapshot].final = TRUE]
  /\ Done(q)
  /\ UNCHANGED <<row, governed, transitions, history>>

\* A statement fails, or the server restarts.
Fail(q) ==
  /\ Open(q)
  /\ Done(q)
  /\ lost' = (lost \/ request[q].step \in {"audit", "mark"})
  /\ UNCHANGED <<tables, moved, overlapped>>

Serve(q) ==
  \/ ReadVersion(q) \/ InsertSnapshot(q) \/ ReadLatest(q) \/ CheckRow(q) \/ CheckMark(q)
  \/ Govern(q) \/ ReadRow(q) \/ CreateRow(q) \/ UpdateRow(q)
  \/ AuditTransition(q) \/ Mark(q)

DecisionNext ==
  \E q \in Requests : (\E kind \in Kinds : Begin(q, kind)) \/ Serve(q) \/ Fail(q)

DecisionSpec == DecisionInit /\ [][DecisionNext]_vars

-----------------------------------------------------------------------------
(* Types of the variables. *)
DecisionTypeOK ==
  /\ snapshots \in Seq([version : Nat, final : BOOLEAN])
  /\ row \in Row \cup {NoRow}
  /\ governed \subseteq Deciding
  /\ transitions \subseteq States \X States /\ moved \subseteq States \X States
  /\ request \in [Requests -> RequestRecord \cup {NoRequest}]
  /\ lost \in BOOLEAN /\ overlapped \in BOOLEAN

(* Whatever overlaps and breaks off, nothing is locked without a legal       *)
(* record: the row names a snapshot, and a final one exists.                 *)
LockedHasRecord ==
  row # NoRow /\ row.locked
    => /\ row.final /\ row.snapshot \in DOMAIN snapshots
       /\ \E s \in DOMAIN snapshots : snapshots[s].final

(* As long as requests to decide did not overlap, there is one legal record  *)
(* at most, it is the one the row names, and what was locked is locked,      *)
(* whatever is saved or broken off meanwhile.                                *)
OneLegalRecord ==
  ~overlapped =>
    /\ \A s \in DOMAIN snapshots : snapshots[s].final => row # NoRow /\ s = row.snapshot
    /\ row # NoRow /\ row.locked
         => row.state = "LOCKED" /\ snapshots[row.snapshot].final

(* A decision that was finalised, and of which no record is missing, can be  *)
(* locked once the request that finalised it is over.                        *)
FinalisedCanBeLocked ==
  ~overlapped /\ ~lost /\ row # NoRow /\ row.state = "FINALISED"
  /\ (\A q \in Requests : Open(q) => request[q].kind \notin Deciding)
    => snapshots[row.snapshot].final

(* Every transition that was made was let through by the governance and is   *)
(* in its log, or about to be, unless an error or a restart came in between. *)
RecordsKept ==
  \A m \in moved :
    \/ lost
    \/ /\ \E k \in governed : Target[k] = m[2]
       /\ \/ m \in transitions
          \/ \E q \in Requests : Serving(q, "audit") /\ request[q].state = m[1]
                                                     /\ Target[request[q].kind] = m[2]

(* As long as requests to decide did not overlap, what was decided stands:   *)
(* a final decision keeps its snapshot and is only ever locked.              *)
DecisionStands ==
  [][~overlapped' /\ row # NoRow /\ row.final
       => /\ row'.final /\ row'.snapshot = row.snapshot
          /\ row'.state = row.state \/ (row.state = "FINALISED" /\ row'.state = "LOCKED")]_vars

(* "LOCKED: [], // Terminal state" (src/server/decision-lifecycle.ts:64): a  *)
(* decision that was locked is locked.                                       *)
LockIsTerminal == row # NoRow /\ row.locked => row.state = "LOCKED"
=============================================================================
