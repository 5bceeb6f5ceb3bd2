---------------------------- MODULE CanonicalIntake ----------------------------
(***************************************************************************)
(* canonicalClaimIntake.ts as canonicalIntakeSubmission.ts runs it: one    *)
(* call persists the claim under its idempotency key and then starts the   *)
(* assessment of it.  Every await is a step, so calls under the same key   *)
(* (double clicks, replays, retries after a lost answer) interleave        *)
(* anywhere; the transaction is one step, the unique index on tenant, user *)
(* and key decides between two of them.  A claim is named after the call   *)
(* whose transaction stored it.                                            *)
(***************************************************************************)
EXTENDS FiniteSets

CONSTANTS Calls,      \* the calls of clients
          Keys,       \* idempotency keys, each with its tenant and user
          Contents,   \* submissions, as hashInput tells them apart
          DbMayFail   \* may an access to the database fail?

VARIABLES request,   \* claim_intake_requests, by its unique key
          stored,    \* the claims there are
          claimState, \* what became of a claim's assessment
          call,      \* what each call is doing, its key, its hash, its claim, and the
                     \* calls that had ended when it came
          fired,     \* the calls that invoked triggerAiAssessment
          notified   \* the calls that stored a notification

canonicalVars == <<request, stored, claimState, call, fired, notified>>

Nothing == "none"
NoRequest == [hash |-> Nothing, claim |-> Nothing, status |-> Nothing]

NewCall == [step |-> "new", key |-> Nothing, hash |-> Nothing, claim |-> Nothing, ended |-> {}]

\* The awaits of a call, and how it may end.
AtWork == {"looking", "inserting", "rereading", "auditing", "reading", "marking", "triggering",
           "running", "recording", "failing", "noting", "notifying"}
Ends == {"started", "already", "recoverable", "conflict", "error", "gone"}

Recorded == {"assessment_starting", "assessment_started", "assessment_start_failed"}

ASSUME IntakeAssumption ==
  /\ Nothing \notin Calls \union Keys \union Contents
  /\ DbMayFail \in BOOLEAN

IntakeInit ==
  /\ request = [k \in Keys |-> NoRequest]
  /\ stored = {}
  /\ claimState = [c \in Calls |-> Nothing]
  /\ call = [c \in Calls |-> NewCall]
  /\ fired = {}
  /\ notified = {}

Goto(c, s) == call' = [call EXCEPT ![c].step = s]

\* The call knows its claim and goes on.
Learn(c, claim, s) == call' = [call EXCEPT ![c].step = s, ![c].claim = claim]

SetStatus(c, s) == request' = [request EXCEPT ![call[c].key].status = s]

\* An error that nothing catches: the call is rejected.
Reject(c) == DbMayFail /\ Goto(c, "error") /\ UNCHANGED <<request, stored, claimState, fired, notified>>

------------------------------------------------------------------------------
\* persistCanonicalClaimIntake.

Submit(c, k, h) ==
  /\ call[c].step = "new"
  /\ call' = [call EXCEPT ![c] = [step |-> "looking", key |-> k, hash |-> h, claim |-> Nothing,
                                   ended |-> {d \in Calls : call[d].step \in Ends}]]
  /\ UNCHANGED <<request, stored, claimState, fired, notified>>

\* The key is looked up before anything is written.
LookUp(c) ==
  LET prior == request[call[c].key] IN
  /\ call[c].step = "looking"
  /\ \/ prior.claim = Nothing /\ Goto(c, "inserting")
     \/ prior.claim # Nothing /\ prior.hash # call[c].hash /\ Goto(c, "conflict")
     \/ prior.claim # Nothing /\ prior.hash = call[c].hash /\ Learn(c, prior.claim, "reading")
  /\ UNCHANGED <<request, stored, claimState, fired, notified>>

\* A faulty ledger without the unique index: the second insert goes through.
PersistAgain(c) ==
  LET k == call[c].key IN
  /\ call[c].step = "inserting"
  /\ request' = [request EXCEPT ![k] = [hash |-> call[c].hash, claim |-> c, status |-> "persisted"]]
  /\ stored' = stored \union {c}
  /\ claimState' = [claimState EXCEPT ![c] = "pending"]
  /\ Learn(c, c, "auditing")
  /\ UNCHANGED <<fired, notified>>

\* The transaction stores request, claim and documents together.  The connection may
\* break after the commit: the call then takes it for a failure.
Persist(c) ==
  LET k == call[c].key IN
  /\ call[c].step = "inserting"
  /\ request[k] = NoRequest
  /\ request' = [request EXCEPT ![k] = [hash |-> call[c].hash, claim |-> c, status |-> "persisted"]]
  /\ stored' = stored \union {c}
  /\ claimState' = [claimState EXCEPT ![c] = "pending"]
  /\ Learn(c, c, "auditing") \/ (DbMayFail /\ Goto(c, "rereading"))
  /\ UNCHANGED <<fired, notified>>

\* It is rolled back: the key is taken meanwhile, or the database failed.
PersistFails(c) ==
  /\ call[c].step = "inserting"
  /\ request[call[c].key] # NoRequest \/ DbMayFail
  /\ Goto(c, "rereading")
  /\ UNCHANGED <<request, stored, claimState, fired, notified>>

\* A faulty catch that answers with whatever claim has the key.
RereadAnyContent(c) ==
  LET race == request[call[c].key] IN
  /\ call[c].step = "rereading"
  /\ \/ race.claim # Nothing /\ Learn(c, race.claim, "reading")
     \/ race.claim = Nothing /\ Goto(c, "error")
  /\ UNCHANGED <<request, stored, claimState, fired, notified>>

\* The catch clause reads the key again, and answers like the lookup or throws.
Reread(c) ==
  LET race == request[call[c].key] IN
  /\ call[c].step = "rereading"
  /\ \/ race.claim # Nothing /\ race.hash = call[c].hash /\ Learn(c, race.claim, "reading")
     \/ (race.claim = Nothing \/ race.hash # call[c].hash) /\ Goto(c, "error")
  /\ UNCHANGED <<request, stored, claimState, fired, notified>>

\* createAuditEntry; emitClaimEvent ignores its errors.
Audit(c) ==
  /\ call[c].step = "auditing"
  /\ Goto(c, "reading")
  /\ UNCHANGED <<request, stored, claimState, fired, notified>>

------------------------------------------------------------------------------
\* startCanonicalIntakeAssessment.

\* A start on record is not repeated.
ReadStatus(c) ==
  LET status == request[call[c].key].status IN
  /\ call[c].step = "reading"
  /\ Goto(c, CASE status = "assessment_start_failed" -> "recoverable"
               [] status \in Recorded \ {"assessment_start_failed"} -> "already"
               [] OTHER -> "marking")
  /\ UNCHANGED <<request, stored, claimState, fired, notified>>

\* A faulty start that goes on without recording it.
MarkNothing(c) ==
  /\ call[c].step = "marking"
  /\ Goto(c, "triggering")
  /\ UNCHANGED <<request, stored, claimState, fired, notified>>

Mark(c) ==
  /\ call[c].step = "marking"
  /\ SetStatus(c, "assessment_starting")
  /\ Goto(c, "triggering")
  /\ UNCHANGED <<stored, claimState, fired, notified>>

FireRun(c) ==
  /\ call[c].step = "triggering"
  /\ fired' = fired \union {c}
  /\ Goto(c, "running")
  /\ UNCHANGED <<request, stored, claimState, notified>>

\* triggerAiAssessment returns or throws, and has assessed the claim, failed it or left
\* it as it was: AssessmentPipeline has how.
RunEnds(c) ==
  /\ call[c].step = "running"
  /\ \E s \in {claimState[call[c].claim], "assessed", "failed"} :
       claimState' = [claimState EXCEPT ![call[c].claim] = s]
  /\ Goto(c, "recording") \/ Goto(c, "failing")
  /\ UNCHANGED <<request, stored, fired, notified>>

\* This update is inside the try: its error is handled like one of the run.
RecordStart(c) ==
  /\ call[c].step = "recording"
  /\ \/ SetStatus(c, "assessment_started") /\ Goto(c, "started")
     \/ DbMayFail /\ UNCHANGED request /\ Goto(c, "failing")
  /\ UNCHANGED <<stored, claimState, fired, notified>>

\* A faulty reset that writes the status of the request to the claim.
ResetClaimToStatus(c) ==
  /\ call[c].step = "failing"
  /\ claimState' = [claimState EXCEPT ![call[c].claim] = "assessment_start_failed"]
  /\ Goto(c, "noting")
  /\ UNCHANGED <<request, stored, fired, notified>>

ResetClaim(c) ==
  /\ call[c].step = "failing"
  /\ claimState' = [claimState EXCEPT ![call[c].claim] = "start_failed"]
  /\ Goto(c, "noting")
  /\ UNCHANGED <<request, stored, fired, notified>>

\* A faulty failure path that leaves the request as it is.
RecordNoFailure(c) ==
  /\ call[c].step = "noting"
  /\ Goto(c, "notifying")
  /\ UNCHANGED <<request, stored, claimState, fired, notified>>

RecordFailure(c) ==
  /\ call[c].step = "noting"
  /\ SetStatus(c, "assessment_start_failed")
  /\ Goto(c, "notifying")
  /\ UNCHANGED <<stored, claimState, fired, notified>>

\* The notification, then an audit entry whose error rejects the call.
Notify(c) ==
  /\ call[c].step = "notifying"
  /\ notified' = notified \union {c}
  /\ Goto(c, "recoverable") \/ (DbMayFail /\ Goto(c, "error"))
  /\ UNCHANGED <<request, stored, claimState, fired>>

\* A database access outside any try, of a call that awaits one.
Throw(c) ==
  /\ call[c].step \in {"looking", "rereading", "auditing", "reading", "marking", "failing",
                       "noting", "notifying"}
  /\ Reject(c)

\* The server restarts; the database keeps what was committed.
Restart ==
  /\ call' = [c \in Calls |-> IF call[c].step \in AtWork
                                THEN [call[c] EXCEPT !.step = "gone"] ELSE call[c]]
  /\ UNCHANGED <<request, stored, claimState, fired, notified>>

------------------------------------------------------------------------------

CallStep(c) ==
  \/ LookUp(c) \/ Persist(c) \/ PersistFails(c) \/ Reread(c) \/ Audit(c)
  \/ ReadStatus(c) \/ Mark(c) \/ FireRun(c) \/ RunEnds(c) \/ RecordStart(c)
  \/ ResetClaim(c) \/ RecordFailure(c) \/ Notify(c) \/ Throw(c)

IntakeNext ==
  \/ \E c \in Calls : CallStep(c) \/ \E k \in Keys, h \in Contents : Submit(c, k, h)
  \/ Restart

IntakeSpec == IntakeInit /\ [][IntakeNext]_canonicalVars

------------------------------------------------------------------------------

\* The types of the ledger, the claims and the calls.
IntakeTypeOK ==
  /\ request \in [Keys -> [hash : Contents \union {Nothing}, claim : Calls \union {Nothing},
                          status : Recorded \union {"persisted", Nothing}]]
  /\ stored \subseteq Calls
  /\ claimState \in [Calls -> {Nothing, "pending", "assessed", "failed", "start_failed"}]
  /\ call \in [Calls -> [step : {"new"} \union AtWork \union Ends, key : Keys \union {Nothing},
                         hash : Contents \union {Nothing}, claim : Calls \union {Nothing},
                         ended : SUBSET Calls]]
  /\ fired \subseteq Calls
  /\ notified \subseteq Calls

\* "Duplicate submission and replay preserve a single canonical request, claim, evidence
\* set": no two claims are stored under one key, whatever overlaps, fails or is lost.
OneClaimPerKey ==
  \A c, d \in stored : call[c].key = call[d].key => c = d

\* A call is answered with the claim of its own key and content: not after a lost
\* race, not after a lost commit, and never with the claim of another submission.
AnswersAgree ==
  \A c \in Calls :
    LET d == call[c].claim IN
    d # Nothing => d \in stored /\ call[d].key = call[c].key /\ call[d].hash = call[c].hash

\* A call that comes when another has ended, answered, rejected or cut off by a
\* restart, never starts an assessment that one has started.
ReplayStartsNothing ==
  \A c, d \in fired : call[c].claim = call[d].claim => d \notin call[c].ended

\* A call that started an assessment undisturbed and was answered leaves request, claim
\* and notifications as it was told, whatever failed on the way and whatever came later.
OutcomeIsRecorded ==
  \A c \in fired :
    (\A d \in Calls \ {c} :
       call[d].key = call[c].key => c \in call[d].ended \/ d \in call[c].ended)
    => /\ call[c].step = "started" => request[call[c].key].status = "assessment_started"
       /\ call[c].step = "recoverable"
            => /\ request[call[c].key].status = "assessment_start_failed"
               /\ claimState[call[c].claim] = "start_failed"
               /\ c \in notified

\* Lookup, transaction, unique index and the second reading bind a key to a claim
\* once and answer accordingly: steps of IdempotentIntake.
Idempotent ==
  INSTANCE IdempotentIntake
    WITH bound <- [k \in Keys |-> [hash |-> request[k].hash, claim |-> request[k].claim]],
         asked <- [c \in Calls |-> [key |-> call[c].key, hash |-> call[c].hash]],
         told <- [c \in Calls |-> call[c].claim]
ImplementsIdempotentIntake == Idempotent!Spec
==============================================================================
