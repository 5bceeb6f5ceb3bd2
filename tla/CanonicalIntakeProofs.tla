------------------------ MODULE CanonicalIntakeProofs ------------------------
(***************************************************************************)
(* Proofs about canonical intake (IntakeSpec), for every set of calls,     *)
(* keys and contents: a key is bound to one claim, calls are answered with *)
(* the claim of their own submission, a call that comes after another has  *)
(* ended starts nothing that one has started, and the ledger implements    *)
(* IdempotentIntake.                                                       *)
(***************************************************************************)
EXTENDS CanonicalIntake, TLAPS

\* Before the transaction, before the run, and with the claim at hand.
Unstored == {"looking", "inserting"}
Knowing == {"auditing", "reading", "marking", "triggering", "running", "recording", "failing",
            "noting", "notifying"}
BeforeRun == {"new", "looking", "inserting", "rereading", "auditing", "reading", "marking",
              "triggering"}

\* What the ledger holds under a key is a stored claim and what its call sent.
LedgerOK ==
  \A k \in Keys :
    LET d == request[k].claim IN
    /\ d = Nothing => request[k] = NoRequest
    /\ d # Nothing => d \in stored /\ call[d].key = k /\ call[d].hash = request[k].hash

\* What holds of a call wherever it stands: of the claim it stored, of the one it
\* knows, of the run it fired, and of the calls that had ended before it came.
CallOK(c) ==
  LET b == call[c] IN
  /\ b.step = "new" => b.key = Nothing /\ b.hash = Nothing /\ b.claim = Nothing /\ b.ended = {}
  /\ b.step # "new" => b.key \in Keys /\ b.hash \in Contents
  /\ b.step \in {"new"} \union Unstored => c \notin stored
  /\ b.step \in Unstored \union {"rereading"} => b.claim = Nothing
  /\ b.step \in Knowing => b.claim # Nothing
  /\ b.claim # Nothing => request[b.key].claim = b.claim /\ request[b.key].hash = b.hash
  /\ c \in stored => request[b.key].claim = c
  /\ b.step \in BeforeRun => c \notin fired
  /\ b.step = "triggering" \/ c \in fired
       => b.claim # Nothing /\ request[b.key].status \in Recorded

\* The calls that had ended are over, and have left no run to start twice.
ReplayOK(c) ==
  \A d \in call[c].ended :
    /\ call[d].step \in Ends
    /\ d \in fired /\ call[d].key = call[c].key
         => c \notin fired /\ call[c].step \notin {"marking", "triggering"}

IntakeInv ==
  /\ IntakeTypeOK
  /\ LedgerOK
  /\ \A c \in Calls : CallOK(c) /\ ReplayOK(c)

LEMMA IntakeInvInit == IntakeInit => IntakeInv
<1> SUFFICES ASSUME IntakeInit PROVE IntakeInv
  OBVIOUS
<1>1. IntakeTypeOK
  BY DEF IntakeInit, IntakeTypeOK, NoRequest, NewCall
<1>2. LedgerOK
  BY DEF IntakeInit, LedgerOK, NoRequest
<1>3. ASSUME NEW c \in Calls PROVE CallOK(c) /\ ReplayOK(c)
  BY <1>3 DEF IntakeInit, CallOK, ReplayOK, NewCall, Unstored, Knowing, BeforeRun
<1> QED
  BY <1>1, <1>2, <1>3 DEF IntakeInv

(* A call that is at work moves to another step, perhaps learns its claim from the
   ledger, perhaps puts its start on record and fires its run. *)
LEMMA MoveKeeps ==
  ASSUME IntakeInv, NEW c \in Calls, call[c].step \in AtWork,
         NEW s \in AtWork \union Ends, NEW x \in Calls \union {Nothing}, Learn(c, x, s),
         \/ x = call[c].claim
         \/ /\ x # Nothing /\ call[c].claim = Nothing
            /\ request[call[c].key].claim = x /\ request[call[c].key].hash = call[c].hash,
         \/ UNCHANGED request
         \/ call[c].claim # Nothing /\ \E t \in Recorded : SetStatus(c, t),
         \/ UNCHANGED fired
         \/ fired' = fired \union {c} /\ call[c].step = "triggering",
         UNCHANGED stored,
         claimState' \in [Calls -> {Nothing, "pending", "assessed", "failed", "start_failed"}],
         notified' \subseteq Calls,
         s \in Unstored => call[c].step \in Unstored,
         s \in Unstored \union {"rereading"} => x = Nothing,
         s \in Knowing => x # Nothing,
         s \in BeforeRun => call[c].step \in BeforeRun /\ UNCHANGED fired,
         s = "marking" => call[c].step = "reading" /\ request[call[c].key].status \notin Recorded,
         s = "triggering" => call[c].step = "marking" /\ request'[call[c].key].status \in Recorded
  PROVE  IntakeInv'
<1> DEFINE k == call[c].key
<1>a. /\ IntakeTypeOK /\ LedgerOK /\ CallOK(c) /\ ReplayOK(c)
      /\ \A d \in Calls : CallOK(d) /\ ReplayOK(d)
  BY DEF IntakeInv
<1>b. call[c].step # "new" /\ k \in Keys /\ call[c].hash \in Contents
  BY <1>a DEF CallOK, AtWork
<1>1. /\ call'[c].step = s /\ call'[c].claim = x
      /\ call'[c].key = k /\ call'[c].hash = call[c].hash /\ call'[c].ended = call[c].ended
      /\ \A d \in Calls \ {c} : call'[d] = call[d]
      /\ \A d \in Calls : call'[d].key = call[d].key /\ call'[d].hash = call[d].hash
                          /\ call'[d].ended = call[d].ended
  BY <1>a DEF Learn, IntakeTypeOK
<1>2. /\ request' \in [Keys -> [hash : Contents \union {Nothing}, claim : Calls \union {Nothing},
                                status : Recorded \union {"persisted", Nothing}]]
      /\ \A l \in Keys : request'[l].claim = request[l].claim /\ request'[l].hash = request[l].hash
      /\ \A l \in Keys : request'[l] = request[l] \/ (request'[l].status \in Recorded /\ request[l].claim # Nothing)
  <2>1. CASE UNCHANGED request
    BY <1>a, <2>1 DEF IntakeTypeOK
  <2>2. ASSUME call[c].claim # Nothing, NEW t \in Recorded, SetStatus(c, t)
        PROVE  <1>2!:
    <3>1. request[k].claim # Nothing
      BY <1>a, <2>2 DEF CallOK
    <3>2. request' = [request EXCEPT ![k] = [request[k] EXCEPT !.status = t]]
      BY <2>2 DEF SetStatus
    <3>3. DOMAIN request = Keys
      BY <1>a DEF IntakeTypeOK
    <3>4. \A l \in Keys : request[l] \in [hash : Contents \union {Nothing}, claim : Calls \union {Nothing},
                                          status : Recorded \union {"persisted", Nothing}]
      BY <1>a DEF IntakeTypeOK
    <3> QED
      BY <1>b, <3>1, <3>2, <3>3, <3>4
  <2> QED
    BY <2>1, <2>2
<1>3. IntakeTypeOK'
  <2> DEFINE Call == [step : {"new"} \union AtWork \union Ends, key : Keys \union {Nothing},
                      hash : Contents \union {Nothing}, claim : Calls \union {Nothing},
                      ended : SUBSET Calls]
  <2>1. call \in [Calls -> Call]
    BY <1>a DEF IntakeTypeOK
  <2>2. call' = [call EXCEPT ![c] = [[call[c] EXCEPT !.step = s] EXCEPT !.claim = x]]
    BY <2>1 DEF Learn
  <2>3. [[call[c] EXCEPT !.step = s] EXCEPT !.claim = x] \in Call
    <3>1. call[c] \in Call
      BY <2>1
    <3>2. [call[c] EXCEPT !.step = s] \in Call
      BY <3>1
    <3> QED
      BY <3>2
  <2>4. call' \in [Calls -> Call]
    <3> HIDE DEF Call
    <3> QED
      BY <2>1, <2>2, <2>3
  <2> QED
    BY <1>a, <1>2, <2>4 DEF IntakeTypeOK
<1>4. LedgerOK'
  BY <1>a, <1>1, <1>2 DEF LedgerOK, IntakeTypeOK
<1>c. ASSUME NEW l \in Keys, request[l].status \in Recorded
      PROVE  request'[l].status \in Recorded
  BY <1>2, <1>c
<1>5. ASSUME NEW d \in Calls, d # c
      PROVE  CallOK(d)'
  <2>1. call'[d] = call[d] /\ CallOK(d) /\ (d \in fired' => d \in fired) /\ stored' = stored
    BY <1>a, <1>1, <1>5
  <2>2. CASE call[d].step = "new"
    <3>1. d \notin fired /\ d \notin stored /\ call[d].claim = Nothing
      BY <2>1, <2>2 DEF CallOK, BeforeRun
    <3> QED
      BY <2>1, <2>2, <3>1 DEF CallOK, Unstored, Knowing
  <2>3. CASE call[d].step # "new"
    <3> DEFINE m == call[d].key
    <3>1. m \in Keys
      BY <2>1, <2>3 DEF CallOK
    <3>2. request'[m].claim = request[m].claim /\ request'[m].hash = request[m].hash
      BY <3>1, <1>2
    <3>3. request[m].status \in Recorded => request'[m].status \in Recorded
      BY <3>1, <1>c
    <3> QED
      BY <2>1, <2>3, <3>2, <3>3 DEF CallOK
  <2> QED
    BY <2>2, <2>3
<1>6. CallOK(c)'
  <2>1. c \in fired' => x # Nothing /\ request'[k].status \in Recorded
    <3>1. c \in fired' => c \in fired \/ call[c].step = "triggering"
      OBVIOUS
    <3>2. c \in fired' => call[c].claim # Nothing /\ request[k].status \in Recorded
      BY <3>1, <1>a DEF CallOK
    <3> QED
      BY <3>2, <1>b, <1>c
  <2>2. x # Nothing => request'[k].claim = x /\ request'[k].hash = call[c].hash
    <3>1. x # Nothing => request[k].claim = x /\ request[k].hash = call[c].hash
      BY <1>a DEF CallOK
    <3> QED
      BY <3>1, <1>b, <1>2
  <2>3. s # "new"
    BY DEF AtWork, Ends
  <2>4. c \in stored' => request'[k].claim = c
    BY <1>a, <1>b, <1>2 DEF CallOK
  <2>5. s \in Unstored => c \notin stored'
    BY <1>a DEF CallOK
  <2>6. s \in BeforeRun => c \notin fired'
    BY <1>a DEF CallOK
  <2>7. s = "triggering" => x # Nothing /\ request'[k].status \in Recorded
    BY DEF Knowing
  <2> QED
    BY <1>b, <1>1, <2>1, <2>2, <2>3, <2>4, <2>5, <2>6, <2>7 DEF CallOK
<1>7. ASSUME NEW d \in Calls
      PROVE  ReplayOK(d)'
  <2>1. ASSUME NEW e \in call[d].ended
        PROVE  e \in Calls /\ e # c /\ call'[e] = call[e] /\ call[e].step \in Ends /\ (e \in fired' => e \in fired)
    <3>1. e \in Calls /\ call[e].step \in Ends
      BY <1>a DEF IntakeTypeOK, ReplayOK
    <3> QED
      BY <3>1, <1>1 DEF AtWork, Ends
  <2>2. ASSUME NEW e \in call[d].ended, e \in fired, call[e].key = call[d].key
        PROVE  d \notin fired' /\ call'[d].step \notin {"marking", "triggering"}
    <3>1. d \notin fired /\ call[d].step \notin {"marking", "triggering"}
      BY <1>a, <2>2 DEF ReplayOK
    <3>2. request[call[e].key].status \in Recorded
      BY <1>a, <2>1, <2>2 DEF CallOK
    <3> QED
      BY <1>1, <2>2, <3>1, <3>2
  <2> QED
    BY <1>1, <2>1, <2>2 DEF ReplayOK
<1> QED
  BY <1>3, <1>4, <1>5, <1>6, <1>7 DEF IntakeInv

\* To go on is to learn nothing new.
LEMMA GotoLearns ==
  ASSUME IntakeTypeOK, NEW c \in Calls, NEW s, Goto(c, s)
  PROVE  Learn(c, call[c].claim, s)
<1>1. call[c] = [step |-> call[c].step, key |-> call[c].key, hash |-> call[c].hash,
                 claim |-> call[c].claim, ended |-> call[c].ended]
  BY DEF IntakeTypeOK
<1>2. DOMAIN call = Calls
  BY DEF IntakeTypeOK
<1>3. [call[c] EXCEPT !.step = s] = [[call[c] EXCEPT !.step = s] EXCEPT !.claim = call[c].claim]
  BY <1>1
<1>4. call' = [call EXCEPT ![c] = [call[c] EXCEPT !.step = s]]
  BY DEF Goto
<1> QED
  BY <1>3, <1>4 DEF Learn

LEMMA SetStatusSets ==
  ASSUME IntakeTypeOK, NEW c \in Calls, call[c].key \in Keys, NEW t, SetStatus(c, t)
  PROVE  request'[call[c].key].status = t
BY DEF SetStatus, IntakeTypeOK

(* A step that leaves the ledger, the claims and the runs as they are. *)
LEMMA PlainMove ==
  ASSUME IntakeInv, NEW c \in Calls, call[c].step \in AtWork, NEW s \in AtWork \union Ends,
         Goto(c, s), UNCHANGED <<request, stored, claimState, fired, notified>>,
         s \in Unstored => call[c].step \in Unstored,
         s \in Unstored \union {"rereading"} => call[c].claim = Nothing,
         s \in Knowing => call[c].claim # Nothing,
         s \in BeforeRun => call[c].step \in BeforeRun,
         s = "marking" => call[c].step = "reading" /\ request[call[c].key].status \notin Recorded,
         s # "triggering"
  PROVE  IntakeInv'
<1>1. IntakeTypeOK
  BY DEF IntakeInv
<1>2. Learn(c, call[c].claim, s) /\ call[c].claim \in Calls \union {Nothing}
  BY <1>1, GotoLearns DEF IntakeTypeOK
<1>3. /\ claimState' \in [Calls -> {Nothing, "pending", "assessed", "failed", "start_failed"}]
      /\ notified' \subseteq Calls
  BY <1>1 DEF IntakeTypeOK
<1> QED
  BY <1>2, <1>3, MoveKeeps

(* A step of a call that has begun and is not its transaction. *)
LEMMA CallStepKeeps ==
  ASSUME IntakeInv, NEW c \in Calls, CallStep(c), ~Persist(c)
  PROVE  IntakeInv'
<1>a. IntakeTypeOK /\ CallOK(c)
  BY DEF IntakeInv
<1>b. /\ call[c].step # "new" => call[c].key \in Keys
      /\ claimState \in [Calls -> {Nothing, "pending", "assessed", "failed", "start_failed"}]
      /\ notified \subseteq Calls
      /\ call[c].claim \in Calls \union {Nothing}
  BY <1>a DEF CallOK, IntakeTypeOK
<1>1. CASE LookUp(c)
  <2>1. CASE Goto(c, "inserting") \/ Goto(c, "conflict")
    BY <1>a, <1>1, <2>1, PlainMove DEF LookUp, CallOK, AtWork, Ends, Unstored, Knowing, BeforeRun
  <2>2. CASE ~(Goto(c, "inserting") \/ Goto(c, "conflict"))
    <3> DEFINE x == request[call[c].key].claim
    <3>1. x # Nothing /\ request[call[c].key].hash = call[c].hash /\ Learn(c, x, "reading")
      BY <1>1, <2>2 DEF LookUp
    <3>2. x \in Calls \union {Nothing} /\ call[c].step = "looking" /\ call[c].claim = Nothing
      BY <1>a, <1>b, <1>1 DEF LookUp, CallOK, IntakeTypeOK, Unstored
    <3> QED
      BY <1>b, <1>1, <3>1, <3>2, MoveKeeps DEF LookUp, AtWork, Ends, Unstored, Knowing, BeforeRun
  <2> QED
    BY <2>1, <2>2
<1>2. CASE PersistFails(c)
  BY <1>a, <1>2, PlainMove DEF PersistFails, CallOK, AtWork, Ends, Unstored, Knowing, BeforeRun
<1>3. CASE Reread(c)
  <2>1. CASE Goto(c, "error")
    BY <1>a, <1>3, <2>1, PlainMove DEF Reread, CallOK, AtWork, Ends, Unstored, Knowing, BeforeRun
  <2>2. CASE ~Goto(c, "error")
    <3> DEFINE x == request[call[c].key].claim
    <3>1. x # Nothing /\ request[call[c].key].hash = call[c].hash /\ Learn(c, x, "reading")
      BY <1>3, <2>2 DEF Reread
    <3>2. x \in Calls \union {Nothing} /\ call[c].step = "rereading" /\ call[c].claim = Nothing
      BY <1>a, <1>b, <1>3 DEF Reread, CallOK, IntakeTypeOK
    <3> QED
      BY <1>b, <1>3, <3>1, <3>2, MoveKeeps DEF Reread, AtWork, Ends, Unstored, Knowing, BeforeRun
  <2> QED
    BY <2>1, <2>2
<1>4. CASE Audit(c)
  BY <1>a, <1>4, PlainMove DEF Audit, CallOK, AtWork, Ends, Unstored, Knowing, BeforeRun
<1>5. CASE ReadStatus(c)
  <2>1. CASE request[call[c].key].status \in Recorded
    <3>1. Goto(c, "recoverable") \/ Goto(c, "already")
      BY <1>5, <2>1 DEF ReadStatus, Recorded
    <3> QED
      BY <1>a, <1>5, <3>1, PlainMove DEF ReadStatus, CallOK, AtWork, Ends, Unstored, Knowing, BeforeRun
  <2>2. CASE request[call[c].key].status \notin Recorded
    <3>1. Goto(c, "marking")
      BY <1>5, <2>2 DEF ReadStatus, Recorded
    <3> QED
      BY <1>a, <1>5, <2>2, <3>1, PlainMove
         DEF ReadStatus, CallOK, AtWork, Ends, Unstored, Knowing, BeforeRun
  <2> QED
    BY <2>1, <2>2
<1>6. CASE Mark(c)
  <2>1. call[c].step = "marking" /\ call[c].claim # Nothing
    BY <1>a, <1>6 DEF Mark, CallOK, Knowing
  <2>2. Learn(c, call[c].claim, "triggering")
    BY <1>a, <1>6, GotoLearns DEF Mark
  <2>3. request'[call[c].key].status \in Recorded
    BY <1>a, <1>b, <1>6, <2>1, SetStatusSets DEF Mark, Recorded
  <2> QED
    BY <1>b, <1>6, <2>1, <2>2, <2>3, MoveKeeps
       DEF Mark, AtWork, Ends, Unstored, Knowing, BeforeRun, Recorded
<1>7. CASE FireRun(c)
  <2>1. call[c].step = "triggering" /\ call[c].claim # Nothing
    BY <1>a, <1>7 DEF FireRun, CallOK, Knowing
  <2>2. Learn(c, call[c].claim, "running")
    BY <1>a, <1>7, GotoLearns DEF FireRun
  <2> QED
    BY <1>b, <1>7, <2>1, <2>2, MoveKeeps DEF FireRun, AtWork, Ends, Unstored, Knowing, BeforeRun
<1>8. CASE RunEnds(c) \/ ResetClaim(c)
  <2>1. PICK s \in {"recording", "failing", "noting"} : Goto(c, s)
    BY <1>8 DEF RunEnds, ResetClaim
  <2>2. Learn(c, call[c].claim, s)
    BY <1>a, <2>1, GotoLearns
  <2>3. call[c].step \in {"running", "failing"} /\ call[c].claim # Nothing
    BY <1>a, <1>8 DEF RunEnds, ResetClaim, CallOK, Knowing
  <2>4. claimState' \in [Calls -> {Nothing, "pending", "assessed", "failed", "start_failed"}]
    <3>1. call[c].claim \in Calls
      BY <1>b, <2>3
    <3> QED
      BY <1>b, <1>8, <3>1 DEF RunEnds, ResetClaim
  <2>5. UNCHANGED <<request, stored, fired, notified>>
    BY <1>8 DEF RunEnds, ResetClaim
  <2> QED
    BY <1>b, <2>2, <2>3, <2>4, <2>5, MoveKeeps DEF AtWork, Ends, Unstored, Knowing, BeforeRun
<1>9. CASE RecordStart(c) \/ RecordFailure(c)
  <2>1. PICK s \in {"started", "failing", "notifying"} : Goto(c, s)
    BY <1>9 DEF RecordStart, RecordFailure
  <2>2. Learn(c, call[c].claim, s)
    BY <1>a, <2>1, GotoLearns
  <2>3. call[c].step \in {"recording", "noting"} /\ call[c].claim # Nothing
    BY <1>a, <1>9 DEF RecordStart, RecordFailure, CallOK, Knowing
  <2>4. UNCHANGED request \/ \E t \in Recorded : SetStatus(c, t)
    BY <1>9 DEF RecordStart, RecordFailure, Recorded
  <2>5. UNCHANGED <<stored, claimState, fired, notified>>
    BY <1>9 DEF RecordStart, RecordFailure
  <2> QED
    BY <1>b, <2>2, <2>3, <2>4, <2>5, MoveKeeps DEF AtWork, Ends, Unstored, Knowing, BeforeRun
<1>10. CASE Notify(c)
  <2>1. PICK s \in {"recoverable", "error"} : Goto(c, s)
    BY <1>10 DEF Notify
  <2>2. Learn(c, call[c].claim, s)
    BY <1>a, <2>1, GotoLearns
  <2>3. call[c].step = "notifying" /\ notified' \subseteq Calls
    BY <1>b, <1>10 DEF Notify
  <2>4. UNCHANGED <<request, stored, claimState, fired>>
    BY <1>10 DEF Notify
  <2> QED
    BY <1>b, <2>2, <2>3, <2>4, MoveKeeps DEF AtWork, Ends, Unstored, Knowing, BeforeRun
<1>11. CASE Throw(c)
  BY <1>a, <1>11, PlainMove DEF Throw, Reject, CallOK, AtWork, Ends, Unstored, Knowing, BeforeRun
<1> QED
  BY <1>1, <1>2, <1>3, <1>4, <1>5, <1>6, <1>7, <1>8, <1>9, <1>10, <1>11 DEF CallStep

LEMMA SubmitKeeps ==
  ASSUME IntakeInv, NEW c \in Calls, NEW k \in Keys, NEW h \in Contents, Submit(c, k, h)
  PROVE  IntakeInv'
<1> DEFINE ended == {d \in Calls : call[d].step \in Ends}
<1>a. /\ IntakeTypeOK /\ LedgerOK /\ CallOK(c)
      /\ \A d \in Calls : CallOK(d) /\ ReplayOK(d)
  BY DEF IntakeInv
<1>1. /\ call' = [call EXCEPT ![c] = [step |-> "looking", key |-> k, hash |-> h, claim |-> Nothing,
                                      ended |-> ended]]
      /\ UNCHANGED <<request, stored, claimState, fired, notified>> /\ call[c].step = "new"
  BY DEF Submit
<1>2. /\ call'[c] = [step |-> "looking", key |-> k, hash |-> h, claim |-> Nothing, ended |-> ended]
      /\ \A d \in Calls \ {c} : call'[d] = call[d]
  BY <1>1, <1>a DEF IntakeTypeOK
<1>3. c \notin stored /\ c \notin fired
  BY <1>1, <1>a DEF CallOK, BeforeRun
<1>4. IntakeTypeOK'
  BY <1>1, <1>a DEF IntakeTypeOK, AtWork
<1>5. LedgerOK'
  BY <1>1, <1>2, <1>3, <1>a DEF LedgerOK, IntakeTypeOK
<1>6. ASSUME NEW d \in Calls, d # c
      PROVE  CallOK(d)'
  BY <1>1, <1>2, <1>6, <1>a DEF CallOK
<1>7. CallOK(c)'
  BY <1>1, <1>2, <1>3 DEF CallOK, Unstored, Knowing
<1>8. ASSUME NEW d \in Calls
      PROVE  ReplayOK(d)'
  <2>1. ASSUME NEW e \in Calls, call[e].step \in Ends
        PROVE  call'[e] = call[e]
    BY <1>1, <1>2, <2>1 DEF Ends
  <2>2. CASE d = c
    BY <1>1, <1>2, <1>3, <2>1, <2>2 DEF ReplayOK
  <2>3. CASE d # c
    <3>1. \A e \in call[d].ended : e \in Calls /\ call[e].step \in Ends
      BY <1>a DEF ReplayOK, IntakeTypeOK
    <3> QED
      BY <1>1, <1>2, <1>a, <2>1, <2>3, <3>1 DEF ReplayOK
  <2> QED
    BY <2>2, <2>3
<1> QED
  BY <1>4, <1>5, <1>6, <1>7, <1>8 DEF IntakeInv

(* The transaction finds no claim under the key, so no call knows one or has stored
   one, and none of the key has put a start on record. *)
LEMMA PersistKeeps ==
  ASSUME IntakeInv, NEW c \in Calls, Persist(c)
  PROVE  IntakeInv'
<1> DEFINE k == call[c].key
<1>a. /\ IntakeTypeOK /\ LedgerOK /\ CallOK(c)
      /\ \A d \in Calls : CallOK(d) /\ ReplayOK(d)
  BY DEF IntakeInv
<1>b. /\ call[c].step = "inserting" /\ k \in Keys /\ call[c].hash \in Contents
      /\ call[c].claim = Nothing /\ c \notin fired /\ c \notin stored
  BY <1>a DEF Persist, CallOK, Unstored, BeforeRun
<1>c. Nothing \notin Calls
  BY IntakeAssumption
<1>1. /\ request' = [request EXCEPT ![k] = [hash |-> call[c].hash, claim |-> c, status |-> "persisted"]]
      /\ stored' = stored \union {c}
      /\ claimState' = [claimState EXCEPT ![c] = "pending"]
      /\ UNCHANGED <<fired, notified>>
      /\ request[k] = NoRequest
  BY DEF Persist
<1>2. PICK s \in {"auditing", "rereading"}, x \in {c, Nothing} :
        /\ Learn(c, x, s)
        /\ s = "auditing" <=> x = c
        /\ s = "rereading" <=> x = Nothing
  BY <1>a, <1>b, <1>c, GotoLearns DEF Persist
<1>3. /\ call'[c].step = s /\ call'[c].claim = x
      /\ call'[c].key = k /\ call'[c].hash = call[c].hash /\ call'[c].ended = call[c].ended
      /\ \A d \in Calls \ {c} : call'[d] = call[d]
      /\ \A d \in Calls : call'[d].key = call[d].key /\ call'[d].hash = call[d].hash
                          /\ call'[d].ended = call[d].ended
  BY <1>a, <1>2 DEF Learn, IntakeTypeOK
<1>4. /\ request'[k] = [hash |-> call[c].hash, claim |-> c, status |-> "persisted"]
      /\ \A l \in Keys \ {k} : request'[l] = request[l]
  BY <1>a, <1>b, <1>1 DEF IntakeTypeOK
<1>5. IntakeTypeOK'
  <2> DEFINE Call == [step : {"new"} \union AtWork \union Ends, key : Keys \union {Nothing},
                      hash : Contents \union {Nothing}, claim : Calls \union {Nothing},
                      ended : SUBSET Calls]
  <2>1. call \in [Calls -> Call]
    BY <1>a DEF IntakeTypeOK
  <2>2. call' = [call EXCEPT ![c] = [[call[c] EXCEPT !.step = s] EXCEPT !.claim = x]]
    BY <1>2 DEF Learn
  <2>3. [[call[c] EXCEPT !.step = s] EXCEPT !.claim = x] \in Call
    <3>1. call[c] \in Call /\ s \in AtWork
      BY <2>1, <1>2 DEF AtWork
    <3>2. [call[c] EXCEPT !.step = s] \in Call
      BY <3>1
    <3> QED
      BY <3>2
  <2>4. call' \in [Calls -> Call]
    <3> HIDE DEF Call
    <3> QED
      BY <2>1, <2>2, <2>3
  <2>5. request' \in [Keys -> [hash : Contents \union {Nothing}, claim : Calls \union {Nothing},
                               status : Recorded \union {"persisted", Nothing}]]
    BY <1>a, <1>b, <1>1 DEF IntakeTypeOK
  <2>6. claimState' \in [Calls -> {Nothing, "pending", "assessed", "failed", "start_failed"}]
    BY <1>a, <1>1 DEF IntakeTypeOK
  <2> QED
    BY <1>a, <1>1, <2>4, <2>5, <2>6 DEF IntakeTypeOK
<1>6. LedgerOK'
  <2> SUFFICES ASSUME NEW l \in Keys
               PROVE  /\ request'[l].claim = Nothing => request'[l] = NoRequest
                      /\ request'[l].claim # Nothing
                           => /\ request'[l].claim \in stored'
                              /\ call'[request'[l].claim].key = l
                              /\ call'[request'[l].claim].hash = request'[l].hash
    BY DEF LedgerOK
  <2>1. CASE l = k
    <3>1. request'[l].claim = c /\ c # Nothing /\ c \in stored' /\ request'[l].hash = call[c].hash
      BY <1>c, <1>1, <1>4, <2>1
    <3> QED
      BY <1>3, <2>1, <3>1
  <2>2. CASE l # k
    <3>1. request'[l] = request[l]
      BY <1>4, <2>2
    <3>2. request[l].claim # Nothing => request[l].claim \in Calls /\ request[l].claim \in stored
      BY <1>a DEF LedgerOK, IntakeTypeOK
    <3> QED
      BY <1>a, <1>1, <1>3, <3>1, <3>2 DEF LedgerOK
  <2> QED
    BY <2>1, <2>2
<1>7. ASSUME NEW d \in Calls, d # c
      PROVE  CallOK(d)'
  <2>1. call'[d] = call[d] /\ CallOK(d) /\ (d \in fired' => d \in fired) /\ (d \in stored' => d \in stored)
    BY <1>a, <1>1, <1>3, <1>7
  <2>2. CASE call[d].step = "new"
    <3>1. d \notin fired /\ d \notin stored /\ call[d].claim = Nothing
      BY <2>1, <2>2 DEF CallOK, BeforeRun
    <3> QED
      BY <2>1, <2>2, <3>1 DEF CallOK, Unstored, Knowing
  <2>3. CASE call[d].step # "new" /\ call[d].key = k
    <3>1. d \notin fired /\ d \notin stored /\ call[d].claim = Nothing /\ call[d].step # "triggering"
      BY <1>c, <1>1, <2>1, <2>3 DEF CallOK, NoRequest
    <3> QED
      BY <2>1, <3>1 DEF CallOK
  <2>4. CASE call[d].step # "new" /\ call[d].key # k
    <3>1. request'[call[d].key] = request[call[d].key]
      BY <1>4, <2>1, <2>4 DEF CallOK
    <3> QED
      BY <2>1, <2>4, <3>1 DEF CallOK
  <2> QED
    BY <2>2, <2>3, <2>4
<1>8. CallOK(c)'
  BY <1>b, <1>c, <1>1, <1>2, <1>3, <1>4 DEF CallOK, Unstored, Knowing
<1>9. ASSUME NEW d \in Calls
      PROVE  ReplayOK(d)'
  <2>1. ASSUME NEW e \in call[d].ended
        PROVE  e \in Calls /\ call'[e] = call[e] /\ call[e].step \in Ends
    <3>1. e \in Calls /\ call[e].step \in Ends
      BY <1>a DEF IntakeTypeOK, ReplayOK
    <3> QED
      BY <1>b, <1>3, <3>1 DEF Ends
  <2>2. d # c => call'[d] = call[d]
    BY <1>3
  <2> QED
    BY <1>a, <1>1, <1>2, <1>3, <2>1, <2>2 DEF ReplayOK
<1> QED
  BY <1>5, <1>6, <1>7, <1>8, <1>9 DEF IntakeInv

LEMMA RestartKeeps ==
  ASSUME IntakeInv, Restart
  PROVE  IntakeInv'
<1>a. /\ IntakeTypeOK /\ LedgerOK
      /\ \A d \in Calls : CallOK(d) /\ ReplayOK(d)
  BY DEF IntakeInv
<1>1. ASSUME NEW c \in Calls
      PROVE  /\ call[c].step \notin AtWork => call'[c] = call[c]
             /\ call[c].step \in AtWork => call'[c].step = "gone"
             /\ call'[c].key = call[c].key /\ call'[c].hash = call[c].hash
             /\ call'[c].claim = call[c].claim /\ call'[c].ended = call[c].ended
  BY <1>a DEF Restart, IntakeTypeOK
<1>2. UNCHANGED <<request, stored, claimState, fired, notified>>
  BY DEF Restart
<1>3. IntakeTypeOK'
  <2> DEFINE Call == [step : {"new"} \union AtWork \union Ends, key : Keys \union {Nothing},
                      hash : Contents \union {Nothing}, claim : Calls \union {Nothing},
                      ended : SUBSET Calls]
  <2>1. call \in [Calls -> Call]
    BY <1>a DEF IntakeTypeOK
  <2>2. \A c \in Calls : [call[c] EXCEPT !.step = "gone"] \in Call
    BY <2>1 DEF Ends
  <2>3. call' \in [Calls -> Call]
    <3> HIDE DEF Call
    <3> QED
      BY <2>1, <2>2 DEF Restart
  <2> QED
    BY <1>a, <1>2, <2>3 DEF IntakeTypeOK
<1>4. LedgerOK'
  BY <1>a, <1>1, <1>2 DEF LedgerOK, IntakeTypeOK
<1>5. ASSUME NEW d \in Calls
      PROVE  CallOK(d)'
  <2>1. CASE call'[d] = call[d]
    BY <1>a, <1>2, <2>1 DEF CallOK
  <2>2. CASE call'[d].step = "gone" /\ call[d].step \in AtWork
    BY <1>a, <1>1, <1>2, <2>2 DEF CallOK, AtWork, Unstored, Knowing, BeforeRun
  <2> QED
    BY <1>1, <2>1, <2>2
<1>6. ASSUME NEW d \in Calls
      PROVE  ReplayOK(d)'
  <2>1. ASSUME NEW e \in call[d].ended
        PROVE  e \in Calls /\ call'[e] = call[e] /\ call[e].step \in Ends
    <3>1. e \in Calls /\ call[e].step \in Ends
      BY <1>a DEF IntakeTypeOK, ReplayOK
    <3> QED
      BY <1>1, <3>1 DEF Ends, AtWork
  <2> QED
    BY <1>a, <1>1, <1>2, <2>1 DEF ReplayOK
<1> QED
  BY <1>3, <1>4, <1>5, <1>6 DEF IntakeInv

LEMMA IntakeInvStep == IntakeInv /\ [IntakeNext]_canonicalVars => IntakeInv'
<1> SUFFICES ASSUME IntakeInv, [IntakeNext]_canonicalVars PROVE IntakeInv'
  OBVIOUS
<1>1. ASSUME NEW c \in Calls, CallStep(c) PROVE IntakeInv'
  BY <1>1, CallStepKeeps, PersistKeeps
<1>2. ASSUME NEW c \in Calls, NEW k \in Keys, NEW h \in Contents, Submit(c, k, h) PROVE IntakeInv'
  BY <1>2, SubmitKeeps
<1>3. CASE Restart
  BY <1>3, RestartKeeps
<1>4. CASE UNCHANGED canonicalVars
  BY <1>4 DEF canonicalVars, IntakeInv, IntakeTypeOK, LedgerOK, CallOK, ReplayOK
<1> QED
  BY <1>1, <1>2, <1>3, <1>4 DEF IntakeNext

\* IntakeInv is inductive.
THEOREM IntakeInvariant == IntakeSpec => []IntakeInv
BY IntakeInvInit, IntakeInvStep, PTL DEF IntakeSpec

------------------------------------------------------------------------------

\* The ledger, the claims and the calls keep their types.
THEOREM IntakeTypes == IntakeSpec => []IntakeTypeOK
<1>1. IntakeInv => IntakeTypeOK
  BY DEF IntakeInv
<1> QED
  BY <1>1, IntakeInvariant, PTL

\* persistCanonicalClaimIntake never stores two claims under one key, however many calls
\* overlap: the entry of the key names the claim, and a call that stored one is named there.
THEOREM OneClaimPerKeyHolds == IntakeSpec => []OneClaimPerKey
<1>1. IntakeInv => OneClaimPerKey
  BY DEF IntakeInv, IntakeTypeOK, CallOK, OneClaimPerKey
<1> QED
  BY <1>1, IntakeInvariant, PTL

\* Every call is answered with the claim of its own key and its own content: the entry
\* that a call was answered from never changes its claim or its hash.
THEOREM AnswersAgreeHolds == IntakeSpec => []AnswersAgree
<1>1. IntakeInv => AnswersAgree
  <2> SUFFICES ASSUME IntakeInv, NEW c \in Calls, call[c].claim # Nothing
               PROVE  LET d == call[c].claim IN
                      d \in stored /\ call[d].key = call[c].key /\ call[d].hash = call[c].hash
    BY DEF AnswersAgree
  <2>1. /\ call[c].key \in Keys
        /\ request[call[c].key].claim = call[c].claim /\ request[call[c].key].hash = call[c].hash
    BY DEF IntakeInv, CallOK
  <2> QED
    BY <2>1 DEF IntakeInv, LedgerOK
<1> QED
  BY <1>1, IntakeInvariant, PTL

\* A call that comes after another of the same claim has ended never starts what that one
\* has started: the start is on record before triggerAiAssessment is invoked, and no
\* later write takes it off the record.
THEOREM ReplayStartsNothingHolds == IntakeSpec => []ReplayStartsNothing
<1>1. IntakeInv => ReplayStartsNothing
  <2> SUFFICES ASSUME IntakeInv, NEW c \in fired, NEW d \in fired, call[c].claim = call[d].claim,
                      d \in call[c].ended
               PROVE  FALSE
    BY DEF ReplayStartsNothing
  <2>1. c \in Calls /\ d \in Calls /\ CallOK(c) /\ CallOK(d) /\ ReplayOK(c) /\ LedgerOK
    BY DEF IntakeInv, IntakeTypeOK
  <2>2. call[c].claim # Nothing /\ call[c].key \in Keys /\ call[d].key \in Keys
    BY <2>1 DEF CallOK, BeforeRun
  <2>3. request[call[c].key].claim = call[c].claim /\ request[call[d].key].claim = call[c].claim
    BY <2>1, <2>2 DEF CallOK
  <2>4. call[c].key = call[d].key
    BY <2>1, <2>2, <2>3 DEF LedgerOK
  <2> QED
    BY <2>1, <2>4 DEF ReplayOK
<1> QED
  BY <1>1, IntakeInvariant, PTL

------------------------------------------------------------------------------

\* Every other call of the key came when c had ended, or had ended when c came.
Undisturbed(c) ==
  \A d \in Calls \ {c} :
    call[d].key = call[c].key => c \in call[d].ended \/ d \in call[c].ended

\* A call past its trigger has fired a run.
RanOK(c) ==
  call[c].step \in {"running", "recording", "failing", "noting", "notifying", "started"}
    => c \in fired

\* What a call has written of the outcome of its run, as far as it has come.
OutcomeOK(c) ==
  c \in fired /\ Undisturbed(c) =>
    LET b == call[c] IN
    /\ b.step = "started" => request[b.key].status = "assessment_started"
    /\ b.step \in {"noting", "notifying", "recoverable"} => claimState[b.claim] = "start_failed"
    /\ b.step \in {"notifying", "recoverable"} => request[b.key].status = "assessment_start_failed"
    /\ b.step = "recoverable" => c \in notified

OutcomeInv == \A c \in Calls : RanOK(c) /\ OutcomeOK(c)

(* What a call keeps when another one moves, and the shape of every move. *)
LEMMA StepFrame ==
  ASSUME IntakeInv, NEW d \in Calls, CallStep(d)
  PROVE  /\ call[d].step \in AtWork
         /\ \A e \in Calls \ {d} : call'[e] = call[e]
         /\ \A e \in Calls : call'[e].key = call[e].key /\ call'[e].ended = call[e].ended
         /\ fired \subseteq fired' /\ fired' \subseteq fired \union {d} /\ notified \subseteq notified'
<1>1. call \in [Calls -> [step : {"new"} \union AtWork \union Ends, key : Keys \union {Nothing},
                          hash : Contents \union {Nothing}, claim : Calls \union {Nothing},
                          ended : SUBSET Calls]]
  BY DEF IntakeInv, IntakeTypeOK
<1>2. call[d].step \in AtWork
  BY DEF CallStep, LookUp, Persist, PersistFails, Reread, Audit, ReadStatus, Mark, FireRun, RunEnds,
         RecordStart, ResetClaim, RecordFailure, Notify, Throw, AtWork
<1>3. \E s, x : call' = [call EXCEPT ![d].step = s] \/ call' = [call EXCEPT ![d].step = s, ![d].claim = x]
  BY DEF CallStep, LookUp, Persist, PersistFails, Reread, Audit, ReadStatus, Mark, FireRun, RunEnds,
         RecordStart, ResetClaim, RecordFailure, Notify, Throw, Reject, Goto, Learn
<1>4. /\ \A e \in Calls \ {d} : call'[e] = call[e]
      /\ \A e \in Calls : call'[e].key = call[e].key /\ call'[e].ended = call[e].ended
  BY <1>1, <1>3
<1>5. fired \subseteq fired' /\ fired' \subseteq fired \union {d} /\ notified \subseteq notified'
  BY DEF CallStep, LookUp, Persist, PersistFails, Reread, Audit, ReadStatus, Mark, FireRun, RunEnds,
         RecordStart, ResetClaim, RecordFailure, Notify, Throw, Reject
<1> QED
  BY <1>2, <1>4, <1>5

(* What a step may write of the ledger and the claims. *)
LEMMA StepWrites ==
  ASSUME IntakeInv, NEW d \in Calls, CallStep(d), NEW k \in Keys, NEW x \in Calls, x \in stored
  PROVE  /\ request'[k] # request[k] /\ request[k] # NoRequest
              => k = call[d].key /\ call[d].step \in {"marking", "recording", "noting"}
         /\ claimState'[x] # claimState[x]
              => x = call[d].claim /\ call[d].step \in {"running", "failing"}
<1>1. /\ request \in [Keys -> [hash : Contents \union {Nothing}, claim : Calls \union {Nothing},
                              status : Recorded \union {"persisted", Nothing}]]
      /\ claimState \in [Calls -> {Nothing, "pending", "assessed", "failed", "start_failed"}]
      /\ call[d].step = "inserting" => d \notin stored
  BY DEF IntakeInv, IntakeTypeOK, CallOK, Unstored
<1>2. CASE Persist(d)
  BY <1>1, <1>2 DEF Persist
<1>3. CASE Mark(d) \/ RecordStart(d) \/ RecordFailure(d)
  BY <1>1, <1>3 DEF Mark, RecordStart, RecordFailure, SetStatus
<1>4. CASE RunEnds(d) \/ ResetClaim(d)
  BY <1>1, <1>4 DEF RunEnds, ResetClaim
<1>5. CASE UNCHANGED <<request, claimState>>
  BY <1>5
<1> QED
  BY <1>2, <1>3, <1>4, <1>5
  DEF CallStep, LookUp, PersistFails, Reread, Audit, ReadStatus, FireRun, Notify, Throw, Reject

(* No other call writes where an undisturbed call has recorded its outcome. *)
LEMMA OthersLeaveOutcome ==
  ASSUME IntakeInv, OutcomeInv, NEW c \in Calls, c \in fired, Undisturbed(c),
         NEW d \in Calls \ {c}, CallStep(d)
  PROVE  /\ request'[call[c].key] = request[call[c].key]
         /\ claimState'[call[c].claim] = claimState[call[c].claim]
<1>1. /\ call[c].key \in Keys /\ call[c].claim # Nothing /\ call[c].claim \in Calls
      /\ request[call[c].key].claim = call[c].claim
      /\ call[c].claim \in stored /\ call[call[c].claim].key = call[c].key
      /\ request[call[c].key] # NoRequest
  <2>1. CallOK(c) /\ call[c].claim \in Calls \union {Nothing}
    BY DEF IntakeInv, IntakeTypeOK
  <2>2. call[c].step # "new"
    BY <2>1 DEF CallOK, BeforeRun
  <2> QED
    BY <2>1, <2>2 DEF CallOK, IntakeInv, LedgerOK, NoRequest
<1>2. call[d].step \in {"marking", "recording", "noting", "running", "failing"}
        => call[d].key # call[c].key
  <2> SUFFICES ASSUME call[d].step \in {"marking", "recording", "noting", "running", "failing"},
                      call[d].key = call[c].key
               PROVE  FALSE
    OBVIOUS
  <2>1. CASE c \in call[d].ended
    BY <2>1 DEF IntakeInv, ReplayOK, OutcomeInv, RanOK
  <2>2. CASE d \in call[c].ended
    BY <2>2 DEF IntakeInv, ReplayOK, Ends
  <2> QED
    BY <2>1, <2>2 DEF Undisturbed
<1>3. call[d].step \in {"running", "failing"} /\ call[d].claim = call[c].claim
        => call[d].key = call[c].key
  BY <1>1 DEF IntakeInv, CallOK, LedgerOK, Knowing
<1> QED
  BY <1>1, <1>2, <1>3, StepWrites

LEMMA OutcomeStep ==
  ASSUME IntakeInv, OutcomeInv, [IntakeNext]_canonicalVars
  PROVE  OutcomeInv'
<1>1. ASSUME NEW d \in Calls, CallStep(d), NEW c \in Calls
      PROVE  RanOK(c)' /\ OutcomeOK(c)'
  <2>1. Undisturbed(c)' => Undisturbed(c)
    BY <1>1, StepFrame DEF Undisturbed
  <2>2. CASE c # d
    <3>1. call'[c] = call[c] /\ (c \in fired' => c \in fired) /\ fired \subseteq fired'
          /\ notified \subseteq notified'
      BY <1>1, <2>2, StepFrame
    <3>2. c \in fired /\ Undisturbed(c)
            => /\ request'[call[c].key] = request[call[c].key]
               /\ claimState'[call[c].claim] = claimState[call[c].claim]
      BY <1>1, <2>2, OthersLeaveOutcome
    <3> QED
      BY <2>1, <3>1, <3>2 DEF OutcomeInv, RanOK, OutcomeOK
  <2>3. CASE c = d
    <3>1. /\ call \in [Calls -> [step : {"new"} \union AtWork \union Ends, key : Keys \union {Nothing},
                                 hash : Contents \union {Nothing}, claim : Calls \union {Nothing},
                                 ended : SUBSET Calls]]
          /\ request \in [Keys -> [hash : Contents \union {Nothing}, claim : Calls \union {Nothing},
                                   status : Recorded \union {"persisted", Nothing}]]
          /\ claimState \in [Calls -> {Nothing, "pending", "assessed", "failed", "start_failed"}]
          /\ CallOK(c) /\ RanOK(c) /\ OutcomeOK(c)
      BY DEF IntakeInv, IntakeTypeOK, OutcomeInv
    <3>2. CASE LookUp(c) \/ Persist(c) \/ PersistFails(c) \/ Reread(c) \/ Audit(c) \/ ReadStatus(c)
      <4>1. c \notin fired
        BY <3>1, <3>2 DEF CallOK, BeforeRun, LookUp, Persist, PersistFails, Reread, Audit, ReadStatus
      <4>2. c \notin fired'
        BY <3>2, <4>1 DEF LookUp, Persist, PersistFails, Reread, Audit, ReadStatus
      <4>3. call'[c].step \in {"inserting", "conflict", "reading", "auditing", "rereading", "error",
                               "recoverable", "already", "marking"}
        BY <3>1, <3>2 DEF LookUp, Persist, PersistFails, Reread, Audit, ReadStatus, Goto, Learn
      <4> QED
        BY <4>2, <4>3 DEF RanOK, OutcomeOK
    <3>3. CASE Mark(c) \/ FireRun(c)
      BY <3>1, <3>3 DEF Mark, FireRun, Goto, RanOK, OutcomeOK
    <3>4. CASE RunEnds(c) \/ RecordStart(c)
      BY <2>1, <3>1, <3>4 DEF RunEnds, RecordStart, SetStatus, Goto, RanOK, OutcomeOK, CallOK
    <3>5. CASE ResetClaim(c) \/ RecordFailure(c)
      BY <2>1, <3>1, <3>5 DEF ResetClaim, RecordFailure, SetStatus, Goto, RanOK, OutcomeOK, CallOK, Knowing
    <3>6. CASE Notify(c) \/ Throw(c)
      BY <2>1, <3>1, <3>6 DEF Notify, Throw, Reject, Goto, RanOK, OutcomeOK
    <3> QED
      BY <1>1, <2>3, <3>2, <3>3, <3>4, <3>5, <3>6 DEF CallStep
  <2> QED
    BY <2>2, <2>3
<1>2. ASSUME NEW d \in Calls, NEW k \in Keys, NEW h \in Contents, Submit(d, k, h), NEW c \in Calls
      PROVE  RanOK(c)' /\ OutcomeOK(c)'
  <2>1. /\ call[d].step = "new" /\ call[d].key = Nothing /\ call'[d].step = "looking"
        /\ \A e \in Calls \ {d} : call'[e] = call[e]
        /\ UNCHANGED <<request, claimState, fired, notified>>
    BY <1>2 DEF Submit, IntakeInv, IntakeTypeOK, CallOK
  <2>2. CASE c = d
    BY <2>1, <2>2 DEF RanOK, OutcomeOK
  <2>3. CASE c # d
    <3>1. c \in fired => call[c].key # Nothing
      BY IntakeAssumption DEF IntakeInv, CallOK, BeforeRun
    <3>2. c \in fired /\ Undisturbed(c)' => Undisturbed(c)
      BY <2>1, <2>3, <3>1 DEF Undisturbed
    <3> QED
      BY <2>1, <2>3, <3>2 DEF OutcomeInv, RanOK, OutcomeOK
  <2> QED
    BY <2>2, <2>3
<1>3. ASSUME Restart, NEW c \in Calls
      PROVE  RanOK(c)' /\ OutcomeOK(c)'
  <2>1. /\ \A e \in Calls : call'[e].key = call[e].key /\ call'[e].ended = call[e].ended
        /\ call'[c] = call[c] \/ call'[c].step = "gone"
        /\ UNCHANGED <<request, claimState, fired, notified>>
    BY <1>3 DEF Restart, IntakeInv, IntakeTypeOK
  <2>2. Undisturbed(c)' => Undisturbed(c)
    BY <2>1 DEF Undisturbed
  <2> QED
    BY <2>1, <2>2 DEF OutcomeInv, RanOK, OutcomeOK
<1>4. CASE UNCHANGED canonicalVars
  BY <1>4 DEF canonicalVars, OutcomeInv, RanOK, OutcomeOK, Undisturbed
<1> QED
  BY <1>1, <1>2, <1>3, <1>4 DEF IntakeNext, OutcomeInv

\* The status of the request, the state of the claim and the notification of a call that was
\* answered are what startCanonicalIntakeAssessment told its caller, as long as no other
\* call of the key overlapped with it.
THEOREM OutcomeIsRecordedHolds == IntakeSpec => []OutcomeIsRecorded
<1>1. IntakeInit => OutcomeInv
  BY DEF IntakeInit, OutcomeInv, RanOK, OutcomeOK, NewCall
<1>2. IntakeInv /\ OutcomeInv => OutcomeIsRecorded
  BY DEF IntakeInv, IntakeTypeOK, OutcomeInv, OutcomeOK, Undisturbed, OutcomeIsRecorded
<1> QED
  BY <1>1, <1>2, IntakeInvariant, OutcomeStep, PTL DEF IntakeSpec

------------------------------------------------------------------------------

LEMMA MoveRefines ==
  ASSUME IntakeInv, NEW c \in Calls, NEW s, Learn(c, call[c].claim, s), UNCHANGED stored,
         UNCHANGED request \/ \E t : SetStatus(c, t)
  PROVE  UNCHANGED Idempotent!intakeVars
<1>1. \A d \in Calls : call'[d].key = call[d].key /\ call'[d].hash = call[d].hash
                       /\ call'[d].claim = call[d].claim
  BY DEF IntakeInv, IntakeTypeOK, Learn
<1>2. \A k \in Keys : request'[k].hash = request[k].hash /\ request'[k].claim = request[k].claim
  <2>1. CASE UNCHANGED request
    BY <2>1
  <2>2. ASSUME NEW t, SetStatus(c, t)
        PROVE  <1>2!:
    <3>1. request' = [request EXCEPT ![call[c].key] = [request[call[c].key] EXCEPT !.status = t]]
      BY <2>2 DEF SetStatus
    <3>2. DOMAIN request = Keys /\ \A k \in Keys : request[k] \in
            [hash : Contents \union {Nothing}, claim : Calls \union {Nothing},
             status : Recorded \union {"persisted", Nothing}]
      BY DEF IntakeInv, IntakeTypeOK
    <3> QED
      BY <3>1, <3>2
  <2> QED
    BY <2>1, <2>2
<1> QED
  BY <1>1, <1>2 DEF Idempotent!intakeVars

LEMMA LearnRefines ==
  ASSUME IntakeInv, NEW c \in Calls, LookUp(c) \/ Reread(c), NEW s,
         request[call[c].key].claim # Nothing, request[call[c].key].hash = call[c].hash,
         Learn(c, request[call[c].key].claim, s)
  PROVE  Idempotent!Next
<1> DEFINE k == call[c].key
<1>1. IntakeTypeOK /\ CallOK(c) /\ UNCHANGED <<request, stored>> /\ call[c].step \in {"looking", "rereading"}
  BY DEF IntakeInv, LookUp, Reread
<1>2. k \in Keys /\ call[c].claim = Nothing
  BY <1>1 DEF CallOK, Unstored
<1>3. /\ call'[c].claim = request[k].claim
      /\ \A d \in Calls : call'[d].key = call[d].key /\ call'[d].hash = call[d].hash
      /\ \A d \in Calls \ {c} : call'[d].claim = call[d].claim
  BY <1>1 DEF IntakeTypeOK, Learn
<1>4. k # Nothing
  BY <1>2, IntakeAssumption
<1>5. Idempotent!Tell(c)
  BY <1>1, <1>2, <1>3, <1>4 DEF Idempotent!Tell
<1> QED
  BY <1>5 DEF Idempotent!Next

LEMMA CallStepRefines ==
  ASSUME IntakeInv, NEW c \in Calls, CallStep(c), ~Persist(c)
  PROVE  [Idempotent!Next]_(Idempotent!intakeVars)
<1>a. IntakeTypeOK
  BY DEF IntakeInv
<1>1. ASSUME NEW s, Goto(c, s), UNCHANGED stored, UNCHANGED request \/ \E t : SetStatus(c, t)
      PROVE  UNCHANGED Idempotent!intakeVars
  BY <1>a, <1>1, GotoLearns, MoveRefines
<1>2. CASE LookUp(c)
  BY <1>1, <1>2, LearnRefines DEF LookUp
<1>3. CASE Reread(c)
  BY <1>1, <1>3, LearnRefines DEF Reread
<1>4. CASE PersistFails(c) \/ Audit(c) \/ ReadStatus(c) \/ Throw(c) \/ FireRun(c)
  BY <1>1, <1>4 DEF PersistFails, Audit, ReadStatus, Throw, Reject, FireRun
<1>5. CASE RunEnds(c) \/ ResetClaim(c) \/ Notify(c)
  BY <1>1, <1>5 DEF RunEnds, ResetClaim, Notify
<1>6. CASE Mark(c) \/ RecordStart(c) \/ RecordFailure(c)
  BY <1>1, <1>6 DEF Mark, RecordStart, RecordFailure
<1> QED
  BY <1>2, <1>3, <1>4, <1>5, <1>6 DEF CallStep

\* The transaction is the step that binds the key.
LEMMA PersistRefines ==
  ASSUME IntakeInv, NEW c \in Calls, Persist(c)
  PROVE  Idempotent!Next
<1> DEFINE k == call[c].key
<1>1. IntakeTypeOK /\ CallOK(c) /\ call[c].step = "inserting"
  BY DEF IntakeInv, Persist
<1>2. k \in Keys /\ k # Nothing /\ c \notin stored /\ call[c].claim = Nothing
  BY <1>1, IntakeAssumption DEF CallOK, Unstored
<1>3. /\ request' = [request EXCEPT ![k] = [hash |-> call[c].hash, claim |-> c, status |-> "persisted"]]
      /\ stored' = stored \union {c} /\ request[k].claim = Nothing
  BY DEF Persist, NoRequest
<1>4. PICK s \in {"auditing", "rereading"}, x \in {c, Nothing} : Learn(c, x, s)
  BY <1>1, <1>2, GotoLearns DEF Persist
<1>5. /\ \A d \in Calls : call'[d].key = call[d].key /\ call'[d].hash = call[d].hash
      /\ \A d \in Calls \ {c} : call'[d].claim = call[d].claim
      /\ call'[c].claim = x
  BY <1>1, <1>4 DEF IntakeTypeOK, Learn
<1>6. /\ request'[k].hash = call[c].hash /\ request'[k].claim = c
      /\ \A l \in Keys \ {k} : request'[l] = request[l]
  BY <1>1, <1>2, <1>3 DEF IntakeTypeOK
<1> DEFINE told == [d \in Calls |-> call[d].claim]
           bound == [l \in Keys |-> [hash |-> request[l].hash, claim |-> request[l].claim]]
<1>7. told' \in {told, [told EXCEPT ![c] = c]}
  <2>1. CASE x = c
    BY <1>5, <2>1
  <2>2. CASE x = Nothing
    <3>1. \A d \in Calls : call'[d].claim = call[d].claim
      BY <1>2, <1>5, <2>2
    <3> QED
      BY <3>1
  <2> QED
    BY <2>1, <2>2
<1>8. bound' = [bound EXCEPT ![k] = [hash |-> call[c].hash, claim |-> c]]
  BY <1>2, <1>6
<1>9. [d \in Calls |-> [key |-> call[d].key, hash |-> call[d].hash]]'
        = [d \in Calls |-> [key |-> call[d].key, hash |-> call[d].hash]]
  BY <1>5
<1>10. Idempotent!Bind(c)
  BY <1>1, <1>2, <1>3, <1>7, <1>8, <1>9 DEF Idempotent!Bind
<1> QED
  BY <1>10 DEF Idempotent!Next

LEMMA SubmitRefines ==
  ASSUME IntakeInv, NEW c \in Calls, NEW k \in Keys, NEW h \in Contents, Submit(c, k, h)
  PROVE  Idempotent!Next
<1>1. IntakeTypeOK /\ call[c].key = Nothing /\ call[c].claim = Nothing
  BY DEF IntakeInv, CallOK, Submit
<1>2. /\ call'[c].key = k /\ call'[c].hash = h /\ call'[c].claim = Nothing
      /\ \A d \in Calls \ {c} : call'[d] = call[d]
      /\ UNCHANGED <<request, stored>>
  BY <1>1 DEF Submit, IntakeTypeOK
<1>3. Idempotent!Ask(c, k, h)
  BY <1>1, <1>2 DEF Idempotent!Ask
<1> QED
  BY <1>3 DEF Idempotent!Next

LEMMA RestartRefines == IntakeInv /\ Restart => UNCHANGED Idempotent!intakeVars
<1> SUFFICES ASSUME IntakeInv, Restart PROVE UNCHANGED Idempotent!intakeVars
  OBVIOUS
<1>1. \A d \in Calls : call'[d].key = call[d].key /\ call'[d].hash = call[d].hash
                       /\ call'[d].claim = call[d].claim
  BY DEF IntakeInv, IntakeTypeOK, Restart
<1> QED
  BY <1>1 DEF Idempotent!intakeVars, Restart

\* The key is bound once and every answer is the claim it is bound to: lookup, transaction
\* and second reading, interleaved with failures, lost answers and restarts, are the steps
\* of IdempotentIntake and stutters of it.
THEOREM RefinesIdempotentIntake == IntakeSpec => ImplementsIdempotentIntake
<1>1. IntakeInit => Idempotent!Init
  BY DEF IntakeInit, NoRequest, NewCall, Idempotent!Init
<1>2. IntakeInv /\ [IntakeNext]_canonicalVars => [Idempotent!Next]_(Idempotent!intakeVars)
  <2> SUFFICES ASSUME IntakeInv, [IntakeNext]_canonicalVars
               PROVE  [Idempotent!Next]_(Idempotent!intakeVars)
    OBVIOUS
  <2>1. CASE IntakeNext
    BY <2>1, CallStepRefines, PersistRefines, SubmitRefines, RestartRefines DEF IntakeNext
  <2>2. CASE UNCHANGED canonicalVars
    BY <2>2 DEF canonicalVars, Idempotent!intakeVars
  <2> QED
    BY <2>1, <2>2
<1> QED
  BY <1>1, <1>2, IntakeInvariant, PTL DEF IntakeSpec, ImplementsIdempotentIntake, Idempotent!Spec
==============================================================================
