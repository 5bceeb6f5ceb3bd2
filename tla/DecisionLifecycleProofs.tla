---------------------- MODULE DecisionLifecycleProofs ----------------------
(***************************************************************************)
(* Theorems about DecisionLifecycle, for every number of requests and of   *)
(* snapshots.                                                              *)
(*                                                                         *)
(* Nothing is locked without a record because what a lock has checked can  *)
(* never be undone: a mark stays, and the row never loses its snapshot     *)
(* (RequestInv, RowInv).  As long as requests to decide do not overlap,    *)
(* the state that one of them has read is the state of the row when it is  *)
(* written (SequentialInv), from which the rest follows.  The last part is *)
(* about what needs no such condition: what is recorded stays recorded.    *)
(***************************************************************************)
EXTENDS DecisionLifecycle, SequenceTheorems, TLAPS

AfterLatest == {"read", "create", "update", "audit", "mark"}
AfterGovern == {"latest", "read", "create", "update", "audit", "mark"}

HasRecord == row # NoRow /\ row.final /\ row.snapshot \in DOMAIN snapshots

(* The kind of a request fits the step it is at. *)
KindInv ==
  \A q \in Requests : Open(q) =>
    /\ request[q].step \in {"conditions", "marked"} => request[q].kind = "lock"
    /\ request[q].step \in {"latest", "mark"} => request[q].kind = "finalise"
    /\ request[q].step = "govern" => request[q].kind \in Deciding
    /\ request[q].step \in {"version", "insert"} => request[q].kind = "save"
    /\ request[q].step \in {"update", "audit"} =>
         /\ row # NoRow /\ request[q].kind \in Deciding
         /\ CanTransition(request[q].state, Target[request[q].kind])

(* What a finalisation and a lock have found is still there. *)
RequestInv ==
  \A q \in Requests : Open(q) =>
    /\ request[q].kind = "finalise" /\ request[q].step \in AfterLatest
         => request[q].snapshot \in DOMAIN snapshots
    /\ request[q].step = "marked" => HasRecord
    /\ request[q].kind = "lock" /\ request[q].step \notin {"conditions", "marked"}
         => HasRecord /\ \E s \in DOMAIN snapshots : snapshots[s].final

RowInv ==
  row # NoRow =>
    /\ row.state \in {"FINALISED", "LOCKED"} => row.final
    /\ row.state = "LOCKED" => row.locked
    /\ row.final => row.snapshot \in DOMAIN snapshots
    /\ row.locked => row.final /\ \E s \in DOMAIN snapshots : snapshots[s].final

(* The flags of the row say what its state says, the only final snapshot is  *)
(* the one it names, a request writes over the state it has read, and a      *)
(* finalised decision is marked or about to be.                              *)
OneAtATime ==
  \A p, q \in Requests :
    Open(p) /\ Open(q) /\ request[p].kind \in Deciding /\ request[q].kind \in Deciding => p = q
RowTells ==
  row # NoRow => /\ row.final => row.state \in {"FINALISED", "LOCKED"}
                 /\ row.locked => row.state = "LOCKED" /\ snapshots[row.snapshot].final
FinalIsNamed ==
  \A s \in DOMAIN snapshots : snapshots[s].final => HasRecord /\ s = row.snapshot
ReadIsCurrent ==
  \A q \in Requests :
    /\ Serving(q, "update") => request[q].state = row.state
    /\ Open(q) /\ request[q].kind = "finalise" /\ request[q].step \in {"audit", "mark"}
         => row # NoRow /\ row.state = "FINALISED" /\ row.snapshot = request[q].snapshot
MarkedOrAbout ==
  ~lost /\ row # NoRow /\ row.state = "FINALISED"
    => \/ snapshots[row.snapshot].final
       \/ \E q \in Requests : Open(q) /\ request[q].kind = "finalise"
                                      /\ request[q].step \in {"audit", "mark"}
SequentialInv ==
  ~overlapped => OneAtATime /\ RowTells /\ FinalIsNamed /\ ReadIsCurrent /\ MarkedOrAbout

(* A request that is past the governance is in its log. *)
GovernedInv ==
  \A q \in Requests :
    Open(q) /\ request[q].kind \in Deciding /\ request[q].step \in AfterGovern
      => lost \/ request[q].kind \in governed

DecisionInv ==
  DecisionTypeOK /\ KindInv /\ RequestInv /\ RowInv /\ SequentialInv /\ GovernedInv /\ RecordsKept

-----------------------------------------------------------------------------

LEMMA TargetValues ==
  /\ Target["review"] = "REVIEWED"
  /\ Target["finalise"] = "FINALISED"
  /\ Target["lock"] = "LOCKED"
  BY DEF Target, Deciding

LEMMA FirstStepValues ==
  /\ FirstStep("save") = "version"
  /\ FirstStep("look") = "read"
  /\ FirstStep("lock") = "conditions"
  /\ FirstStep("review") = "govern"
  /\ FirstStep("finalise") = "govern"
  BY DEF FirstStep

\* What saveDecisionSnapshot and markAuthoritativeSnapshot leave as it was.
LEMMA AppendIsLast ==
  ASSUME NEW S, NEW seq \in Seq(S), NEW e \in S, ~e.final
  PROVE  /\ Append(seq, e) \in Seq(S)
         /\ DOMAIN seq \subseteq DOMAIN Append(seq, e)
         /\ \A i \in DOMAIN seq : Append(seq, e)[i] = seq[i]
         /\ \A i \in DOMAIN Append(seq, e) : Append(seq, e)[i].final => i \in DOMAIN seq
  <1>1. DOMAIN seq = 1 .. Len(seq) /\ DOMAIN Append(seq, e) = 1 .. Len(seq) + 1
    OBVIOUS
  <1>2. /\ \A i \in 1 .. Len(seq) : Append(seq, e)[i] = seq[i]
        /\ Append(seq, e)[Len(seq) + 1] = e
    OBVIOUS
  <1> QED BY <1>1, <1>2

LEMMA MarkedIsFinal ==
  ASSUME NEW seq \in Seq([version : Nat, final : BOOLEAN]), NEW n \in DOMAIN seq
  PROVE  LET marked == [seq EXCEPT ![n].final = TRUE]
         IN /\ marked \in Seq([version : Nat, final : BOOLEAN])
            /\ DOMAIN marked = DOMAIN seq
            /\ marked[n].final
            /\ \A i \in DOMAIN seq : i # n => marked[i] = seq[i]
  <1> DEFINE e == [seq[n] EXCEPT !.final = TRUE]
  <1>1. n \in 1 .. Len(seq) /\ DOMAIN seq = 1 .. Len(seq)
    OBVIOUS
  <1>2. seq[n] \in [version : Nat, final : BOOLEAN]
    BY <1>1, ElementOfSeq
  <1>3. e \in [version : Nat, final : BOOLEAN] /\ e.final
    BY <1>2
  <1>4. [seq EXCEPT ![n].final = TRUE] = [seq EXCEPT ![n] = e]
    OBVIOUS
  <1> HIDE DEF e
  <1>5. /\ [seq EXCEPT ![n] = e] \in Seq([version : Nat, final : BOOLEAN])
        /\ Len([seq EXCEPT ![n] = e]) = Len(seq)
    BY <1>1, <1>3, ExceptSeq
  <1>6. /\ DOMAIN [seq EXCEPT ![n] = e] = DOMAIN seq
        /\ [seq EXCEPT ![n] = e][n] = e
        /\ \A i \in DOMAIN seq : i # n => [seq EXCEPT ![n] = e][i] = seq[i]
    OBVIOUS
  <1> QED BY <1>3, <1>4, <1>5, <1>6

LEMMA InitDecisionInv == DecisionInit => DecisionInv
  <1> SUFFICES ASSUME DecisionInit PROVE DecisionInv
    OBVIOUS
  <1> USE DecisionAssumption DEF DecisionInit, Open, Serving
  <1>1. DecisionTypeOK
    <2>1. snapshots \in Seq([version : Nat, final : BOOLEAN])
      OBVIOUS
    <2> QED BY <2>1 DEF DecisionTypeOK
  <1>2. KindInv /\ RequestInv /\ RowInv /\ GovernedInv /\ RecordsKept
    BY DEF KindInv, RequestInv, RowInv, GovernedInv, RecordsKept
  <1>3. SequentialInv
    <2>1. DOMAIN snapshots = {}
      OBVIOUS
    <2> QED BY <2>1 DEF SequentialInv, OneAtATime, RowTells, FinalIsNamed, ReadIsCurrent, MarkedOrAbout
  <1> QED BY <1>1, <1>2, <1>3 DEF DecisionInv

LEMMA BeginKeepsInv ==
  ASSUME DecisionInv, NEW q \in Requests, NEW kind \in Kinds, Begin(q, kind)
  PROVE  DecisionInv'
  <1> USE DecisionAssumption, TargetValues, FirstStepValues DEF DecisionInv, Open, Serving
  <1>0. /\ request \in [Requests -> RequestRecord \cup {NoRequest}]
        /\ row \in Row \cup {NoRow}
    BY DEF DecisionTypeOK
  <1>a. /\ FirstStep(kind) \in {"version", "read", "conditions", "govern"}
        /\ FirstStep(kind) = "version" <=> kind = "save"
        /\ FirstStep(kind) = "read" <=> kind = "look"
        /\ FirstStep(kind) = "conditions" <=> kind = "lock"
    BY FirstStepValues DEF Kinds
  <1>b. /\ request[q] = NoRequest
        /\ request' = [request EXCEPT ![q] = [kind |-> kind, step |-> FirstStep(kind),
                                              state |-> "DRAFT", snapshot |-> 0, version |-> 0]]
        /\ UNCHANGED <<snapshots, row, governed, transitions, moved, lost>>
    BY DEF Begin, tables
  <1>c. request'[q] \in RequestRecord
    BY <1>0, <1>a, <1>b DEF RequestRecord, Steps, States
  <1>d. /\ \A p \in Requests : p # q => request'[p] = request[p]
        /\ request'[q] # NoRequest
        /\ request'[q].kind = kind /\ request'[q].step = FirstStep(kind)
        /\ request' \in [Requests -> RequestRecord \cup {NoRequest}]
    BY <1>0, <1>b, <1>c DEF RequestRecord
  <1>1. DecisionTypeOK'
    BY <1>b, <1>d DEF DecisionTypeOK, Begin
  <1>2. KindInv'
    BY <1>a, <1>b, <1>d DEF KindInv, Kinds, Deciding
  <1>3. RequestInv'
    BY <1>a, <1>b, <1>d DEF RequestInv, HasRecord, AfterLatest
  <1>4. RowInv'
    BY <1>b DEF RowInv
  <1>5. SequentialInv'
    <2> SUFFICES ASSUME ~overlapped'
                 PROVE  (OneAtATime /\ RowTells /\ FinalIsNamed /\ ReadIsCurrent /\ MarkedOrAbout)'
      BY DEF SequentialInv
    <2>0. /\ OneAtATime /\ RowTells /\ FinalIsNamed /\ ReadIsCurrent /\ MarkedOrAbout
          /\ kind \in Deciding => \A p \in Requests : Open(p) => request[p].kind \notin Deciding
      BY DEF SequentialInv, Begin
    <2>1. OneAtATime'
      BY <1>b, <1>d, <2>0 DEF OneAtATime
    <2>2. RowTells' /\ FinalIsNamed'
      BY <1>b, <2>0 DEF RowTells, FinalIsNamed, HasRecord
    <2>3. ReadIsCurrent'
      BY <1>a, <1>b, <1>d, <2>0 DEF ReadIsCurrent
    <2>4. MarkedOrAbout'
      BY <1>b, <1>d, <2>0 DEF MarkedOrAbout
    <2> QED BY <2>1, <2>2, <2>3, <2>4
  <1>6. GovernedInv'
    BY <1>a, <1>b, <1>d DEF GovernedInv, AfterGovern, Deciding
  <1>7. RecordsKept'
    BY <1>b, <1>d DEF RecordsKept
  <1> QED BY <1>1, <1>2, <1>3, <1>4, <1>5, <1>6, <1>7

LEMMA ReadVersionKeepsInv ==
  ASSUME DecisionInv, NEW q \in Requests, ReadVersion(q)
  PROVE  DecisionInv'
  <1> USE DecisionAssumption, TargetValues DEF DecisionInv, ReadVersion, Serving, Open, tables, history
  <1>0. /\ request \in [Requests -> RequestRecord \cup {NoRequest}]
        /\ row \in Row \cup {NoRow}
    BY DEF DecisionTypeOK
  <1>1. DecisionTypeOK'
    <2>1. \A s \in DOMAIN snapshots : snapshots[s].version \in Nat
      <3>1. snapshots \in Seq([version : Nat, final : BOOLEAN])
        BY DEF DecisionTypeOK
      <3>2. \A s \in DOMAIN snapshots : snapshots[s] \in [version : Nat, final : BOOLEAN]
        <4>1. DOMAIN snapshots = 1 .. Len(snapshots)
          BY <3>1
        <4> QED BY <3>1, <4>1, ElementOfSeq
      <3> QED BY <3>2
    <2>2. PICK v \in Nat : request' = [request EXCEPT ![q].step = "insert", ![q].version = 1 + v]
      <3>1. PICK v \in IF snapshots = <<>> THEN {0} ELSE {snapshots[s].version : s \in Newest} :
              request' = [request EXCEPT ![q].step = "insert", ![q].version = 1 + v]
        OBVIOUS
      <3>2. v \in Nat
        BY <2>1, <3>1 DEF Newest
      <3> QED BY <3>1, <3>2
    <2>3. request' \in [Requests -> RequestRecord \cup {NoRequest}]
      <3>1. 1 + v \in Nat /\ request[q] \in RequestRecord
        BY <1>0, <2>2
      <3> HIDE DEF ReadVersion
      <3> QED BY <1>0, <2>2, <3>1 DEF RequestRecord, Steps
    <2> QED BY <2>3 DEF DecisionTypeOK
  <1>2. KindInv'
    BY <1>0 DEF KindInv, Deciding, RequestRecord, Row
  <1>3. RequestInv'
    BY <1>0 DEF KindInv, RequestInv, RowInv, HasRecord, AfterLatest, RequestRecord
  <1>4. RowInv'
    BY <1>0 DEF KindInv, RequestInv, RowInv, HasRecord, RequestRecord
  <1>5. SequentialInv'
    <2> SUFFICES ASSUME ~overlapped'
                 PROVE  (OneAtATime /\ RowTells /\ FinalIsNamed /\ ReadIsCurrent /\ MarkedOrAbout)'
      BY DEF SequentialInv
    <2>0. OneAtATime /\ RowTells /\ FinalIsNamed /\ ReadIsCurrent /\ MarkedOrAbout
      BY DEF SequentialInv
    <2>1. OneAtATime'
      BY <1>0, <2>0 DEF OneAtATime, KindInv, RequestRecord, Deciding
    <2>2. RowTells' /\ FinalIsNamed'
      BY <1>0, <2>0 DEF RowTells, FinalIsNamed, HasRecord
    <2>3. ReadIsCurrent'
      BY <1>0, <2>0 DEF ReadIsCurrent, RequestRecord
    <2>4. MarkedOrAbout'
      BY <1>0, <2>0 DEF MarkedOrAbout, RequestRecord
    <2> QED BY <2>1, <2>2, <2>3, <2>4
  <1>6. GovernedInv'
    BY <1>0 DEF KindInv, GovernedInv, AfterGovern, Deciding, RequestRecord
  <1>7. RecordsKept'
    BY <1>0 DEF RecordsKept, RequestRecord
  <1> QED BY <1>1, <1>2, <1>3, <1>4, <1>5, <1>6, <1>7

LEMMA InsertSnapshotKeepsInv ==
  ASSUME DecisionInv, NEW q \in Requests, InsertSnapshot(q)
  PROVE  DecisionInv'
  <1> USE DecisionAssumption, TargetValues DEF DecisionInv, Open, Serving
  <1>0. /\ request \in [Requests -> RequestRecord \cup {NoRequest}]
        /\ row \in Row \cup {NoRow}
    BY DEF DecisionTypeOK
  <1>a. /\ request[q] # NoRequest /\ request[q].step = "insert"
        /\ request' = [request EXCEPT ![q].step = "read", ![q].version = 0]
        /\ UNCHANGED <<row, governed, transitions, moved, lost, overlapped>>
    BY DEF InsertSnapshot, history
  <1>b. /\ snapshots' \in Seq([version : Nat, final : BOOLEAN])
        /\ DOMAIN snapshots \subseteq DOMAIN snapshots'
        /\ \A s \in DOMAIN snapshots : snapshots'[s] = snapshots[s]
        /\ \A s \in DOMAIN snapshots' : snapshots'[s].final => s \in DOMAIN snapshots
    <2>1. request[q].version \in Nat /\ snapshots \in Seq([version : Nat, final : BOOLEAN])
      BY <1>0, <1>a DEF DecisionTypeOK, RequestRecord
    <2>2. snapshots' = Append(snapshots, [version |-> request[q].version, final |-> FALSE])
      BY DEF InsertSnapshot
    <2>3. [version |-> request[q].version, final |-> FALSE] \in [version : Nat, final : BOOLEAN]
      BY <2>1
    <2> QED BY <2>1, <2>2, <2>3, AppendIsLast
  <1>1. DecisionTypeOK'
    <2>1. request' \in [Requests -> RequestRecord \cup {NoRequest}]
      BY <1>0, <1>a DEF RequestRecord, Steps
    <2> QED BY <1>a, <1>b, <2>1 DEF DecisionTypeOK
  <1>2. KindInv'
    BY <1>0, <1>a DEF KindInv, Deciding, RequestRecord
  <1>3. RequestInv'
    <2>1. request'[q].kind = "save" /\ request'[q].step = "read"
      BY <1>0, <1>a DEF KindInv, RequestRecord
    <2>2. \A p \in Requests : p # q => request'[p] = request[p]
      BY <1>0, <1>a
    <2> QED BY <1>a, <1>b, <2>1, <2>2 DEF RequestInv, HasRecord
  <1>4. RowInv'
    BY <1>a, <1>b DEF RowInv
  <1>5. SequentialInv'
    <2> SUFFICES ASSUME ~overlapped'
                 PROVE  (OneAtATime /\ RowTells /\ FinalIsNamed /\ ReadIsCurrent /\ MarkedOrAbout)'
      BY DEF SequentialInv
    <2>0. OneAtATime /\ RowTells /\ FinalIsNamed /\ ReadIsCurrent /\ MarkedOrAbout
      BY <1>a DEF SequentialInv
    <2>1. OneAtATime'
      BY <1>0, <1>a, <2>0 DEF OneAtATime, RequestRecord
    <2>2. RowTells' /\ FinalIsNamed'
      BY <1>a, <1>b, <2>0 DEF RowTells, FinalIsNamed, HasRecord, RowInv
    <2>3. ReadIsCurrent'
      BY <1>0, <1>a, <2>0 DEF ReadIsCurrent, RequestRecord
    <2>4. MarkedOrAbout'
      BY <1>0, <1>a, <1>b, <2>0 DEF MarkedOrAbout, RequestRecord, RowInv
    <2> QED BY <2>1, <2>2, <2>3, <2>4
  <1>6. GovernedInv'
    BY <1>0, <1>a DEF KindInv, GovernedInv, AfterGovern, Deciding, RequestRecord
  <1>7. RecordsKept'
    BY <1>0, <1>a DEF RecordsKept, RequestRecord
  <1> QED BY <1>1, <1>2, <1>3, <1>4, <1>5, <1>6, <1>7

LEMMA ReadLatestKeepsInv ==
  ASSUME DecisionInv, NEW q \in Requests, ReadLatest(q)
  PROVE  DecisionInv'
  <1> USE DecisionAssumption, TargetValues DEF DecisionInv, ReadLatest, Serving, Open, Done, tables, history
  <1>0. /\ request \in [Requests -> RequestRecord \cup {NoRequest}]
        /\ row \in Row \cup {NoRow}
    BY DEF DecisionTypeOK
  <1>1. DecisionTypeOK'
    <2>1. request' \in [Requests -> RequestRecord \cup {NoRequest}]
      BY <1>0 DEF RequestRecord, Steps, Kinds, Deciding
    <2> QED BY <2>1 DEF DecisionTypeOK, Deciding
  <1>2. KindInv'
    BY <1>0 DEF KindInv, Deciding, RequestRecord, Row
  <1>3. RequestInv'
    BY <1>0 DEF Newest, KindInv, RequestInv, RowInv, HasRecord, AfterLatest, RequestRecord
  <1>4. RowInv'
    BY <1>0 DEF KindInv, RequestInv, RowInv, HasRecord, RequestRecord
  <1>5. SequentialInv'
    <2> SUFFICES ASSUME ~overlapped'
                 PROVE  (OneAtATime /\ RowTells /\ FinalIsNamed /\ ReadIsCurrent /\ MarkedOrAbout)'
      BY DEF SequentialInv
    <2>0. OneAtATime /\ RowTells /\ FinalIsNamed /\ ReadIsCurrent /\ MarkedOrAbout
      BY DEF SequentialInv
    <2>1. OneAtATime'
      BY <1>0, <2>0 DEF OneAtATime, KindInv, RequestRecord, Deciding
    <2>2. RowTells' /\ FinalIsNamed'
      BY <1>0, <2>0 DEF RowTells, FinalIsNamed, HasRecord
    <2>3. ReadIsCurrent'
      BY <1>0, <2>0 DEF ReadIsCurrent, RequestRecord
    <2>4. MarkedOrAbout'
      BY <1>0, <2>0 DEF MarkedOrAbout, RequestRecord
    <2> QED BY <2>1, <2>2, <2>3, <2>4
  <1>6. GovernedInv'
    BY <1>0 DEF KindInv, GovernedInv, AfterGovern, Deciding, RequestRecord
  <1>7. RecordsKept'
    BY <1>0 DEF RecordsKept, RequestRecord
  <1> QED BY <1>1, <1>2, <1>3, <1>4, <1>5, <1>6, <1>7

LEMMA CheckRowKeepsInv ==
  ASSUME DecisionInv, NEW q \in Requests, CheckRow(q)
  PROVE  DecisionInv'
  <1> USE DecisionAssumption, TargetValues DEF DecisionInv, CheckRow, Serving, Open, Done, Goto, tables, history
  <1>0. /\ request \in [Requests -> RequestRecord \cup {NoRequest}]
        /\ row \in Row \cup {NoRow}
    BY DEF DecisionTypeOK
  <1>1. DecisionTypeOK'
    <2>1. request' \in [Requests -> RequestRecord \cup {NoRequest}]
      BY <1>0 DEF RequestRecord, Steps, Kinds, Deciding
    <2> QED BY <2>1 DEF DecisionTypeOK, Deciding
  <1>2. KindInv'
    BY <1>0 DEF KindInv, Deciding, RequestRecord, Row
  <1>3. RequestInv'
    BY <1>0 DEF KindInv, RequestInv, RowInv, HasRecord, AfterLatest, RequestRecord
  <1>4. RowInv'
    BY <1>0 DEF KindInv, RequestInv, RowInv, HasRecord, RequestRecord
  <1>5. SequentialInv'
    <2> SUFFICES ASSUME ~overlapped'
                 PROVE  (OneAtATime /\ RowTells /\ FinalIsNamed /\ ReadIsCurrent /\ MarkedOrAbout)'
      BY DEF SequentialInv
    <2>0. OneAtATime /\ RowTells /\ FinalIsNamed /\ ReadIsCurrent /\ MarkedOrAbout
      BY DEF SequentialInv
    <2>1. OneAtATime'
      BY <1>0, <2>0 DEF OneAtATime, KindInv, RequestRecord, Deciding
    <2>2. RowTells' /\ FinalIsNamed'
      BY <1>0, <2>0 DEF RowTells, FinalIsNamed, HasRecord
    <2>3. ReadIsCurrent'
      BY <1>0, <2>0 DEF ReadIsCurrent, RequestRecord
    <2>4. MarkedOrAbout'
      BY <1>0, <2>0 DEF MarkedOrAbout, RequestRecord
    <2> QED BY <2>1, <2>2, <2>3, <2>4
  <1>6. GovernedInv'
    BY <1>0 DEF KindInv, GovernedInv, AfterGovern, Deciding, RequestRecord
  <1>7. RecordsKept'
    BY <1>0 DEF RecordsKept, RequestRecord
  <1> QED BY <1>1, <1>2, <1>3, <1>4, <1>5, <1>6, <1>7

LEMMA CheckMarkKeepsInv ==
  ASSUME DecisionInv, NEW q \in Requests, CheckMark(q)
  PROVE  DecisionInv'
  <1> USE DecisionAssumption, TargetValues DEF DecisionInv, CheckMark, Serving, Open, Done, tables, history
  <1>0. /\ request \in [Requests -> RequestRecord \cup {NoRequest}]
        /\ row \in Row \cup {NoRow}
    BY DEF DecisionTypeOK
  <1>1. DecisionTypeOK'
    <2>1. request' \in [Requests -> RequestRecord \cup {NoRequest}]
      BY <1>0 DEF RequestRecord, Steps, Kinds, Deciding
    <2> QED BY <2>1 DEF DecisionTypeOK, Deciding
  <1>2. KindInv'
    BY <1>0 DEF KindInv, Deciding, RequestRecord, Row
  <1>3. RequestInv'
    BY <1>0 DEF KindInv, RequestInv, RowInv, HasRecord, AfterLatest, RequestRecord
  <1>4. RowInv'
    BY <1>0 DEF KindInv, RequestInv, RowInv, HasRecord, RequestRecord
  <1>5. SequentialInv'
    <2> SUFFICES ASSUME ~overlapped'
                 PROVE  (OneAtATime /\ RowTells /\ FinalIsNamed /\ ReadIsCurrent /\ MarkedOrAbout)'
      BY DEF SequentialInv
    <2>0. OneAtATime /\ RowTells /\ FinalIsNamed /\ ReadIsCurrent /\ MarkedOrAbout
      BY DEF SequentialInv
    <2>1. OneAtATime'
      BY <1>0, <2>0 DEF OneAtATime, KindInv, RequestRecord, Deciding
    <2>2. RowTells' /\ FinalIsNamed'
      BY <1>0, <2>0 DEF RowTells, FinalIsNamed, HasRecord
    <2>3. ReadIsCurrent'
      BY <1>0, <2>0 DEF ReadIsCurrent, RequestRecord
    <2>4. MarkedOrAbout'
      BY <1>0, <2>0 DEF MarkedOrAbout, RequestRecord
    <2> QED BY <2>1, <2>2, <2>3, <2>4
  <1>6. GovernedInv'
    BY <1>0 DEF KindInv, GovernedInv, AfterGovern, Deciding, RequestRecord
  <1>7. RecordsKept'
    BY <1>0 DEF RecordsKept, RequestRecord
  <1> QED BY <1>1, <1>2, <1>3, <1>4, <1>5, <1>6, <1>7

LEMMA GovernKeepsInv ==
  ASSUME DecisionInv, NEW q \in Requests, Govern(q)
  PROVE  DecisionInv'
  <1> USE DecisionAssumption, TargetValues DEF DecisionInv, Govern, Serving, Open, Goto
  <1>0. /\ request \in [Requests -> RequestRecord \cup {NoRequest}]
        /\ row \in Row \cup {NoRow}
    BY DEF DecisionTypeOK
  <1>1. DecisionTypeOK'
    <2>1. request' \in [Requests -> RequestRecord \cup {NoRequest}]
      BY <1>0 DEF RequestRecord, Steps
    <2>2. governed' \subseteq Deciding /\ lost' \in BOOLEAN
      BY DEF DecisionTypeOK, KindInv
    <2> QED BY <2>1, <2>2 DEF DecisionTypeOK
  <1>2. KindInv'
    BY <1>0 DEF KindInv, Deciding, RequestRecord, Row
  <1>3. RequestInv'
    BY <1>0 DEF KindInv, RequestInv, RowInv, HasRecord, AfterLatest, RequestRecord
  <1>4. RowInv'
    BY <1>0 DEF KindInv, RequestInv, RowInv, HasRecord, RequestRecord
  <1>5. SequentialInv'
    <2> SUFFICES ASSUME ~overlapped'
                 PROVE  (OneAtATime /\ RowTells /\ FinalIsNamed /\ ReadIsCurrent /\ MarkedOrAbout)'
      BY DEF SequentialInv
    <2>0. OneAtATime /\ RowTells /\ FinalIsNamed /\ ReadIsCurrent /\ MarkedOrAbout
      BY DEF SequentialInv
    <2>1. OneAtATime'
      BY <1>0, <2>0 DEF OneAtATime, KindInv, RequestRecord, Deciding
    <2>2. RowTells' /\ FinalIsNamed'
      BY <1>0, <2>0 DEF RowTells, FinalIsNamed, HasRecord
    <2>3. ReadIsCurrent'
      BY <1>0, <2>0 DEF ReadIsCurrent, RequestRecord
    <2>4. MarkedOrAbout'
      BY <1>0, <2>0 DEF MarkedOrAbout, RequestRecord
    <2> QED BY <2>1, <2>2, <2>3, <2>4
  <1>6. GovernedInv'
    BY <1>0 DEF KindInv, GovernedInv, AfterGovern, Deciding, RequestRecord
  <1>7. RecordsKept'
    BY <1>0 DEF RecordsKept, RequestRecord
  <1> QED BY <1>1, <1>2, <1>3, <1>4, <1>5, <1>6, <1>7

LEMMA ReadRowKeepsInv ==
  ASSUME DecisionInv, NEW q \in Requests, ReadRow(q)
  PROVE  DecisionInv'
  <1> USE DecisionAssumption, TargetValues DEF DecisionInv, ReadRow, Proceed, Serving, Open, Done, Goto, tables, history
  <1>0. /\ request \in [Requests -> RequestRecord \cup {NoRequest}]
        /\ row \in Row \cup {NoRow}
    BY DEF DecisionTypeOK
  <1>1. DecisionTypeOK'
    <2>1. request' \in [Requests -> RequestRecord \cup {NoRequest}]
      BY <1>0 DEF RequestRecord, Steps, Kinds, Deciding
    <2> QED BY <2>1 DEF DecisionTypeOK, Deciding
  <1>2. KindInv'
    BY <1>0 DEF KindInv, Deciding, RequestRecord, Row
  <1>3. RequestInv'
    BY <1>0 DEF KindInv, RequestInv, RowInv, HasRecord, AfterLatest, RequestRecord
  <1>4. RowInv'
    BY <1>0 DEF KindInv, RequestInv, RowInv, HasRecord, RequestRecord
  <1>5. SequentialInv'
    <2> SUFFICES ASSUME ~overlapped'
                 PROVE  (OneAtATime /\ RowTells /\ FinalIsNamed /\ ReadIsCurrent /\ MarkedOrAbout)'
      BY DEF SequentialInv
    <2>0. OneAtATime /\ RowTells /\ FinalIsNamed /\ ReadIsCurrent /\ MarkedOrAbout
      BY DEF SequentialInv
    <2>1. OneAtATime'
      BY <1>0, <2>0 DEF OneAtATime, KindInv, RequestRecord, Deciding
    <2>2. RowTells' /\ FinalIsNamed'
      BY <1>0, <2>0 DEF RowTells, FinalIsNamed, HasRecord
    <2>3. ReadIsCurrent'
      BY <1>0, <2>0 DEF ReadIsCurrent, RequestRecord
    <2>4. MarkedOrAbout'
      BY <1>0, <2>0 DEF MarkedOrAbout, RequestRecord
    <2> QED BY <2>1, <2>2, <2>3, <2>4
  <1>6. GovernedInv'
    BY <1>0 DEF KindInv, GovernedInv, AfterGovern, Deciding, RequestRecord
  <1>7. RecordsKept'
    BY <1>0 DEF RecordsKept, RequestRecord
  <1> QED BY <1>1, <1>2, <1>3, <1>4, <1>5, <1>6, <1>7

LEMMA CreateRowKeepsInv ==
  ASSUME DecisionInv, NEW q \in Requests, CreateRow(q)
  PROVE  DecisionInv'
  <1> USE DecisionAssumption, TargetValues DEF DecisionInv, CreateRow, Proceed, Serving, Open, Done, history
  <1>0. /\ request \in [Requests -> RequestRecord \cup {NoRequest}]
        /\ row \in Row \cup {NoRow}
    BY DEF DecisionTypeOK
  <1>a. row = NoRow => row' = [state |-> "DRAFT", final |-> FALSE, locked |-> FALSE, snapshot |-> 0]
                    /\ row' \in Row /\ row' # NoRow
    <2>1. [state |-> "DRAFT", final |-> FALSE, locked |-> FALSE, snapshot |-> 0] \in Row
      BY DEF Row, States
    <2>2. row = NoRow => row' = [state |-> "DRAFT", final |-> FALSE, locked |-> FALSE, snapshot |-> 0]
      OBVIOUS
    <2> QED BY <2>1, <2>2
  <1>1. DecisionTypeOK'
    <2>1. request' \in [Requests -> RequestRecord \cup {NoRequest}]
      BY <1>0 DEF RequestRecord, Steps, States
    <2> QED BY <1>a, <2>1 DEF DecisionTypeOK
  <1>2. KindInv'
    BY <1>0, <1>a DEF KindInv, Deciding, RequestRecord, Row
  <1>3. RequestInv'
    BY <1>0 DEF KindInv, RequestInv, RowInv, HasRecord, AfterLatest, RequestRecord
  <1>4. RowInv'
    BY <1>0 DEF KindInv, RequestInv, RowInv, HasRecord, RequestRecord
  <1>5. SequentialInv'
    <2> SUFFICES ASSUME ~overlapped'
                 PROVE  (OneAtATime /\ RowTells /\ FinalIsNamed /\ ReadIsCurrent /\ MarkedOrAbout)'
      BY DEF SequentialInv
    <2>0. OneAtATime /\ RowTells /\ FinalIsNamed /\ ReadIsCurrent /\ MarkedOrAbout
      BY DEF SequentialInv
    <2>1. OneAtATime'
      BY <1>0, <1>a, <2>0 DEF OneAtATime, KindInv, RequestRecord, Deciding
    <2>2. RowTells' /\ FinalIsNamed'
      BY <1>0, <1>a, <2>0 DEF RowTells, FinalIsNamed, HasRecord
    <2>3. ReadIsCurrent'
      BY <1>0, <1>a, <2>0 DEF ReadIsCurrent, KindInv, RequestRecord
    <2>4. MarkedOrAbout'
      BY <1>0, <1>a, <2>0 DEF MarkedOrAbout, RequestRecord
    <2> QED BY <2>1, <2>2, <2>3, <2>4
  <1>6. GovernedInv'
    BY <1>0 DEF KindInv, GovernedInv, AfterGovern, Deciding, RequestRecord
  <1>7. RecordsKept'
    BY <1>0 DEF RecordsKept, RequestRecord
  <1> QED BY <1>1, <1>2, <1>3, <1>4, <1>5, <1>6, <1>7

LEMMA UpdateRowKeepsInv ==
  ASSUME DecisionInv, NEW q \in Requests, UpdateRow(q)
  PROVE  DecisionInv'
  <1> USE DecisionAssumption, TargetValues DEF DecisionInv, Open, Serving
  <1>0. /\ request \in [Requests -> RequestRecord \cup {NoRequest}]
        /\ row \in Row \cup {NoRow}
    BY DEF DecisionTypeOK
  <1>a. /\ request[q] \in RequestRecord /\ request[q].step = "update"
        /\ request[q].kind \in Deciding
        /\ row \in Row /\ row # NoRow
        /\ request' = [request EXCEPT ![q].step = "audit"]
        /\ moved' = moved \cup {<<request[q].state, Target[request[q].kind]>>}
        /\ UNCHANGED <<snapshots, governed, transitions, lost, overlapped>>
    BY <1>0 DEF UpdateRow, Goto, KindInv
  <1>b. /\ request[q].kind = "review" => Target[request[q].kind] = "REVIEWED"
        /\ request[q].kind = "finalise" => Target[request[q].kind] = "FINALISED"
        /\ request[q].kind = "lock" => Target[request[q].kind] = "LOCKED"
    OBVIOUS
  <1>c. /\ row' # NoRow /\ row' \in Row
        /\ row'.state = Target[request[q].kind]
        /\ row'.final <=> row.final \/ request[q].kind = "finalise"
        /\ row'.locked <=> row.locked \/ request[q].kind = "lock"
        /\ row'.snapshot = IF request[q].kind = "finalise" THEN request[q].snapshot ELSE row.snapshot
    <2>1. row' = [state |-> Target[request[q].kind],
                  final |-> row.final \/ Target[request[q].kind] = "FINALISED",
                  locked |-> row.locked \/ Target[request[q].kind] = "LOCKED",
                  snapshot |-> IF Target[request[q].kind] = "FINALISED"
                               THEN request[q].snapshot ELSE row.snapshot]
      BY DEF UpdateRow, Written
    <2>2. row' \in Row
      BY <1>a, <1>b, <2>1 DEF Row, States, RequestRecord, Deciding
    <2> QED BY <1>a, <1>b, <2>1, <2>2 DEF Deciding
  <1>d. /\ \A p \in Requests : p # q => request'[p] = request[p]
        /\ request'[q] = [request[q] EXCEPT !.step = "audit"]
        /\ request'[q] \in RequestRecord /\ request'[q] # NoRequest
        /\ request'[q].kind = request[q].kind /\ request'[q].state = request[q].state
        /\ request'[q].snapshot = request[q].snapshot /\ request'[q].step = "audit"
    BY <1>0, <1>a DEF RequestRecord, Steps
  <1>1. DecisionTypeOK'
    <2>1. request' \in [Requests -> RequestRecord \cup {NoRequest}]
      BY <1>0, <1>a, <1>d
    <2>2. <<request[q].state, Target[request[q].kind]>> \in States \X States
      BY <1>a, <1>b DEF RequestRecord, Deciding, States
    <2> QED BY <1>a, <1>c, <2>1, <2>2 DEF DecisionTypeOK
  <1>2. KindInv'
    BY <1>a, <1>c, <1>d DEF KindInv
  <1>3. RequestInv'
    <2>1. request[q].kind = "finalise" => request[q].snapshot \in DOMAIN snapshots
      BY <1>a DEF RequestInv, AfterLatest
    <2>2. HasRecord => HasRecord'
      BY <1>a, <1>c, <2>1 DEF HasRecord
    <2> QED BY <1>a, <1>d, <2>1, <2>2 DEF RequestInv, AfterLatest
  <1>4. RowInv'
    <2>1. request[q].kind = "finalise" => request[q].snapshot \in DOMAIN snapshots
      BY <1>a DEF RequestInv, AfterLatest
    <2>2. request[q].kind = "lock"
            => row.final /\ row.snapshot \in DOMAIN snapshots
               /\ \E s \in DOMAIN snapshots : snapshots[s].final
      BY <1>a DEF RequestInv, HasRecord
    <2>3. row'.state \in {"FINALISED", "LOCKED"} => request[q].kind \in {"finalise", "lock"}
      BY <1>a, <1>b, <1>c DEF Deciding
    <2> QED BY <1>a, <1>b, <1>c, <2>1, <2>2, <2>3 DEF RowInv, Deciding
  <1>5. SequentialInv'
    <2> SUFFICES ASSUME ~overlapped'
                 PROVE  (OneAtATime /\ RowTells /\ FinalIsNamed /\ ReadIsCurrent /\ MarkedOrAbout)'
      BY DEF SequentialInv
    <2>0. /\ OneAtATime /\ RowTells /\ FinalIsNamed /\ ReadIsCurrent /\ MarkedOrAbout
          /\ request[q].state = row.state
          /\ CanTransition(row.state, Target[request[q].kind])
      BY <1>a DEF SequentialInv, ReadIsCurrent, KindInv
    <2>1. OneAtATime'
      BY <1>a, <1>d, <2>0 DEF OneAtATime
    <2>2. /\ request[q].kind = "review" => row.state = "DRAFT"
          /\ request[q].kind = "finalise" => row.state \in {"DRAFT", "REVIEWED"}
          /\ request[q].kind = "lock" => row.state = "FINALISED"
      BY <1>b, <2>0 DEF CanTransition
    <2>3. RowTells'
      <3>1. request[q].kind # "lock" => ~row.final /\ ~row.locked
        BY <1>a, <2>0, <2>2 DEF RowTells, Deciding
      <3>2. request[q].kind = "lock" => row.final /\ snapshots[row.snapshot].final
        BY <1>a, <2>0 DEF RequestInv, HasRecord, FinalIsNamed
      <3> QED BY <1>a, <1>b, <1>c, <3>1, <3>2 DEF RowTells, Deciding
    <2>4. FinalIsNamed'
      <3>1. request[q].kind # "lock" => \A s \in DOMAIN snapshots : ~snapshots[s].final
        BY <1>a, <2>0, <2>2 DEF FinalIsNamed, HasRecord, RowTells, Deciding
      <3>2. request[q].kind = "lock" => HasRecord' /\ row'.snapshot = row.snapshot
        BY <1>a, <1>c DEF RequestInv, HasRecord
      <3> QED BY <1>a, <2>0, <3>1, <3>2 DEF FinalIsNamed
    <2>5. ReadIsCurrent'
      <3>1. \A p \in Requests : p # q /\ Open(p) => request[p].kind \notin Deciding
        BY <1>a, <2>0 DEF OneAtATime
      <3>2. \A p \in Requests : p # q /\ Open(p) =>
              request[p].step # "update" /\ request[p].kind # "finalise"
        BY <3>1 DEF KindInv, Deciding
      <3> QED BY <1>a, <1>b, <1>c, <1>d, <3>2 DEF ReadIsCurrent
    <2>6. MarkedOrAbout'
      BY <1>a, <1>b, <1>c, <1>d DEF MarkedOrAbout, Deciding
    <2> QED BY <2>1, <2>3, <2>4, <2>5, <2>6
  <1>6. GovernedInv'
    BY <1>a, <1>d DEF GovernedInv, AfterGovern
  <1>7. RecordsKept'
    <2> DEFINE mine == <<request[q].state, Target[request[q].kind]>>
    <2>1. lost \/ \E k \in governed : Target[k] = mine[2]
      BY <1>a DEF GovernedInv, AfterGovern
    <2>2. Serving(q, "audit")' /\ request'[q].state = mine[1] /\ Target[request'[q].kind] = mine[2]
      BY <1>d
    <2>3. \A p \in Requests : Serving(p, "audit") => p # q /\ request'[p] = request[p]
      BY <1>a, <1>d
    <2> HIDE DEF mine
    <2>4. moved' = moved \cup {mine}
      BY <1>a DEF mine
    <2> QED BY <1>a, <2>1, <2>2, <2>3, <2>4 DEF RecordsKept
  <1> QED BY <1>1, <1>2, <1>3, <1>4, <1>5, <1>6, <1>7

LEMMA AuditTransitionKeepsInv ==
  ASSUME DecisionInv, NEW q \in Requests, AuditTransition(q)
  PROVE  DecisionInv'
  <1> USE DecisionAssumption, TargetValues DEF DecisionInv, AuditTransition, Serving, Open, Goto, Done
  <1>0. /\ request \in [Requests -> RequestRecord \cup {NoRequest}]
        /\ row \in Row \cup {NoRow}
    BY DEF DecisionTypeOK
  <1>1. DecisionTypeOK'
    <2>1. request' \in [Requests -> RequestRecord \cup {NoRequest}]
      BY <1>0 DEF RequestRecord, Steps
    <2>2. <<request[q].state, Target[request[q].kind]>> \in States \X States
      BY <1>0 DEF KindInv, RequestRecord, Deciding, States
    <2>3. transitions' \subseteq States \X States /\ lost' \in BOOLEAN
      BY <2>2 DEF DecisionTypeOK
    <2> QED BY <2>1, <2>3 DEF DecisionTypeOK
  <1>2. KindInv'
    BY <1>0 DEF KindInv, Deciding, RequestRecord, Row
  <1>3. RequestInv'
    BY <1>0 DEF KindInv, RequestInv, RowInv, HasRecord, AfterLatest, RequestRecord
  <1>4. RowInv'
    BY <1>0 DEF KindInv, RequestInv, RowInv, HasRecord, RequestRecord
  <1>5. SequentialInv'
    <2> SUFFICES ASSUME ~overlapped'
                 PROVE  (OneAtATime /\ RowTells /\ FinalIsNamed /\ ReadIsCurrent /\ MarkedOrAbout)'
      BY DEF SequentialInv
    <2>0. OneAtATime /\ RowTells /\ FinalIsNamed /\ ReadIsCurrent /\ MarkedOrAbout
      BY DEF SequentialInv
    <2>1. OneAtATime'
      BY <1>0, <2>0 DEF OneAtATime, KindInv, RequestRecord, Deciding
    <2>2. RowTells' /\ FinalIsNamed'
      BY <1>0, <2>0 DEF RowTells, FinalIsNamed, HasRecord
    <2>3. ReadIsCurrent'
      BY <1>0, <2>0 DEF ReadIsCurrent, RequestRecord
    <2>4. MarkedOrAbout'
      <3>1. /\ lost => lost'
            /\ \A p \in Requests : p # q => request'[p] = request[p]
        BY <1>0
      <3>2. request[q].kind = "finalise" => Open(q)' /\ request'[q].kind = "finalise"
                                           /\ request'[q].step = "mark"
        BY <1>0 DEF RequestRecord, Steps
      <3> QED BY <2>0, <3>1, <3>2 DEF MarkedOrAbout
    <2> QED BY <2>1, <2>2, <2>3, <2>4
  <1>6. GovernedInv'
    BY <1>0 DEF KindInv, GovernedInv, AfterGovern, Deciding, RequestRecord
  <1>7. RecordsKept'
    <2> SUFFICES ASSUME ~lost', NEW m \in moved
                 PROVE  /\ \E k \in governed : Target[k] = m[2]
                        /\ \/ m \in transitions'
                           \/ \E p \in Requests : Serving(p, "audit")' /\ request'[p].state = m[1]
                                                     /\ Target[request'[p].kind] = m[2]
      BY DEF RecordsKept
    <2>1. /\ ~lost
          /\ transitions' = transitions \cup {<<request[q].state, Target[request[q].kind]>>}
          /\ \A p \in Requests : p # q => request'[p] = request[p]
      BY <1>0 DEF DecisionTypeOK
    <2>2. m = <<m[1], m[2]>>
      BY DEF DecisionTypeOK
    <2> QED BY <2>1, <2>2 DEF RecordsKept
  <1> QED BY <1>1, <1>2, <1>3, <1>4, <1>5, <1>6, <1>7

LEMMA MarkKeepsInv ==
  ASSUME DecisionInv, NEW q \in Requests, Mark(q)
  PROVE  DecisionInv'
  <1> USE DecisionAssumption, TargetValues DEF DecisionInv, Open, Serving
  <1>0. /\ request \in [Requests -> RequestRecord \cup {NoRequest}]
        /\ row \in Row \cup {NoRow}
    BY DEF DecisionTypeOK
  <1>a. /\ request[q] # NoRequest /\ request[q].step = "mark" /\ request[q].kind = "finalise"
        /\ request' = [request EXCEPT ![q] = NoRequest]
        /\ UNCHANGED <<row, governed, transitions, moved, lost, overlapped>>
    BY DEF Mark, Done, history, KindInv
  <1>b. /\ snapshots' \in Seq([version : Nat, final : BOOLEAN])
        /\ DOMAIN snapshots' = DOMAIN snapshots
        /\ request[q].snapshot \in DOMAIN snapshots
        /\ snapshots'[request[q].snapshot].final
        /\ \A s \in DOMAIN snapshots : s # request[q].snapshot => snapshots'[s] = snapshots[s]
    <2>1. request[q].snapshot \in DOMAIN snapshots
      BY <1>a DEF RequestInv, AfterLatest
    <2>2. snapshots \in Seq([version : Nat, final : BOOLEAN])
      BY DEF DecisionTypeOK
    <2>3. snapshots' = [snapshots EXCEPT ![request[q].snapshot].final = TRUE]
      BY DEF Mark
    <2> QED BY <2>1, <2>2, <2>3, MarkedIsFinal
  <1>c. request'[q] = NoRequest /\ \A p \in Requests : p # q => request'[p] = request[p]
    BY <1>0, <1>a
  <1>1. DecisionTypeOK'
    <2>1. request' \in [Requests -> RequestRecord \cup {NoRequest}]
      BY <1>0, <1>a
    <2> QED BY <1>a, <1>b, <2>1 DEF DecisionTypeOK
  <1>2. KindInv'
    BY <1>a, <1>c DEF KindInv
  <1>3. RequestInv'
    BY <1>a, <1>b, <1>c DEF RequestInv, HasRecord
  <1>4. RowInv'
    BY <1>a, <1>b DEF RowInv
  <1>5. SequentialInv'
    <2> SUFFICES ASSUME ~overlapped'
                 PROVE  (OneAtATime /\ RowTells /\ FinalIsNamed /\ ReadIsCurrent /\ MarkedOrAbout)'
      BY DEF SequentialInv
    <2>0. /\ OneAtATime /\ RowTells /\ FinalIsNamed /\ ReadIsCurrent
          /\ row # NoRow /\ row.state = "FINALISED" /\ row.snapshot = request[q].snapshot
      BY <1>a DEF SequentialInv, ReadIsCurrent
    <2>1. OneAtATime' /\ ReadIsCurrent'
      BY <1>a, <1>c, <2>0 DEF OneAtATime, ReadIsCurrent
    <2>2. RowTells' /\ MarkedOrAbout'
      BY <1>a, <1>b, <2>0 DEF RowTells, MarkedOrAbout
    <2>3. HasRecord'
      BY <1>a, <1>b, <2>0 DEF HasRecord, RowInv
    <2>4. FinalIsNamed'
      BY <1>a, <1>b, <2>0, <2>3 DEF FinalIsNamed
    <2> QED BY <2>1, <2>2, <2>3, <2>4
  <1>6. GovernedInv'
    BY <1>a, <1>c DEF GovernedInv
  <1>7. RecordsKept'
    BY <1>a, <1>c DEF RecordsKept
  <1> QED BY <1>1, <1>2, <1>3, <1>4, <1>5, <1>6, <1>7

LEMMA FailKeepsInv ==
  ASSUME DecisionInv, NEW q \in Requests, Fail(q)
  PROVE  DecisionInv'
  <1> USE DecisionAssumption, TargetValues DEF DecisionInv, Fail, Open, Done, tables
  <1>0. /\ request \in [Requests -> RequestRecord \cup {NoRequest}]
        /\ row \in Row \cup {NoRow}
    BY DEF DecisionTypeOK
  <1>a. /\ request[q] # NoRequest
        /\ request'[q] = NoRequest /\ \A p \in Requests : p # q => request'[p] = request[p]
        /\ lost => lost'
        /\ request[q].step \in {"audit", "mark"} => lost'
        /\ UNCHANGED <<snapshots, row, governed, transitions, moved, overlapped>>
    BY <1>0
  <1>1. DecisionTypeOK'
    <2>1. request' \in [Requests -> RequestRecord \cup {NoRequest}]
      BY <1>0 DEF RequestRecord, Steps, Kinds, Deciding
    <2> QED BY <2>1 DEF DecisionTypeOK, Deciding
  <1>2. KindInv'
    BY <1>0 DEF KindInv, Deciding, RequestRecord, Row
  <1>3. RequestInv'
    BY <1>0 DEF KindInv, RequestInv, RowInv, HasRecord, AfterLatest, RequestRecord
  <1>4. RowInv'
    BY <1>0 DEF KindInv, RequestInv, RowInv, HasRecord, RequestRecord
  <1>5. SequentialInv'
    <2> SUFFICES ASSUME ~overlapped'
                 PROVE  (OneAtATime /\ RowTells /\ FinalIsNamed /\ ReadIsCurrent /\ MarkedOrAbout)'
      BY DEF SequentialInv
    <2>0. OneAtATime /\ RowTells /\ FinalIsNamed /\ ReadIsCurrent /\ MarkedOrAbout
      BY DEF SequentialInv
    <2>1. OneAtATime'
      BY <1>0, <2>0 DEF OneAtATime, KindInv, RequestRecord, Deciding
    <2>2. RowTells' /\ FinalIsNamed'
      BY <1>0, <2>0 DEF RowTells, FinalIsNamed, HasRecord
    <2>3. ReadIsCurrent'
      <3> HIDE DEF Fail, Done, tables
      <3> QED BY <1>a, <2>0 DEF ReadIsCurrent, Serving
    <2>4. MarkedOrAbout'
      BY <1>0, <2>0 DEF MarkedOrAbout, RequestRecord
    <2> QED BY <2>1, <2>2, <2>3, <2>4
  <1>6. GovernedInv'
    BY <1>0 DEF KindInv, GovernedInv, AfterGovern, Deciding, RequestRecord
  <1>7. RecordsKept'
    <2> HIDE DEF Fail, Done, tables
    <2> QED BY <1>a DEF RecordsKept, Serving
  <1> QED BY <1>1, <1>2, <1>3, <1>4, <1>5, <1>6, <1>7

LEMMA NextKeepsInv == DecisionInv /\ [DecisionNext]_vars => DecisionInv'
  <1> SUFFICES ASSUME DecisionInv, [DecisionNext]_vars PROVE DecisionInv'
    OBVIOUS
  <1>1. ASSUME NEW q \in Requests, NEW kind \in Kinds, Begin(q, kind) PROVE DecisionInv'
    BY <1>1, BeginKeepsInv
  <1>2. ASSUME NEW q \in Requests, Serve(q) PROVE DecisionInv'
    BY <1>2, ReadVersionKeepsInv, InsertSnapshotKeepsInv, ReadLatestKeepsInv, CheckRowKeepsInv,
       CheckMarkKeepsInv, GovernKeepsInv, ReadRowKeepsInv, CreateRowKeepsInv, UpdateRowKeepsInv,
       AuditTransitionKeepsInv, MarkKeepsInv
       DEF Serve
  <1>3. ASSUME NEW q \in Requests, Fail(q) PROVE DecisionInv'
    BY <1>3, FailKeepsInv
  <1>4. CASE UNCHANGED vars
    BY <1>4
    DEF vars, DecisionInv, DecisionTypeOK, KindInv, RequestInv, RowInv, SequentialInv, OneAtATime,
        RowTells, FinalIsNamed, ReadIsCurrent, MarkedOrAbout, GovernedInv, RecordsKept, HasRecord,
        Open, Serving
  <1> QED BY <1>1, <1>2, <1>3, <1>4 DEF DecisionNext

(* The inductive invariant holds throughout.                                 *)
THEOREM DecisionInvariant == DecisionSpec => []DecisionInv
  BY InitDecisionInv, NextKeepsInv, PTL DEF DecisionSpec

-----------------------------------------------------------------------------

(* The tables and the requests keep their types (decision-lifecycle.ts).     *)
THEOREM DecisionTypeCorrect == DecisionSpec => []DecisionTypeOK
  <1>1. DecisionInv => DecisionTypeOK
    BY DEF DecisionInv
  <1> QED BY <1>1, DecisionInvariant, PTL

(* Whatever overlaps, fails or restarts, a decision that lockDecision locked *)
(* names a snapshot, and a final snapshot exists.                            *)
THEOREM DecisionLockedHasRecord == DecisionSpec => []LockedHasRecord
  <1>1. DecisionInv => LockedHasRecord
    BY DEF DecisionInv, RowInv, LockedHasRecord
  <1> QED BY <1>1, DecisionInvariant, PTL

(* Requests to decide that come one after the other leave one final snapshot *)
(* at most, the one the lifecycle row names.                                 *)
THEOREM DecisionOneLegalRecord == DecisionSpec => []OneLegalRecord
  <1>1. DecisionInv => OneLegalRecord
    BY DEF DecisionInv, SequentialInv, FinalIsNamed, RowTells, HasRecord, OneLegalRecord
  <1> QED BY <1>1, DecisionInvariant, PTL

(* "LOCKED: [], // Terminal state" fails (LockIsTerminal) in one way only:   *)
(* whatever is looked up, saved or broken off, a locked decision leaves that *)
(* state only where requests to decide have overlapped.                      *)
COROLLARY LockEndsUnlessOverlapped == DecisionSpec => [](~overlapped => LockIsTerminal)
  <1>1. OneLegalRecord => (~overlapped => LockIsTerminal)
    BY DEF OneLegalRecord, LockIsTerminal
  <1> QED BY <1>1, DecisionOneLegalRecord, PTL

(* A finalised decision of which no record is missing passes the conditions  *)
(* of validateLockConditions.                                                *)
THEOREM DecisionCanBeLocked == DecisionSpec => []FinalisedCanBeLocked
  <1>1. DecisionInv => FinalisedCanBeLocked
    BY DEF DecisionInv, SequentialInv, MarkedOrAbout, FinalisedCanBeLocked, Deciding
  <1> QED BY <1>1, DecisionInvariant, PTL

(* Every transition of transitionLifecycle is in the governance log unless   *)
(* an error or a restart took the record.                                    *)
THEOREM DecisionRecordsKept == DecisionSpec => []RecordsKept
  <1>1. DecisionInv => RecordsKept
    BY DEF DecisionInv
  <1> QED BY <1>1, DecisionInvariant, PTL

Stands ==
  ~overlapped' /\ row # NoRow /\ row.final
    => /\ row'.final /\ row'.snapshot = row.snapshot
       /\ row'.state = row.state \/ (row.state = "FINALISED" /\ row'.state = "LOCKED")

LEMMA UpdateStands ==
  ASSUME DecisionInv, NEW q \in Requests, UpdateRow(q)
  PROVE  Stands
  <1> SUFFICES ASSUME ~overlapped, row # NoRow, row.final PROVE Stands
    BY DEF UpdateRow, Stands
  <1>1. Open(q) /\ request[q].step = "update"
    BY DEF UpdateRow, Serving
  <1>2. /\ row.state \in {"FINALISED", "LOCKED"} /\ request[q].state = row.state
        /\ request[q].kind \in Deciding /\ CanTransition(row.state, Target[request[q].kind])
    BY <1>1 DEF DecisionInv, SequentialInv, RowTells, ReadIsCurrent, KindInv, Serving
  <1>3. row.state = "FINALISED" /\ Target[request[q].kind] = "LOCKED"
    BY <1>2 DEF CanTransition
  <1>4. row' = [state |-> "LOCKED", final |-> row.final, locked |-> row.locked \/ TRUE,
                snapshot |-> row.snapshot]
    <2>1. row.final \in BOOLEAN
      BY DEF DecisionInv, DecisionTypeOK, Row
    <2> QED BY <1>3, <2>1 DEF UpdateRow, Written
  <1> QED BY <1>3, <1>4 DEF Stands

(* As long as requests to decide do not overlap, no step of any request      *)
(* replaces what was finalised.                                              *)
THEOREM DecisionKept == DecisionSpec => DecisionStands
  <1>1. DecisionInv /\ [DecisionNext]_vars => [Stands]_vars
    <2> SUFFICES ASSUME DecisionInv, DecisionNext PROVE Stands
      OBVIOUS
    <2>1. ASSUME NEW q \in Requests, UpdateRow(q) PROVE Stands
      BY <2>1, UpdateStands
    <2>2. CASE row # NoRow => row' = row
      BY <2>2 DEF Stands
    <2>3. ASSUME NEW q \in Requests, CreateRow(q) PROVE row # NoRow => row' = row
      BY <2>3 DEF CreateRow
    <2>4. ASSUME NEW q \in Requests, Serve(q), ~UpdateRow(q), ~CreateRow(q) PROVE row' = row
      BY <2>4 DEF Serve, ReadVersion, InsertSnapshot, ReadLatest, CheckRow, CheckMark, Govern,
                  ReadRow, AuditTransition, Mark, tables
    <2>5. PICK q \in Requests : (\E kind \in Kinds : Begin(q, kind)) \/ Serve(q) \/ Fail(q)
      BY DEF DecisionNext
    <2>6. CASE UpdateRow(q)
      BY <2>1, <2>6
    <2>7. CASE ~UpdateRow(q)
      <3>1. row # NoRow => row' = row
        <4>1. CASE Serve(q)
          BY <2>3, <2>4, <2>7, <4>1
        <4>2. CASE Fail(q) \/ \E kind \in Kinds : Begin(q, kind)
          BY <4>2 DEF Begin, Fail, tables
        <4> QED BY <2>5, <4>1, <4>2
      <3> QED BY <2>2, <3>1
    <2> QED BY <2>6, <2>7
  <1> QED BY <1>1, DecisionInvariant, PTL DEF DecisionSpec, DecisionStands, Stands

-----------------------------------------------------------------------------
(* The record, with no condition on what overlaps.                           *)

(* Nothing is taken from the record: snapshots keep their place, their       *)
(* version and their mark, entries of the log and the row stay, and the row  *)
(* does not lose its flags.                                                  *)
RecordGrows ==
  /\ Len(snapshots) <= Len(snapshots')
  /\ \A s \in DOMAIN snapshots :
       /\ snapshots'[s].version = snapshots[s].version
       /\ snapshots[s].final => snapshots'[s].final
  /\ governed \subseteq governed' /\ transitions \subseteq transitions'
  /\ row # NoRow => /\ row' # NoRow
                    /\ row.final => row'.final
                    /\ row.locked => row'.locked

(* What a request has written or read of the record is still so. *)
MarkInv ==
  /\ \A q \in Requests :
       Open(q) /\ request[q].kind = "finalise" /\ request[q].step \in {"audit", "mark"}
         => row # NoRow /\ row.final
  /\ \A s \in DOMAIN snapshots : snapshots[s].final => row # NoRow /\ row.final

VersionsFollow ==
  \A s \in DOMAIN snapshots :
    \/ snapshots[s].version = 1
    \/ \E t \in DOMAIN snapshots : t < s /\ snapshots[t].version + 1 = snapshots[s].version

VersionInv ==
  /\ VersionsFollow
  /\ \A q \in Requests : Serving(q, "insert") =>
       \/ request[q].version = 1
       \/ \E t \in DOMAIN snapshots : snapshots[t].version + 1 = request[q].version

LEMMA InsertAppends ==
  ASSUME DecisionInv, NEW q \in Requests, InsertSnapshot(q)
  PROVE  /\ DOMAIN snapshots = 1 .. Len(snapshots)
         /\ Len(snapshots') = Len(snapshots) + 1 /\ Len(snapshots) \in Nat
         /\ DOMAIN snapshots' = 1 .. Len(snapshots) + 1
         /\ \A s \in DOMAIN snapshots : snapshots'[s] = snapshots[s]
         /\ snapshots'[Len(snapshots) + 1] = [version |-> request[q].version, final |-> FALSE]
  <1> DEFINE e == [version |-> request[q].version, final |-> FALSE]
  <1>1. snapshots \in Seq([version : Nat, final : BOOLEAN])
    BY DEF DecisionInv, DecisionTypeOK
  <1>2. request[q] \in RequestRecord
    BY DEF DecisionInv, DecisionTypeOK, InsertSnapshot, Serving, Open
  <1>3. e \in [version : Nat, final : BOOLEAN]
    BY <1>2 DEF RequestRecord
  <1>4. snapshots' = Append(snapshots, e)
    BY DEF InsertSnapshot
  <1> HIDE DEF e
  <1>5. /\ Len(Append(snapshots, e)) = Len(snapshots) + 1 /\ Len(snapshots) \in Nat
        /\ DOMAIN snapshots = 1 .. Len(snapshots)
        /\ DOMAIN Append(snapshots, e) = 1 .. Len(snapshots) + 1
        /\ \A s \in DOMAIN snapshots : Append(snapshots, e)[s] = snapshots[s]
        /\ Append(snapshots, e)[Len(snapshots) + 1] = e
    BY <1>1, <1>3
  <1> QED BY <1>4, <1>5 DEF e

LEMMA MarkMarks ==
  ASSUME DecisionInv, NEW q \in Requests, Mark(q)
  PROVE  /\ DOMAIN snapshots' = DOMAIN snapshots /\ Len(snapshots') = Len(snapshots)
         /\ \A s \in DOMAIN snapshots :
              /\ snapshots'[s].version = snapshots[s].version
              /\ snapshots'[s].final <=> snapshots[s].final \/ s = request[q].snapshot
  <1>1. snapshots \in Seq([version : Nat, final : BOOLEAN])
    BY DEF DecisionInv, DecisionTypeOK
  <1>2. request[q].snapshot \in DOMAIN snapshots
    BY DEF DecisionInv, KindInv, RequestInv, AfterLatest, Mark, Serving
  <1>3. snapshots' = [snapshots EXCEPT ![request[q].snapshot].final = TRUE]
    BY DEF Mark
  <1>4. \A s \in DOMAIN snapshots : snapshots[s] \in [version : Nat, final : BOOLEAN]
    <2>1. DOMAIN snapshots = 1 .. Len(snapshots)
      BY <1>1
    <2> QED BY <1>1, <2>1, ElementOfSeq
  <1>5. DOMAIN snapshots' = DOMAIN snapshots
    BY <1>3
  <1>6. /\ \A s \in DOMAIN snapshots : s # request[q].snapshot => snapshots'[s] = snapshots[s]
        /\ snapshots'[request[q].snapshot] = [snapshots[request[q].snapshot] EXCEPT !.final = TRUE]
    BY <1>2, <1>3
  <1>7. Len(snapshots') = Len(snapshots)
    BY <1>1, <1>2, <1>3, MarkedIsFinal, <1>5
  <1>8. /\ snapshots'[request[q].snapshot].version = snapshots[request[q].snapshot].version
        /\ snapshots'[request[q].snapshot].final = TRUE
    BY <1>2, <1>4, <1>6
  <1> QED BY <1>4, <1>5, <1>6, <1>7, <1>8

\* The steps that touch neither the snapshots nor the row.
LEMMA OtherStepsLeaveTables ==
  ASSUME NEW q \in Requests,
         \/ \E kind \in Kinds : Begin(q, kind)
         \/ Serve(q) /\ ~InsertSnapshot(q) /\ ~Mark(q) /\ ~CreateRow(q) /\ ~UpdateRow(q)
         \/ Fail(q)
  PROVE  /\ UNCHANGED <<snapshots, row>>
         /\ governed \subseteq governed' /\ transitions \subseteq transitions'
  BY DEF Begin, Serve, ReadVersion, ReadLatest, CheckRow, CheckMark, Govern, ReadRow,
         AuditTransition, Fail, tables

LEMMA StepGrows == DecisionInv /\ [DecisionNext]_vars => [RecordGrows]_vars
  <1> SUFFICES ASSUME DecisionInv, DecisionNext PROVE RecordGrows
    OBVIOUS
  <1>1. PICK q \in Requests : (\E kind \in Kinds : Begin(q, kind)) \/ Serve(q) \/ Fail(q)
    BY DEF DecisionNext
  <1>0. Len(snapshots) \in Nat
    BY DEF DecisionInv, DecisionTypeOK
  <1>2. CASE InsertSnapshot(q)
    <2>1. UNCHANGED <<row, governed, transitions>>
      BY <1>2 DEF InsertSnapshot
    <2>2. \A s \in DOMAIN snapshots : snapshots'[s] = snapshots[s]
      BY <1>2, InsertAppends
    <2>3. Len(snapshots) <= Len(snapshots')
      <3>1. Len(snapshots') = Len(snapshots) + 1
        BY <1>2, InsertAppends
      <3> QED BY <1>0, <3>1
    <2> QED BY <2>1, <2>2, <2>3 DEF RecordGrows
  <1>3. CASE Mark(q)
    <2>1. UNCHANGED <<row, governed, transitions>>
      BY <1>3 DEF Mark
    <2> QED BY <1>0, <1>3, <2>1, MarkMarks DEF RecordGrows
  <1>4. CASE CreateRow(q)
    <2>1. UNCHANGED <<snapshots, governed, transitions>> /\ (row # NoRow => row' = row)
      BY <1>4 DEF CreateRow
    <2> QED BY <1>0, <2>1 DEF RecordGrows
  <1>5. CASE UpdateRow(q)
    <2>1. UNCHANGED <<snapshots, governed, transitions>> /\ row' = Written(q)
      BY <1>5 DEF UpdateRow
    <2>2. row # NoRow /\ row \in Row /\ request[q] \in RequestRecord /\ request[q].kind \in Deciding
      BY <1>5 DEF DecisionInv, DecisionTypeOK, KindInv, UpdateRow, Serving, Open
    <2>3. row' \in Row
      BY <2>1, <2>2, TargetValues DEF Written, Row, RequestRecord, Deciding, States
    <2>4. (row.final => row'.final) /\ (row.locked => row'.locked)
      BY <2>1 DEF Written
    <2>5. row' # NoRow
      BY <2>3, DecisionAssumption
    <2> QED BY <1>0, <2>1, <2>4, <2>5 DEF RecordGrows
  <1>6. CASE ~InsertSnapshot(q) /\ ~Mark(q) /\ ~CreateRow(q) /\ ~UpdateRow(q)
    <2>1. /\ UNCHANGED <<snapshots, row>>
          /\ governed \subseteq governed' /\ transitions \subseteq transitions'
      BY <1>1, <1>6, OtherStepsLeaveTables
    <2> QED BY <1>0, <2>1 DEF RecordGrows
  <1> QED BY <1>2, <1>3, <1>4, <1>5, <1>6

(* Requests may overlap, fail and restart as they like: the snapshots are    *)
(* appended and marked and never removed or renumbered, the log is appended  *)
(* to, and no write of the lifecycle row takes back that the decision was    *)
(* final or locked, although it takes back the state (LockIsTerminal).       *)
THEOREM RecordIsAppendOnly == DecisionSpec => [][RecordGrows]_vars
  BY StepGrows, DecisionInvariant, PTL DEF DecisionSpec

\* How a request comes to a write of a mark, and to an INSERT.
LEMMA WaysToWrite ==
  ASSUME DecisionInv, NEW q \in Requests,
         (\E kind \in Kinds : Begin(q, kind)) \/ Serve(q) \/ Fail(q)
  PROVE  /\ \A p \in Requests \ {q} : request'[p] = request[p]
         /\ request'[q] # NoRequest /\ request'[q].kind = "finalise"
            /\ request'[q].step \in {"audit", "mark"}
              => \/ UpdateRow(q)
                 \/ Open(q) /\ request[q].kind = "finalise" /\ request[q].step = "audit"
         /\ request'[q] # NoRequest /\ request'[q].step = "insert" => ReadVersion(q)
  <1> USE DecisionAssumption DEF Open, Serving, Done, Goto
  <1>0. request \in [Requests -> RequestRecord \cup {NoRequest}]
    BY DEF DecisionInv, DecisionTypeOK
  <1>1. \A p \in Requests \ {q} : request'[p] = request[p]
    BY <1>0
    DEF Begin, Serve, ReadVersion, InsertSnapshot, ReadLatest, CheckRow, CheckMark, Govern, ReadRow,
        CreateRow, Proceed, UpdateRow, AuditTransition, Mark, Fail
  <1>2. ASSUME NEW kind \in Kinds, Begin(q, kind)
        PROVE  request'[q].step \in {"version", "read", "conditions", "govern"}
    BY <1>0, <1>2, FirstStepValues DEF Begin, Kinds
  <1>3. CASE ReadVersion(q) \/ UpdateRow(q)
    <2>1. ReadVersion(q) => request'[q].step = "insert"
      BY <1>0 DEF ReadVersion, RequestRecord
    <2>2. UpdateRow(q) => request'[q].step = "audit"
      BY <1>0 DEF UpdateRow, RequestRecord
    <2> QED BY <1>1, <1>3, <2>1, <2>2
  <1>4. CASE Mark(q) \/ Fail(q)
    <2>1. request'[q] = NoRequest
      BY <1>0, <1>4 DEF Mark, Fail
    <2> QED BY <1>1, <2>1
  <1>5. CASE AuditTransition(q)
    <2>1. /\ request[q] # NoRequest /\ request[q].step = "audit"
          /\ request'[q] # NoRequest => request[q].kind = "finalise" /\ request'[q].step = "mark"
      BY <1>0, <1>5 DEF AuditTransition, RequestRecord
    <2> QED BY <1>1, <2>1
  <1>6. CASE InsertSnapshot(q) \/ CheckRow(q) \/ CheckMark(q) \/ Govern(q)
    <2>1. request'[q] # NoRequest
            => request'[q].step \in {"read", "marked", "govern", "latest"}
      BY <1>0, <1>6 DEF InsertSnapshot, CheckRow, CheckMark, Govern, RequestRecord
    <2> QED BY <1>1, <2>1
  <1>7. CASE ReadLatest(q) \/ ReadRow(q) \/ CreateRow(q)
    <2>1. request'[q] # NoRequest => request'[q].step \in {"read", "create", "update"}
      BY <1>0, <1>7 DEF ReadLatest, ReadRow, CreateRow, Proceed, RequestRecord
    <2> QED BY <1>1, <2>1
  <1> QED BY <1>1, <1>2, <1>3, <1>4, <1>5, <1>6, <1>7 DEF Serve

LEMMA StepKeepsMarkInv == DecisionInv /\ MarkInv /\ [DecisionNext]_vars => MarkInv'
  <1> SUFFICES ASSUME DecisionInv, MarkInv, DecisionNext PROVE MarkInv'
    BY DEF vars, MarkInv, Open
  <1> USE DEF Open, Serving
  <1>1. PICK q \in Requests : (\E kind \in Kinds : Begin(q, kind)) \/ Serve(q) \/ Fail(q)
    BY DEF DecisionNext
  <1>2. row # NoRow /\ row.final => row' # NoRow /\ row'.final
    BY StepGrows DEF RecordGrows, vars
  <1>3. ASSUME UpdateRow(q), request'[q].kind = "finalise" PROVE row' # NoRow /\ row'.final
    <2>1. request'[q].kind = request[q].kind /\ request[q] \in RequestRecord
      BY <1>3, DecisionAssumption DEF UpdateRow, Goto, DecisionInv, DecisionTypeOK, RequestRecord
    <2>2. row # NoRow /\ row \in Row
      BY <1>3 DEF UpdateRow, DecisionInv, KindInv, DecisionTypeOK
    <2>3. row' = Written(q) /\ Target[request[q].kind] = "FINALISED"
      BY <1>3, <2>1, TargetValues DEF UpdateRow
    <2>4. row' = [state |-> "FINALISED", final |-> TRUE,
                  locked |-> row.locked \/ FALSE, snapshot |-> request[q].snapshot]
      BY <2>2, <2>3 DEF Written, Row
    <2>5. row' \in Row /\ row'.final
      BY <2>1, <2>2, <2>4 DEF Row, States, RequestRecord
    <2> QED BY <2>5, DecisionAssumption
  <1>4. ASSUME NEW p \in Requests, request'[p] # NoRequest, request'[p].kind = "finalise",
               request'[p].step \in {"audit", "mark"}
        PROVE  row' # NoRow /\ row'.final
    <2>1. CASE p # q
      BY <1>1, <1>2, <1>4, <2>1, WaysToWrite DEF MarkInv
    <2>2. CASE p = q
      BY <1>1, <1>2, <1>3, <1>4, <2>2, WaysToWrite DEF MarkInv
    <2> QED BY <2>1, <2>2
  <1>5. ASSUME NEW s \in DOMAIN snapshots', snapshots'[s].final PROVE row' # NoRow /\ row'.final
    <2>1. CASE s \in DOMAIN snapshots /\ snapshots[s].final
      BY <1>2, <2>1 DEF MarkInv
    <2>2. CASE InsertSnapshot(q)
      <3>1. /\ DOMAIN snapshots = 1 .. Len(snapshots) /\ Len(snapshots) \in Nat
            /\ DOMAIN snapshots' = 1 .. Len(snapshots) + 1
            /\ \A t \in DOMAIN snapshots : snapshots'[t] = snapshots[t]
            /\ snapshots'[Len(snapshots) + 1] = [version |-> request[q].version, final |-> FALSE]
        BY <2>2, InsertAppends
      <3>2. ~snapshots'[Len(snapshots) + 1].final
        BY <3>1
      <3>3. s \in DOMAIN snapshots
        BY <1>5, <3>1, <3>2
      <3> QED BY <1>5, <2>1, <3>1, <3>3
    <2>3. CASE Mark(q)
      <3>1. row # NoRow /\ row.final
        BY <2>3 DEF Mark, MarkInv, DecisionInv, KindInv
      <3> QED BY <1>2, <3>1
    <2>4. CASE ~InsertSnapshot(q) /\ ~Mark(q)
      <3>1. UNCHANGED snapshots
        BY <1>1, <2>4, OtherStepsLeaveTables DEF CreateRow, UpdateRow
      <3> QED BY <1>5, <2>1, <3>1
    <2> QED BY <2>2, <2>3, <2>4
  <1> QED BY <1>4, <1>5 DEF MarkInv

(* Also when requests overlap or break off between the row and the mark:     *)
(* there is no final snapshot of a decision that its row does not show as    *)
(* final.                                                                    *)
THEOREM FinalSnapshotOfFinalDecision ==
  DecisionSpec => []((\E s \in DOMAIN snapshots : snapshots[s].final) => row # NoRow /\ row.final)
  <1>1. DecisionInit => MarkInv
    BY DEF DecisionInit, MarkInv, Open
  <1>2. MarkInv => ((\E s \in DOMAIN snapshots : snapshots[s].final) => row # NoRow /\ row.final)
    BY DEF MarkInv
  <1> QED BY <1>1, <1>2, DecisionInvariant, StepKeepsMarkInv, PTL DEF DecisionSpec

LEMMA StepKeepsVersionInv == DecisionInv /\ VersionInv /\ [DecisionNext]_vars => VersionInv'
  <1> SUFFICES ASSUME DecisionInv, VersionInv, DecisionNext PROVE VersionInv'
    BY DEF vars, VersionInv, VersionsFollow, Serving, Open
  <1> USE DEF Open, Serving
  <1>0. /\ request \in [Requests -> RequestRecord \cup {NoRequest}]
        /\ snapshots \in Seq([version : Nat, final : BOOLEAN])
        /\ DOMAIN snapshots = 1 .. Len(snapshots) /\ Len(snapshots) \in Nat
    BY DEF DecisionInv, DecisionTypeOK
  <1>1. PICK q \in Requests : (\E kind \in Kinds : Begin(q, kind)) \/ Serve(q) \/ Fail(q)
    BY DEF DecisionNext
  <1>2. /\ DOMAIN snapshots \subseteq DOMAIN snapshots'
        /\ \A s \in DOMAIN snapshots : snapshots'[s].version = snapshots[s].version
    <2>1. CASE InsertSnapshot(q)
      <3>1. /\ DOMAIN snapshots' = 1 .. Len(snapshots) + 1
            /\ \A s \in DOMAIN snapshots : snapshots'[s] = snapshots[s]
        BY <2>1, InsertAppends
      <3> QED BY <1>0, <3>1
    <2>2. CASE ~InsertSnapshot(q)
      <3>1. DOMAIN snapshots' = DOMAIN snapshots
        BY <1>1, <2>2, MarkMarks, OtherStepsLeaveTables DEF CreateRow, UpdateRow
      <3> QED BY <3>1, StepGrows DEF RecordGrows, vars
    <2> QED BY <2>1, <2>2
  <1>3. VersionsFollow'
    <2>1. CASE InsertSnapshot(q)
      <3>1. request[q] \in RequestRecord /\ request[q].step = "insert"
        BY <1>0, <2>1 DEF InsertSnapshot
      <3>2. \/ request[q].version = 1
            \/ \E t \in DOMAIN snapshots : snapshots[t].version + 1 = request[q].version
        BY <2>1 DEF InsertSnapshot, VersionInv
      <3>3. snapshots'[Len(snapshots) + 1].version = request[q].version
        <4>1. snapshots'[Len(snapshots) + 1] = [version |-> request[q].version, final |-> FALSE]
          BY <2>1, InsertAppends
        <4> QED BY <4>1
      <3>4. \A t \in DOMAIN snapshots : t < Len(snapshots) + 1
        BY <1>0
      <3>5. ASSUME NEW s \in DOMAIN snapshots'
            PROVE  \/ snapshots'[s].version = 1
                   \/ \E t \in DOMAIN snapshots' :
                        t < s /\ snapshots'[t].version + 1 = snapshots'[s].version
        <4>1. CASE s \in DOMAIN snapshots
          BY <1>2, <4>1 DEF VersionInv, VersionsFollow
        <4>2. CASE s = Len(snapshots) + 1
          BY <1>2, <3>2, <3>3, <3>4, <4>2
        <4>3. DOMAIN snapshots' = 1 .. Len(snapshots) + 1
          BY <2>1, InsertAppends
        <4> QED BY <1>0, <3>5, <4>1, <4>2, <4>3
      <3> QED BY <3>5 DEF VersionsFollow
    <2>2. CASE ~InsertSnapshot(q)
      <3>1. DOMAIN snapshots' = DOMAIN snapshots
        BY <1>1, <2>2, MarkMarks, OtherStepsLeaveTables DEF CreateRow, UpdateRow
      <3> QED BY <1>2, <3>1 DEF VersionInv, VersionsFollow
    <2> QED BY <2>1, <2>2
  <1>4. ASSUME NEW p \in Requests, request'[p] # NoRequest, request'[p].step = "insert"
        PROVE  \/ request'[p].version = 1
               \/ \E t \in DOMAIN snapshots' : snapshots'[t].version + 1 = request'[p].version
    <2>1. CASE p # q
      BY <1>1, <1>2, <1>4, <2>1, WaysToWrite DEF VersionInv
    <2>2. CASE p = q
      <3>1. ReadVersion(q) /\ UNCHANGED snapshots
        BY <1>1, <1>4, <2>2, WaysToWrite DEF ReadVersion, tables
      <3>2. PICK v \in IF snapshots = <<>> THEN {0} ELSE {snapshots[s].version : s \in Newest} :
              request' = [request EXCEPT ![q].step = "insert", ![q].version = 1 + v]
        BY <3>1 DEF ReadVersion
      <3>3. request[q] \in RequestRecord
        BY <1>0, <3>1 DEF ReadVersion
      <3>4. request'[q].version = 1 + v
        BY <1>0, <3>2, <3>3 DEF RequestRecord
      <3>5. v = 0 \/ \E s \in DOMAIN snapshots : v = snapshots[s].version
        BY <3>2 DEF Newest
      <3>6. \A s \in DOMAIN snapshots : snapshots[s].version \in Nat
        <4>1. \A s \in DOMAIN snapshots : snapshots[s] \in [version : Nat, final : BOOLEAN]
          BY <1>0, ElementOfSeq
        <4> QED BY <4>1
      <3> QED BY <2>2, <3>1, <3>4, <3>5, <3>6
    <2> QED BY <2>1, <2>2
  <1> QED BY <1>3, <1>4 DEF VersionInv

(* The versions of the snapshots have no gap, in whatever order the saves    *)
(* that overlap read and insert: below every version but the first, the      *)
(* previous one was saved before it.                                         *)
THEOREM VersionsHaveNoGap == DecisionSpec => []VersionsFollow
  <1>1. DecisionInit => VersionInv
    BY DEF DecisionInit, VersionInv, VersionsFollow, Serving, Open
  <1>2. VersionInv => VersionsFollow
    BY DEF VersionInv
  <1> QED BY <1>1, <1>2, DecisionInvariant, StepKeepsVersionInv, PTL DEF DecisionSpec
=============================================================================
