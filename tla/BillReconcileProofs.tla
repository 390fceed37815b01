------------------------- MODULE BillReconcileProofs ------------------------
(***************************************************************************)
(* Proofs about BillReconcile, for any number of bills and passes and any  *)
(* limits.                                                                 *)
(***************************************************************************)
EXTENDS BillReconcile, TLAPS, FiniteSetTheorems

(***************************************************************************)
(* Type correctness.                                                       *)
(***************************************************************************)

\* A batch has at least one row to offer, and at most MaxLimit.
LEMMA LimitRange ==
    ASSUME NEW asked \in Requests
    PROVE  BatchLimit(asked) \in 1..MaxLimit
    BY LimitAssumption DEF BatchLimit

\* A batch is a sequence of bills, no longer than the limit.
LEMMA BatchType ==
    ASSUME NEW limit \in 1..MaxLimit, NEW refs \in Batches(limit)
    PROVE  refs \in Seq(Bills) /\ Len(refs) <= MaxLimit
<1>1. MaxLimit \in Nat /\ limit \in Nat
    BY LimitAssumption
<1>2. IsFiniteSet(Missing)
    BY BillsAssumption, FS_Subset DEF Missing
<1>3. Cardinality(Missing) \in Nat
    BY <1>2, FS_CardinalityType
<1>4. PICK s \in SetToSeqs(Missing) :
         refs = SubSeq(s, 1, IF Len(s) < limit THEN Len(s) ELSE limit)
    BY DEF Batches
<1>5. s \in Seq(Bills)
    BY <1>3, <1>4 DEF SetToSeqs, Missing
<1> QED
    BY <1>1, <1>4, <1>5

\* A row that is done with leaves the pass at the next row or at its end.
LEMMA NextRefEffect ==
    ASSUME TypeOK, NEW p \in Passes, pass[p].pc \in {"describe", "persist"},
           NEW counter \in {"backfilled", "failed"}
    PROVE  /\ NextRef(p, counter) \in Pass
           /\ NextRef(p, counter).pc \in {"describe", "done"}
           /\ NextRef(p, counter).refs = pass[p].refs
           /\ NextRef(p, counter).pc = "describe" =>
                 /\ NextRef(p, counter).at \in DOMAIN pass[p].refs
                 /\ NextRef(p, counter).at = pass[p].at + 1
           /\ NextRef(p, counter).pc = "done" => pass[p].at = Len(pass[p].refs)
           /\ NextRef(p, counter).backfilled =
                 IF counter = "backfilled" THEN pass[p].backfilled + 1 ELSE pass[p].backfilled
           /\ NextRef(p, counter).failed =
                 IF counter = "failed" THEN pass[p].failed + 1 ELSE pass[p].failed
<1>1. /\ pass[p] \in Pass /\ Len(pass[p].refs) <= MaxLimit
      /\ pass[p].at \in 1..Len(pass[p].refs)
      /\ MaxLimit \in Nat
    BY LimitAssumption DEF TypeOK, Pass
<1> DEFINE r == pass[p]
           last == r.at = Len(r.refs)
           pc == IF last THEN "done" ELSE "describe"
           at == IF last THEN r.at ELSE r.at + 1
           backfilled == IF counter = "backfilled" THEN r.backfilled + 1 ELSE r.backfilled
           failed == IF counter = "failed" THEN r.failed + 1 ELSE r.failed
<1>2. NextRef(p, counter) = [r EXCEPT !.pc = pc, !.at = at, !.found = None,
                                      !.backfilled = backfilled, !.failed = failed]
    BY DEF NextRef
<1>3. /\ r \in Pass /\ r.backfilled \in Nat /\ r.failed \in Nat
      /\ r.refs \in Seq(Bills) /\ r.at \in 1..MaxLimit
    BY <1>1 DEF Pass
<1>4. /\ pc \in {"describe", "persist", "done"} /\ at \in 1..MaxLimit
      /\ backfilled \in Nat /\ failed \in Nat
    BY <1>1, <1>3
<1>5. ~last => r.at + 1 \in DOMAIN r.refs
    BY <1>1, <1>3
<1>6. /\ NextRef(p, counter) \in Pass
      /\ NextRef(p, counter).pc = pc /\ NextRef(p, counter).refs = r.refs
      /\ NextRef(p, counter).at = at
      /\ NextRef(p, counter).backfilled = backfilled /\ NextRef(p, counter).failed = failed
  <2> HIDE DEF r, pc, at, backfilled, failed
  <2> QED
      BY <1>2, <1>3, <1>4 DEF Pass
<1> QED
    BY <1>5, <1>6

\* The row a pass is at is a bill.
LEMMA RefIsBill ==
    ASSUME TypeOK, NEW p \in Passes, pass[p].pc \in {"describe", "persist"}
    PROVE  Ref(p) \in Bills /\ pass[p].at \in 1..Len(pass[p].refs)
    BY DEF TypeOK, Pass, Ref

\* The variables of TypeOK other than the passes.
TablesTyped ==
    /\ create \in [Bills -> CreateCall]
    /\ created \in [Bills -> Times \cup {None}]
    /\ runId \in [Bills -> Bills \cup {None}]
    /\ run \in [Bills -> {"none", "open", "closed", "forgotten"}]

\* What TypeOK says of one pass.
PassTyped(r) ==
    /\ r \in Pass
    /\ Len(r.refs) <= MaxLimit
    /\ r.pc \in {"describe", "persist"} => r.at \in DOMAIN r.refs

LEMMA TypeParts ==
    TypeOK <=> /\ TablesTyped
               /\ pass \in [Passes -> Pass]
               /\ \A p \in Passes : PassTyped(pass[p])
    BY DEF TypeOK, TablesTyped, PassTyped

\* A step that replaces one pass by a well-typed one keeps the types of all.
LEMMA OnePassTyped ==
    ASSUME TypeOK, NEW p \in Passes, NEW r, PassTyped(r),
           pass' = [pass EXCEPT ![p] = r], TablesTyped'
    PROVE  TypeOK'
<1>1. pass' \in [Passes -> Pass] /\ \A q \in Passes : PassTyped(pass'[q])
    BY TypeParts DEF PassTyped
<1>2. TypeOK' <=> /\ TablesTyped'
                  /\ pass' \in [Passes -> Pass]
                  /\ \A q \in Passes : PassTyped(pass'[q])
    BY DEF TypeOK, TablesTyped, PassTyped
<1> QED
    BY <1>1, <1>2

LEMMA TypeInit == Init => TypeOK
<1> SUFFICES ASSUME Init PROVE TypeOK
    OBVIOUS
<1>1. NoPass \in Pass /\ Len(NoPass.refs) = 0 /\ MaxLimit \in Nat
    BY LimitAssumption DEF NoPass, Pass
<1> QED
    BY <1>1 DEF Init, TypeOK, NoPass, CreateCall

LEMMA TypeStep == TypeOK /\ [Next]_vars => TypeOK'
<1> SUFFICES ASSUME TypeOK, [Next]_vars PROVE TypeOK'
    OBVIOUS
<1> USE DEF CreateGoes, CreateCall
<1>1. ASSUME NEW b \in Bills, CreateBill(b) PROVE TypeOK'
  <2>1. CASE CreateInsert(b)
      BY <2>1 DEF CreateInsert, TypeOK
  <2>2. CASE CreateStart(b)
      BY <2>2 DEF CreateStart, TypeOK
  <2>3. CASE CreateRecord(b)
      BY <2>3 DEF CreateRecord, setBillWorkflowRunID, TypeOK
  <2>4. CASE CreateTerminate(b)
      BY <2>4 DEF CreateTerminate, TypeOK
  <2> QED
      BY <1>1, <2>1, <2>2, <2>3, <2>4 DEF CreateBill
<1>2. ASSUME NEW b \in Bills, RunCloses(b) \/ RunForgotten(b) PROVE TypeOK'
    BY <1>2 DEF RunCloses, RunForgotten, TypeOK
<1>3. ASSUME NEW p \in Passes, PassBegin(p) PROVE TypeOK'
  <2> PICK asked \in Requests : \E refs \in Batches(BatchLimit(asked)) :
           pass' = [pass EXCEPT ![p] =
                      [NoPass EXCEPT !.refs = refs,
                                     !.pc = IF refs = <<>> THEN "done" ELSE "describe"]]
      BY <1>3 DEF PassBegin
  <2>1. PICK refs \in Batches(BatchLimit(asked)) :
           pass' = [pass EXCEPT ![p] =
                      [NoPass EXCEPT !.refs = refs,
                                     !.pc = IF refs = <<>> THEN "done" ELSE "describe"]]
      OBVIOUS
  <2>2. refs \in Seq(Bills) /\ Len(refs) <= MaxLimit
      BY LimitRange, BatchType
  <2>3. MaxLimit \in Nat /\ 1 \in 1..MaxLimit
      BY LimitAssumption
  <2> DEFINE r == [NoPass EXCEPT !.refs = refs,
                                 !.pc = IF refs = <<>> THEN "done" ELSE "describe"]
  <2>4. PassTyped(r)
    <3>1. NoPass \in Pass
        BY <2>3 DEF NoPass, Pass
    <3>4. r \in Pass /\ r.refs = refs /\ r.at = 1
             /\ r.pc = IF refs = <<>> THEN "done" ELSE "describe"
      <4>1. NoPass.at = 1
          BY DEF NoPass
      <4> QED
          BY <2>2, <3>1, <4>1 DEF Pass
    <3>2. refs # <<>> => 1 \in DOMAIN refs
        BY <2>2
    <3> HIDE DEF r
    <3> QED
        BY <2>2, <3>2, <3>4 DEF PassTyped
  <2>5. TablesTyped'
      BY <1>3 DEF PassBegin, TablesTyped, TypeOK
  <2> HIDE DEF r
  <2>6. pass' = [pass EXCEPT ![p] = r]
      BY <2>1 DEF r
  <2> QED
      BY <2>4, <2>5, <2>6, OnePassTyped
<1>4. ASSUME NEW p \in Passes, NEW b \in Bills, Describe(p, b) PROVE TypeOK'
  <2> DEFINE r == [pass[p] EXCEPT !.pc = "persist", !.found = b]
  <2>1. PassTyped(r)
    <3>1. /\ pass[p] \in Pass /\ pass[p].pc = "describe"
          /\ Len(pass[p].refs) <= MaxLimit /\ pass[p].at \in DOMAIN pass[p].refs
        BY <1>4 DEF Describe, TypeOK
    <3>2. r \in Pass /\ r.refs = pass[p].refs /\ r.at = pass[p].at
        BY <3>1 DEF Pass
    <3> QED
        BY <3>1, <3>2 DEF PassTyped
  <2>2. TablesTyped'
      BY <1>4 DEF Describe, TablesTyped, TypeOK
  <2>3. pass' = [pass EXCEPT ![p] = r]
      BY <1>4 DEF Describe, TypeOK, Pass
  <2> HIDE DEF r
  <2> QED
      BY <2>1, <2>2, <2>3, OnePassTyped
<1>5. ASSUME NEW p \in Passes, DescribeFails(p) \/ PersistFails(p)
             \/ \E b \in Bills : Persist(p, b)
      PROVE  TypeOK'
  <2>1. PICK counter \in {"backfilled", "failed"} :
           /\ pass[p].pc \in {"describe", "persist"}
           /\ pass' = [pass EXCEPT ![p] = NextRef(p, counter)]
      BY <1>5 DEF DescribeFails, PersistFails, Persist
  <2>2. PassTyped(NextRef(p, counter))
      BY <2>1, NextRefEffect, TypeParts DEF PassTyped
  <2>3. TablesTyped'
    <3>1. Ref(p) \in Bills /\ pass[p].found \in Bills \cup {None}
        BY <2>1, RefIsBill DEF TypeOK, Pass
    <3> QED
        BY <1>5, <3>1
           DEF DescribeFails, PersistFails, Persist, setBillWorkflowRunID, TablesTyped, TypeOK
  <2> QED
      BY <2>1, <2>2, <2>3, OnePassTyped
<1>6. CASE UNCHANGED vars
    BY <1>6 DEF vars, TypeOK
<1> QED
    BY <1>1, <1>2, <1>3, <1>4, <1>5, <1>6 DEF Next, ReconcileWorkflowRunIDs

\* Every variable has its type in every reachable state; no pass runs past the end
\* of its batch, and no batch is longer than the limit.
THEOREM TypeCorrect == Spec => []TypeOK
    BY TypeInit, TypeStep, PTL DEF Spec

(***************************************************************************)
(* Run ids.                                                                *)
(***************************************************************************)

\* CreateBill stores a run id only for a run it has started.
StartedBeforeRecorded ==
    \A b \in Bills : create[b] \in {"record", "terminate", "ok"} => run[b] # "none"

\* A pass that is about to store a run id has found it for the row it is at.
FoundIsOwn ==
    \A p \in Passes :
        pass[p].pc = "persist" => pass[p].found = Ref(p) /\ run[Ref(p)] # "none"

RunIdInv == TypeOK /\ StartedBeforeRecorded /\ FoundIsOwn /\ RunIdIsOwn

\* A pass that is not touched carries what it carried.
LEMMA FoundStays ==
    ASSUME RunIdInv, TypeOK', NEW q \in Passes, pass'[q] = pass[q],
           \A b \in Bills : run[b] # "none" => run'[b] # "none"
    PROVE  pass'[q].pc = "persist" => pass'[q].found = Ref(q)' /\ run'[Ref(q)'] # "none"
<1>1. Ref(q)' = Ref(q)
    BY DEF Ref
<1>2. pass[q].pc = "persist" => Ref(q) \in Bills
    BY RefIsBill DEF RunIdInv
<1> QED
    BY <1>1, <1>2 DEF RunIdInv, FoundIsOwn

LEMMA RunIdStep == RunIdInv /\ [Next]_vars => RunIdInv'
<1> SUFFICES ASSUME RunIdInv, [Next]_vars PROVE RunIdInv'
    OBVIOUS
<1>1. TypeOK /\ TypeOK'
    BY TypeStep DEF RunIdInv
<1> DEFINE RunsStay == \A b \in Bills : run[b] # "none" => run'[b] # "none"
<1>2. ASSUME NEW b \in Bills, CreateBill(b) PROVE RunIdInv'
  <2>1. RunsStay /\ pass' = pass
      BY <1>1, <1>2
         DEF CreateBill, CreateInsert, CreateStart, CreateRecord, CreateTerminate, TypeOK
  <2>2. FoundIsOwn'
      BY <1>1, <2>1, FoundStays DEF FoundIsOwn
  <2>3. StartedBeforeRecorded' /\ RunIdIsOwn'
    <3>1. CASE CreateInsert(b)
        BY <1>1, <3>1
           DEF CreateInsert, CreateGoes, RunIdInv, StartedBeforeRecorded, RunIdIsOwn, TypeOK
    <3>2. CASE CreateStart(b)
        BY <1>1, <3>2
           DEF CreateStart, CreateGoes, RunIdInv, StartedBeforeRecorded, RunIdIsOwn, TypeOK
    <3>3. CASE CreateRecord(b)
        BY <1>1, <3>3, BillsAssumption
           DEF CreateRecord, CreateGoes, setBillWorkflowRunID, RunIdInv,
               StartedBeforeRecorded, RunIdIsOwn, TypeOK
    <3>4. CASE CreateTerminate(b)
        BY <1>1, <3>4
           DEF CreateTerminate, CreateGoes, RunIdInv, StartedBeforeRecorded, RunIdIsOwn, TypeOK
    <3> QED
        BY <1>2, <3>1, <3>2, <3>3, <3>4 DEF CreateBill
  <2> QED
      BY <1>1, <2>2, <2>3 DEF RunIdInv
<1>3. ASSUME NEW b \in Bills, RunCloses(b) \/ RunForgotten(b) PROVE RunIdInv'
  <2>1. RunsStay /\ pass' = pass /\ create' = create /\ runId' = runId
      BY <1>1, <1>3 DEF RunCloses, RunForgotten, TypeOK
  <2>2. FoundIsOwn'
      BY <1>1, <2>1, FoundStays DEF FoundIsOwn
  <2> QED
      BY <1>1, <2>1, <2>2 DEF RunIdInv, StartedBeforeRecorded, RunIdIsOwn
<1>4. ASSUME NEW p \in Passes, PassBegin(p) \/ DescribeFails(p) PROVE RunIdInv'
  <2>1. UNCHANGED <<create, runId, run>> /\ \A q \in Passes \ {p} : pass'[q] = pass[q]
      BY <1>1, <1>4 DEF PassBegin, DescribeFails, TypeOK
  <2>2. pass'[p].pc # "persist"
    <3>1. CASE PassBegin(p)
        BY <1>1, <3>1 DEF PassBegin, NoPass, TypeOK
    <3>2. CASE DescribeFails(p)
        BY <1>1, <3>2, NextRefEffect DEF DescribeFails, TypeOK
    <3> QED
        BY <1>4, <3>1, <3>2
  <2>3. FoundIsOwn'
      BY <1>1, <2>1, <2>2, FoundStays DEF FoundIsOwn
  <2> QED
      BY <1>1, <2>1, <2>3 DEF RunIdInv, StartedBeforeRecorded, RunIdIsOwn
<1>5. ASSUME NEW p \in Passes, NEW b \in Bills, Describe(p, b) PROVE RunIdInv'
  <2>1. UNCHANGED <<create, runId, run>> /\ \A q \in Passes \ {p} : pass'[q] = pass[q]
      BY <1>1, <1>5 DEF Describe, TypeOK
  <2>2. pass'[p].found = b /\ b = Ref(p) /\ Ref(p)' = Ref(p) /\ run[b] # "none"
      BY <1>1, <1>5 DEF Describe, Ref, Known, TypeOK, Pass
  <2>3. FoundIsOwn'
      BY <1>1, <2>1, <2>2, FoundStays DEF FoundIsOwn
  <2> QED
      BY <1>1, <2>1, <2>3 DEF RunIdInv, StartedBeforeRecorded, RunIdIsOwn
<1>6. ASSUME NEW p \in Passes, PersistFails(p) \/ \E b \in Bills : Persist(p, b)
      PROVE  RunIdInv'
  <2>1. /\ pass[p].pc = "persist"
        /\ UNCHANGED <<create, run>>
        /\ runId' = runId \/ runId' = [runId EXCEPT ![Ref(p)] = pass[p].found]
      BY <1>6 DEF PersistFails, Persist, setBillWorkflowRunID
  <2>2. Ref(p) \in Bills /\ pass[p].found = Ref(p) /\ run[Ref(p)] # "none"
      BY <1>1, <2>1, RefIsBill DEF RunIdInv, FoundIsOwn
  <2>3. (\A q \in Passes \ {p} : pass'[q] = pass[q]) /\ pass'[p].pc # "persist"
      BY <1>1, <1>6, <2>1, NextRefEffect DEF PersistFails, Persist, TypeOK
  <2>4. FoundIsOwn'
      BY <1>1, <2>1, <2>3, FoundStays DEF FoundIsOwn
  <2>5. RunIdIsOwn' /\ StartedBeforeRecorded'
      BY <1>1, <2>1, <2>2, BillsAssumption
         DEF RunIdInv, RunIdIsOwn, StartedBeforeRecorded, TypeOK
  <2> QED
      BY <1>1, <2>4, <2>5 DEF RunIdInv
<1>7. CASE UNCHANGED vars
  <2>1. RunsStay /\ pass' = pass /\ create' = create /\ runId' = runId
      BY <1>7 DEF vars
  <2>2. FoundIsOwn'
      BY <1>1, <2>1, FoundStays DEF FoundIsOwn
  <2> QED
      BY <1>1, <1>7, <2>2 DEF RunIdInv, StartedBeforeRecorded, RunIdIsOwn, vars
<1> QED
    BY <1>2, <1>3, <1>4, <1>5, <1>6, <1>7 DEF Next, ReconcileWorkflowRunIDs

LEMMA RunIdInit == Init => RunIdInv
<1> SUFFICES ASSUME Init PROVE RunIdInv
    OBVIOUS
<1>1. TypeOK
    BY TypeInit
<1> QED
    BY <1>1 DEF Init, NoPass, RunIdInv, StartedBeforeRecorded, FoundIsOwn, RunIdIsOwn

\* However passes and CreateBill overlap, die and fail: a stored run id is that of
\* the bill's own, started, workflow, and a bill whose creation succeeded has one.
THEOREM RunIdsAreOwn == Spec => []RunIdIsOwn
<1>1. Spec => []RunIdInv
    BY RunIdInit, RunIdStep, PTL DEF Spec
<1>2. RunIdInv => RunIdIsOwn
    BY DEF RunIdInv
<1> QED
    BY <1>1, <1>2, PTL

(***************************************************************************)
(* The counters of a pass.                                                 *)
(***************************************************************************)

AccountedFor(p) ==
    /\ pass[p].backfilled + pass[p].failed = RowsTried(p)
    /\ pass[p].backfilled <= Cardinality(RowsFilled(p))

\* The rows of a pass are finitely many bills.
LEMMA RowsType ==
    ASSUME TypeOK, NEW p \in Passes
    PROVE  /\ RowsTried(p) \in Nat
           /\ IsFiniteSet(RowsFilled(p)) /\ Cardinality(RowsFilled(p)) \in Nat
           /\ 1..RowsTried(p) \subseteq DOMAIN pass[p].refs
<1>1. /\ pass[p] \in Pass /\ MaxLimit \in Nat
      /\ pass[p].pc \in {"describe", "persist"} => pass[p].at \in DOMAIN pass[p].refs
    BY LimitAssumption DEF TypeOK
<1>2. RowsTried(p) \in Nat
    BY <1>1 DEF RowsTried, Pass
<1>3. IsFiniteSet(1..RowsTried(p))
    BY <1>2, FS_Interval
<1>4. RowsFilled(p) \in SUBSET (1..RowsTried(p))
    BY DEF RowsFilled
<1>5. IsFiniteSet(RowsFilled(p)) /\ Cardinality(RowsFilled(p)) \in Nat
    BY <1>3, <1>4, FS_Subset, FS_CardinalityType
<1>6. 1..RowsTried(p) \subseteq DOMAIN pass[p].refs
    BY <1>1, <1>2 DEF RowsTried, Pass
<1> QED
    BY <1>2, <1>5, <1>6

LEMMA RowIsBill ==
    ASSUME TypeOK, NEW p \in Passes, NEW i \in 1..RowsTried(p)
    PROVE  pass[p].refs[i] \in Bills
<1>1. i \in DOMAIN pass[p].refs
    BY RowsType
<1>2. pass[p].refs \in Seq(Bills)
    BY DEF TypeOK, Pass
<1> QED
    BY <1>1, <1>2

\* Run ids are never taken away, so a pass that is not touched stays accounted for.
LEMMA UntouchedStays ==
    ASSUME TypeOK, TypeOK', NEW p \in Passes, AccountedFor(p), pass'[p] = pass[p],
           \A b \in Bills : runId[b] # None => runId'[b] # None
    PROVE  AccountedFor(p)'
<1>1. RowsTried(p)' = RowsTried(p)
    BY DEF RowsTried
<1>2. RowsFilled(p) \in SUBSET (RowsFilled(p)')
  <2>1. ASSUME NEW i \in RowsFilled(p) PROVE i \in RowsFilled(p)'
    <3>1. i \in 1..RowsTried(p) /\ runId[pass[p].refs[i]] # None
        BY <2>1 DEF RowsFilled
    <3>2. pass[p].refs[i] \in Bills
        BY <3>1, RowIsBill
    <3> QED
        BY <1>1, <3>1, <3>2 DEF RowsFilled
  <2> QED
      BY <2>1
<1>3. IsFiniteSet(RowsFilled(p)') /\ Cardinality(RowsFilled(p)') \in Nat
  <2>1. IsFiniteSet(1..RowsTried(p)')
      BY <1>1, RowsType, FS_Interval
  <2>2. RowsFilled(p)' \in SUBSET (1..RowsTried(p)')
      BY DEF RowsFilled
  <2> QED
      BY <2>1, <2>2, FS_Subset, FS_CardinalityType
<1>4. Cardinality(RowsFilled(p)) <= Cardinality(RowsFilled(p)')
    BY <1>2, <1>3, FS_Subset
<1>5. pass[p].backfilled \in Nat
    BY DEF TypeOK, Pass
<1> QED
    BY <1>1, <1>3, <1>4, <1>5, RowsType DEF AccountedFor

\* A pass that is done with a row has one row more, and one more that is filled if
\* it counts it as backfilled.
LEMMA NextRefCounts ==
    ASSUME TypeOK, TypeOK', NEW p \in Passes, AccountedFor(p),
           pass[p].pc \in {"describe", "persist"},
           NEW counter \in {"backfilled", "failed"},
           pass'[p] = NextRef(p, counter),
           \A b \in Bills : runId[b] # None => runId'[b] # None,
           counter = "backfilled" => runId'[Ref(p)] # None
    PROVE  AccountedFor(p)'
<1> DEFINE n == RowsTried(p)
           old == RowsFilled(p)
           new == RowsFilled(p)'
<1>1. n = pass[p].at - 1 /\ pass[p].at \in Nat
    BY DEF RowsTried, TypeOK, Pass
<1>2. RowsTried(p)' = n + 1 /\ pass'[p].refs = pass[p].refs
  <2>1. /\ pass'[p].refs = pass[p].refs
        /\ pass'[p].pc \in {"describe", "done"}
        /\ pass'[p].pc = "describe" => pass'[p].at = pass[p].at + 1
        /\ pass'[p].pc = "done" => pass[p].at = Len(pass[p].refs)
      BY NextRefEffect
  <2>2. CASE pass'[p].pc = "describe"
      BY <1>1, <2>1, <2>2 DEF RowsTried
  <2>3. CASE pass'[p].pc = "done"
      BY <1>1, <2>1, <2>3 DEF RowsTried
  <2> QED
      BY <2>1, <2>2, <2>3
<1>3. n \in Nat /\ IsFiniteSet(old) /\ Cardinality(old) \in Nat /\ old \subseteq 1..n
    BY RowsType DEF RowsFilled
<1>4. IsFiniteSet(1..(n + 1))
    BY <1>3, FS_Interval
<1>5. new \in SUBSET (1..(n + 1))
    BY <1>2 DEF RowsFilled
<1>6. IsFiniteSet(new) /\ Cardinality(new) \in Nat
    BY <1>4, <1>5, FS_Subset, FS_CardinalityType
<1>7. old \subseteq new
  <2>1. ASSUME NEW i \in old PROVE i \in new
    <3>1. i \in 1..n /\ runId[pass[p].refs[i]] # None
        BY <2>1 DEF RowsFilled
    <3>2. pass[p].refs[i] \in Bills
        BY <3>1, RowIsBill
    <3> QED
        BY <1>2, <1>3, <3>1, <3>2 DEF RowsFilled
  <2> QED
      BY <2>1
<1>8. pass[p].backfilled \in Nat /\ pass[p].failed \in Nat
    BY DEF TypeOK, Pass
<1>9. CASE counter = "backfilled"
  <2>1. n + 1 \in new
    <3>1. pass[p].refs[n + 1] = Ref(p)
        BY <1>1 DEF Ref
    <3> QED
        BY <1>2, <1>3, <1>9, <3>1 DEF RowsFilled
  <2>2. n + 1 \notin old
      BY <1>3
  <2>3. Cardinality(old \cup {n + 1}) = Cardinality(old) + 1
      BY <1>3, <2>2, FS_AddElement
  <2>4. old \cup {n + 1} \in SUBSET new
      BY <1>7, <2>1
  <2>5. Cardinality(old \cup {n + 1}) <= Cardinality(new)
      BY <1>6, <2>4, FS_Subset
  <2>6. pass'[p].backfilled = pass[p].backfilled + 1 /\ pass'[p].failed = pass[p].failed
      BY <1>9, NextRefEffect
  <2> HIDE DEF n, old, new
  <2> QED
      BY <1>2, <1>3, <1>6, <1>8, <2>3, <2>5, <2>6 DEF AccountedFor, n, old, new
<1>10. CASE counter = "failed"
  <2>1. Cardinality(old) <= Cardinality(new)
      BY <1>6, <1>7, FS_Subset
  <2>2. pass'[p].backfilled = pass[p].backfilled /\ pass'[p].failed = pass[p].failed + 1
      BY <1>10, NextRefEffect
  <2> HIDE DEF n, old, new
  <2> QED
      BY <1>2, <1>3, <1>6, <1>8, <2>1, <2>2 DEF AccountedFor, n, old, new
<1> QED
    BY <1>9, <1>10

\* A pass that has just read its batch is done with none of it.
LEMMA BeginCounts ==
    ASSUME TypeOK, TypeOK', NEW p \in Passes, PassBegin(p)
    PROVE  AccountedFor(p)'
<1>1. /\ RowsTried(p)' = 0 /\ pass'[p].backfilled = 0 /\ pass'[p].failed = 0
    BY DEF PassBegin, NoPass, RowsTried, TypeOK
<1>2. RowsFilled(p)' = {}
    BY <1>1 DEF RowsFilled
<1> QED
    BY <1>1, <1>2, FS_EmptySet DEF AccountedFor

LEMMA CountStep ==
    ASSUME RunIdInv, RunIdInv', BatchIsAccountedFor, [Next]_vars
    PROVE  BatchIsAccountedFor'
<1>1. TypeOK /\ TypeOK' /\ \A p \in Passes : AccountedFor(p)
    BY DEF RunIdInv, BatchIsAccountedFor, AccountedFor
<1> DEFINE Kept == \A b \in Bills : runId[b] # None => runId'[b] # None
<1> SUFFICES ASSUME NEW p \in Passes PROVE AccountedFor(p)'
    BY DEF BatchIsAccountedFor, AccountedFor
<1>2. ASSUME Kept, pass'[p] = pass[p] PROVE AccountedFor(p)'
    BY <1>1, <1>2, UntouchedStays
<1>3. ASSUME NEW b \in Bills, CreateBill(b) \/ RunCloses(b) \/ RunForgotten(b)
      PROVE  AccountedFor(p)'
  <2>1. Kept /\ pass' = pass
      BY <1>1, <1>3, BillsAssumption
         DEF CreateBill, CreateInsert, CreateStart, CreateRecord, CreateTerminate,
             setBillWorkflowRunID, RunCloses, RunForgotten, TypeOK
  <2> QED
      BY <1>2, <2>1
<1>4. ASSUME NEW q \in Passes, PassBegin(q) PROVE AccountedFor(p)'
  <2>1. Kept /\ (q # p => pass'[p] = pass[p])
      BY <1>1, <1>4 DEF PassBegin, TypeOK
  <2> QED
      BY <1>1, <1>2, <1>4, <2>1, BeginCounts
<1>5. ASSUME NEW q \in Passes, NEW b \in Bills, Describe(q, b) PROVE AccountedFor(p)'
  <2>1. Kept /\ (q # p => pass'[p] = pass[p])
      BY <1>1, <1>5 DEF Describe, TypeOK
  <2>2. CASE q = p
    <3>1. RowsTried(p)' = RowsTried(p) /\ RowsFilled(p)' = RowsFilled(p)
      <4>1. /\ pass[p].pc = "describe" /\ pass'[p].pc = "persist"
            /\ pass'[p].at = pass[p].at /\ pass'[p].refs = pass[p].refs
            /\ runId' = runId
          BY <1>1, <1>5, <2>2 DEF Describe, TypeOK, Pass
      <4> QED
          BY <4>1 DEF RowsTried, RowsFilled
    <3>2. pass'[p].backfilled = pass[p].backfilled /\ pass'[p].failed = pass[p].failed
        BY <1>1, <1>5, <2>2 DEF Describe, TypeOK, Pass
    <3> QED
        BY <1>1, <3>1, <3>2 DEF AccountedFor
  <2> QED
      BY <1>2, <2>1, <2>2
<1>6. ASSUME NEW q \in Passes,
             DescribeFails(q) \/ PersistFails(q) \/ \E b \in Bills : Persist(q, b)
      PROVE  AccountedFor(p)'
  <2>1. PICK counter \in {"backfilled", "failed"} :
           /\ pass[q].pc \in {"describe", "persist"}
           /\ pass' = [pass EXCEPT ![q] = NextRef(q, counter)]
           /\ counter = "backfilled" => \E b \in Bills : Persist(q, b)
      BY <1>6 DEF DescribeFails, PersistFails, Persist
  <2>2. pass'[q] = NextRef(q, counter) /\ (q # p => pass'[p] = pass[p])
      BY <1>1, <2>1 DEF TypeOK
  <2>3. pass[q].pc = "persist" => pass[q].found = Ref(q) /\ Ref(q) \in Bills
      BY <1>1, RefIsBill DEF RunIdInv, FoundIsOwn
  <2>4. Kept /\ (counter = "backfilled" => runId'[Ref(q)] # None)
      BY <1>1, <1>6, <2>1, <2>3, BillsAssumption
         DEF DescribeFails, PersistFails, Persist, setBillWorkflowRunID, TypeOK
  <2>5. CASE q = p
      BY <1>1, <2>1, <2>2, <2>4, <2>5, NextRefCounts
  <2> QED
      BY <1>2, <2>2, <2>4, <2>5
<1>7. CASE UNCHANGED vars
    BY <1>2, <1>7 DEF vars
<1> QED
    BY <1>3, <1>4, <1>5, <1>6, <1>7 DEF Next, ReconcileWorkflowRunIDs

\* One failing row stops no other: at any time a pass has counted each row it is
\* done with, as failed or as backfilled, and the latter have their run id.
THEOREM BatchesAccountedFor == Spec => []BatchIsAccountedFor
<1>1. Init => BatchIsAccountedFor
  <2> SUFFICES ASSUME Init, NEW p \in Passes PROVE AccountedFor(p)
      BY DEF BatchIsAccountedFor, AccountedFor
  <2>1. RowsTried(p) = 0 /\ pass[p].backfilled = 0 /\ pass[p].failed = 0
      BY DEF Init, NoPass, RowsTried
  <2>2. RowsFilled(p) = {}
      BY <2>1 DEF RowsFilled
  <2> QED
      BY <2>1, <2>2, FS_EmptySet DEF AccountedFor
<1>2. RunIdInv /\ RunIdInv' /\ BatchIsAccountedFor /\ [Next]_vars => BatchIsAccountedFor'
    BY CountStep
<1>3. Spec => []RunIdInv
    BY RunIdInit, RunIdStep, PTL DEF Spec
<1> QED
    BY <1>1, <1>2, <1>3, PTL DEF Spec

=============================================================================
