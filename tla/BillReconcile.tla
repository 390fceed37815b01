---------------------------- MODULE BillReconcile ---------------------------
(***************************************************************************)
(* workflow_run_id of several bills: CreateBill stores it, and             *)
(* ReconcileWorkflowRunIDs stores it where CreateBill could not.           *)
(*                                                                         *)
(* Every bill has a workflow id of its own, under which CreateBill starts  *)
(* at most one run; run b is the run of bill b.  Temporal remembers a run  *)
(* for some time after it is over.  A pass of the reconciliation reads a   *)
(* batch of bills without run id, oldest first, and then makes two calls   *)
(* for each, between which everybody else goes on.  A pass that dies is    *)
(* one whose remaining calls fail and whose report nobody reads.           *)
(*                                                                         *)
(* The status of the bills plays no part: no statement here looks at it.   *)
(***************************************************************************)
EXTENDS Integers, Sequences, SequencesExt

CONSTANTS
    Bills,   \* bill ids
    Passes,  \* callers of ReconcileWorkflowRunIDs, each calling again and again
    Times,   \* values of created_at
    Requests,      \* the limits callers ask for, 0 for none
    DefaultLimit,  \* the batch size without one
    MaxLimit,      \* the largest batch size
    None     \* SQL NULL

ASSUME BillsAssumption == IsFiniteSet(Bills) /\ None \notin Bills
ASSUME LimitAssumption ==
    Requests \subseteq Int /\ {DefaultLimit, MaxLimit} \subseteq Nat \ {0}
ASSUME TimesAssumption == Times \subseteq Nat

VARIABLES
    create,   \* the call of CreateBill for each bill
    created,  \* bills.created_at, None while there is no row
    runId,    \* bills.workflow_run_id
    run,      \* what Temporal knows of the bill's run
    pass      \* the passes of ReconcileWorkflowRunIDs

vars == <<create, created, runId, run, pass>>

-----------------------------------------------------------------------------

\* The next call CreateBill makes, or how it ended.
CreateCall == {"insert", "start", "record", "terminate", "ok", "failed"}
CreateOver(b) == create[b] \in {"ok", "failed"}

\* The batch size in force.
BatchLimit(asked) ==
    LET limit == IF asked > 0 THEN asked ELSE DefaultLimit
    IN  IF limit > MaxLimit THEN MaxLimit ELSE limit

\* What DescribeWorkflowExecution can still find.
Known(b) == run[b] \in {"open", "closed"}

\* The rows listBillsMissingWorkflowRunID looks for.
Missing == {b \in Bills : created[b] # None /\ runId[b] = None}

\* A pass: the batch, the row it is at, the run id it is about to store, and
\* the counters of its response.  Before its first call a caller is where it is
\* after one that found nothing.  scanned is the length of the batch.
Pass == [pc: {"describe", "persist", "done"},
         refs: Seq(Bills), at: 1..MaxLimit, found: Bills \cup {None},
         backfilled: Nat, failed: Nat]

NoPass == [pc |-> "done", refs |-> <<>>, at |-> 1, found |-> None,
           backfilled |-> 0, failed |-> 0]

TypeOK ==
    /\ create \in [Bills -> CreateCall]
    /\ created \in [Bills -> Times \cup {None}]
    /\ runId \in [Bills -> Bills \cup {None}]
    /\ run \in [Bills -> {"none", "open", "closed", "forgotten"}]
    /\ pass \in [Passes -> Pass]
    /\ \A p \in Passes :
          /\ Len(pass[p].refs) <= MaxLimit
          /\ pass[p].pc \in {"describe", "persist"} => pass[p].at \in DOMAIN pass[p].refs

Init ==
    /\ create = [b \in Bills |-> "insert"]
    /\ created = [b \in Bills |-> None]
    /\ runId = [b \in Bills |-> None]
    /\ run = [b \in Bills |-> "none"]
    /\ pass = [p \in Passes |-> NoPass]

-----------------------------------------------------------------------------
(***************************************************************************)
(* CreateBill.  Each call succeeds, fails, or succeeds and is reported as  *)
(* failed; the API may die instead of making the next one.                 *)
(***************************************************************************)

CreateGoes(b, pc) == create' = [create EXCEPT ![b] = pc]

\* createBill.  created_at is when the statement began, so rows need not appear
\* in its order, and two may have the same.
CreateInsert(b) ==
    /\ create[b] = "insert"
    /\ \/ /\ \E t \in Times : created' = [created EXCEPT ![b] = t]
          /\ CreateGoes(b, "start") \/ CreateGoes(b, "failed")
       \/ UNCHANGED created /\ CreateGoes(b, "failed")
    /\ UNCHANGED <<runId, run, pass>>

\* startBillingWorkflow.  On an error CreateBill cancels the bill and returns.
CreateStart(b) ==
    /\ create[b] = "start"
    /\ \/ /\ run' = [run EXCEPT ![b] = "open"]
          /\ CreateGoes(b, "record") \/ CreateGoes(b, "failed")
       \/ UNCHANGED run /\ CreateGoes(b, "failed")
    /\ UNCHANGED <<created, runId, pass>>

\* setBillWorkflowRunID, an UPDATE whatever the column holds.
setBillWorkflowRunID(b, id) == runId' = [runId EXCEPT ![b] = id]

CreateRecord(b) ==
    /\ create[b] = "record"
    /\ \/ setBillWorkflowRunID(b, b) /\ (CreateGoes(b, "ok") \/ CreateGoes(b, "terminate"))
       \/ UNCHANGED runId /\ (CreateGoes(b, "terminate") \/ CreateGoes(b, "failed"))
    /\ UNCHANGED <<created, run, pass>>

\* terminateBillingWorkflow ends the run unless it is over already.
CreateTerminate(b) ==
    /\ create[b] = "terminate"
    /\ CreateGoes(b, "failed")
    /\ \/ run[b] = "open" /\ run' = [run EXCEPT ![b] = "closed"]
       \/ UNCHANGED run
    /\ UNCHANGED <<created, runId, pass>>

CreateBill(b) ==
    CreateInsert(b) \/ CreateStart(b) \/ CreateRecord(b) \/ CreateTerminate(b)

-----------------------------------------------------------------------------
(***************************************************************************)
(* Temporal.                                                               *)
(***************************************************************************)

\* The workflow completes or fails.
RunCloses(b) ==
    /\ run[b] = "open"
    /\ run' = [run EXCEPT ![b] = "closed"]
    /\ UNCHANGED <<create, created, runId, pass>>

\* The retention period of a closed run is over.
RunForgotten(b) ==
    /\ run[b] = "closed"
    /\ run' = [run EXCEPT ![b] = "forgotten"]
    /\ UNCHANGED <<create, created, runId, pass>>

-----------------------------------------------------------------------------
(***************************************************************************)
(* ReconcileWorkflowRunIDs.                                                *)
(***************************************************************************)

Ref(p) == pass[p].refs[pass[p].at]

\* Mutant: the newest bills come first.
BatchesNewestFirst(limit) ==
    {SubSeq(s, 1, IF Len(s) < limit THEN Len(s) ELSE limit) :
        s \in {s \in SetToSeqs(Missing) :
                 \A i, j \in DOMAIN s : i < j => created[s[i]] >= created[s[j]]}}

\* What listBillsMissingWorkflowRunID may return: ORDER BY created_at ASC says
\* nothing of rows that have the same.
Batches(limit) ==
    {SubSeq(s, 1, IF Len(s) < limit THEN Len(s) ELSE limit) :
        s \in {s \in SetToSeqs(Missing) :
                 \A i, j \in DOMAIN s : i < j => created[s[i]] <= created[s[j]]}}

\* A call arrives and reads its batch; an empty one is all there is to report.
PassBegin(p) ==
    /\ pass[p].pc = "done"
    /\ \E asked \in Requests : \E refs \in Batches(BatchLimit(asked)) :
          pass' = [pass EXCEPT ![p] =
                     [NoPass EXCEPT !.refs = refs,
                                    !.pc = IF refs = <<>> THEN "done" ELSE "describe"]]
    /\ UNCHANGED <<create, created, runId, run>>

\* Mutant: the first failure ends the pass.
NextRefUnlessFailed(p, counter) ==
    LET last == pass[p].at = Len(pass[p].refs) \/ counter = "failed"
    IN  [pass[p] EXCEPT !.pc = IF last THEN "done" ELSE "describe",
                        !.at = IF last THEN @ ELSE @ + 1,
                        !.found = None,
                        !.backfilled = IF counter = "backfilled" THEN @ + 1 ELSE @,
                        !.failed = IF counter = "failed" THEN @ + 1 ELSE @]

\* Mutant: the loop runs past the last row.
NextRefPastEnd(p, counter) ==
    LET last == pass[p].at > Len(pass[p].refs)
    IN  [pass[p] EXCEPT !.pc = IF last THEN "done" ELSE "describe",
                        !.at = IF last THEN @ ELSE @ + 1,
                        !.found = None,
                        !.backfilled = IF counter = "backfilled" THEN @ + 1 ELSE @,
                        !.failed = IF counter = "failed" THEN @ + 1 ELSE @]

\* The row is done with, and counted; the loop goes on, whatever the outcome.
NextRef(p, counter) ==
    LET last == pass[p].at = Len(pass[p].refs)
    IN  [pass[p] EXCEPT !.pc = IF last THEN "done" ELSE "describe",
                        !.at = IF last THEN @ ELSE @ + 1,
                        !.found = None,
                        !.backfilled = IF counter = "backfilled" THEN @ + 1 ELSE @,
                        !.failed = IF counter = "failed" THEN @ + 1 ELSE @]

\* describeBillingWorkflowRunID finds the run.
Describe(p, b) ==
    /\ pass[p].pc = "describe" /\ b = Ref(p)
    /\ Known(b)
    /\ pass' = [pass EXCEPT ![p].pc = "persist", ![p].found = b]
    /\ UNCHANGED <<create, created, runId, run>>

\* Mutant: the loop does not skip the row when the call fails.
DescribeFailsAndGoesOn(p) ==
    /\ pass[p].pc = "describe"
    /\ pass' = [pass EXCEPT ![p].pc = "persist"]
    /\ UNCHANGED <<create, created, runId, run>>

\* It finds none, or the call fails.
DescribeFails(p) ==
    /\ pass[p].pc = "describe"
    /\ pass' = [pass EXCEPT ![p] = NextRef(p, "failed")]
    /\ UNCHANGED <<create, created, runId, run>>

\* setBillWorkflowRunID with the run id that was found.
Persist(p, b) ==
    /\ pass[p].pc = "persist" /\ b = Ref(p)
    /\ setBillWorkflowRunID(b, pass[p].found)
    /\ pass' = [pass EXCEPT ![p] = NextRef(p, "backfilled")]
    /\ UNCHANGED <<create, created, run>>

\* It is reported as failed, whether it took effect or not.
PersistFails(p) ==
    /\ pass[p].pc = "persist"
    /\ setBillWorkflowRunID(Ref(p), pass[p].found) \/ UNCHANGED runId
    /\ pass' = [pass EXCEPT ![p] = NextRef(p, "failed")]
    /\ UNCHANGED <<create, created, run>>

ReconcileWorkflowRunIDs(p) ==
    \/ PassBegin(p)
    \/ DescribeFails(p)
    \/ PersistFails(p)
    \/ \E b \in Bills : Describe(p, b) \/ Persist(p, b)

-----------------------------------------------------------------------------

Next ==
    \/ \E b \in Bills : CreateBill(b) \/ RunCloses(b) \/ RunForgotten(b)
    \/ \E p \in Passes : ReconcileWorkflowRunIDs(p)

Spec == Init /\ [][Next]_vars

\* The endpoint is called again and again and every call ends, as CreateBill does.
\* Temporal and Postgres may fail any number of times, but not each time the same
\* row is tried.
Fairness ==
    /\ \A b \in Bills : WF_vars(CreateBill(b))
    /\ \A p \in Passes :
          /\ WF_vars(ReconcileWorkflowRunIDs(p))
          /\ \A b \in Bills : SF_vars(Describe(p, b)) /\ SF_vars(Persist(p, b))

FairSpec == Spec /\ Fairness

-----------------------------------------------------------------------------
(***************************************************************************)
(* Properties.                                                             *)
(***************************************************************************)

\* A stored run id is the one of the bill's own workflow, which was started, and
\* a bill whose creator was told that it succeeded has it, whatever passes and
\* CreateBill overlap.
RunIdIsOwn ==
    \A b \in Bills :
        /\ runId[b] # None => runId[b] = b /\ run[b] # "none"
        /\ create[b] = "ok" => runId[b] # None

\* How many rows of its batch a pass is done with, and which of them have a run id.
RowsTried(p) == IF pass[p].pc = "done" THEN Len(pass[p].refs) ELSE pass[p].at - 1
RowsFilled(p) == {i \in 1..RowsTried(p) : runId[pass[p].refs[i]] # None}

\* One failing row does not stop the others: a pass accounts for every row it has
\* scanned, and rows it reports as backfilled have their run id.
BatchIsAccountedFor ==
    \A p \in Passes :
        /\ pass[p].backfilled + pass[p].failed = RowsTried(p)
        /\ pass[p].backfilled <= Cardinality(RowsFilled(p))

\* So many bills that no pass can do anything about come before bill b that it
\* is missing from some batches for ever: their CreateBill is over, and Temporal knows no run of theirs.
Hopeless == {b \in Missing : CreateOver(b) /\ ~Known(b)}
Starved(b) ==
    /\ b \in Missing
    /\ Cardinality({c \in Hopeless \ {b} : created[c] <= created[b]})
          >= Min({BatchLimit(asked) : asked \in Requests})

\* A bill whose workflow was started gets its run id in the end, although
\* CreateBill failed to store it, unless its run is forgotten first or the oldest
\* bills without a run fill the batch.  These stay there for ever.
BackfilledUnlessStarved ==
    \A b \in Bills :
        b \in Missing /\ Known(b) ~> runId[b] # None \/ run[b] = "forgotten" \/ Starved(b)

=============================================================================
