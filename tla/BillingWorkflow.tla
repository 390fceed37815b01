--------------------------- MODULE BillingWorkflow --------------------------
(***************************************************************************)
(* BillingWorkflow and its activities, for one bill.                       *)
(*                                                                         *)
(* Two workflow ids run the same code: the primary workflow that CreateBill*)
(* starts, and the fallback that UpdateBill starts, possibly several times,*)
(* when the primary one cannot be reached; a fallback run is a member of   *)
(* Fallbacks.  Temporal itself is external: it records signals, timers and *)
(* updates, gives the workflow a task for each, and runs activities at     *)
(* least once.  Attempt i of an activity takes effect in the database at   *)
(* most once; the server may have given it up by then and started another, *)
(* and may never hear of its result.                                       *)
(*                                                                         *)
(* The database is the ledger that BillStore implements: PersistLineItem   *)
(* and MarkClosedInDB are single steps here.                               *)
(***************************************************************************)
EXTENDS BillData

CONSTANTS
    Updates,     \* "add-line-item" updates callers send to the primary workflow
    Primary,     \* the run of the primary workflow
    Fallbacks,   \* runs of the fallback workflow
    MaxAttempts  \* RetryPolicy.MaximumAttempts

ASSUME PrimaryAssumption == Primary \notin Fallbacks
ASSUME MaxAttemptsAssumption == MaxAttempts \in Nat \ {0}

VARIABLES
    status,    \* bills.status
    total,     \* bills.total_minor
    items,     \* line_items by idempotency key
    invoices,  \* how often SendInvoiceEmail has sent the invoice
    wf,        \* the workflow runs
    upd,       \* the updates
    act        \* the activities

tables == <<status, total, items>>
vars == <<status, total, items, invoices, wf, upd, act>>

-----------------------------------------------------------------------------

Workflows == {Primary} \cup Fallbacks

\* A run is in its accrual loop (billOpen), waits for MarkClosedInDB or for
\* SendInvoiceEmail, or is over.
OpenPhases == {"accruing", "marking", "invoicing"}
ClosedPhases == {"completed", "failed", "terminated"}
Run == [phase: {"none"} \cup OpenPhases \cup ClosedPhases,
        wake: BOOLEAN,     \* the timer has fired or a close signal is buffered
        totalMinor: Nat]   \* the running total of the "get-total" query

Open(w) == wf[w].phase \in OpenPhases

\* What an update returns: a result, a business error of PersistLineItem or of
\* the validator, the failure of the activity, or the end of the workflow.  (A
\* run is started for an existing bill only, so ErrBillNotFound cannot occur.)
Acknowledged == {"inserted", "existing"}
BusinessErrors == {"FAILED_PRECONDITION", "ALREADY_EXISTS"}
Reply == Acknowledged \cup BusinessErrors \cup {"none", "failed", "unreachable"}

Request == [key: Keys, payload: Payloads]
Update == [phase: {"idle", "sent", "accepted", "done"},
           req: Request \cup {None}, reply: Reply]

\* The activities a run may schedule: one per accepted update, and two to close.
Persist(u) == <<"persist", u>>
Mark(w) == <<"mark", w>>
Invoice(w) == <<"invoice", w>>
Activities == {Persist(u) : u \in Updates}
                \cup {Mark(w) : w \in Workflows} \cup {Invoice(w) : w \in Workflows}
RunOf(a) == IF a[1] = "persist" THEN Primary ELSE a[2]

\* What an attempt reports to the server.  One that fails with any other error
\* is like one whose answer was lost: it has no result.
Successes == Acknowledged \cup {"ok"}
Results == Successes \cup BusinessErrors
Activity ==
    [open: BOOLEAN,                \* the server has it pending
     attempt: 0..MaxAttempts,      \* the attempt it waits for
     run: [1..MaxAttempts -> {"none", "running"} \cup Results]]

TypeOK ==
    /\ status \in BillStatus
    /\ total \in 0..MaxTotal
    /\ items \in Rows
    /\ invoices \in Nat
    /\ wf \in [Workflows -> Run]
    /\ upd \in [Updates -> Update]
    /\ act \in [Activities -> Activity]

Init ==
    /\ status = "NONE"
    /\ total = 0
    /\ items = NoRows
    /\ invoices = 0
    /\ wf = [w \in Workflows |-> [phase |-> "none", wake |-> FALSE, totalMinor |-> 0]]
    /\ upd = [u \in Updates |-> [phase |-> "idle", req |-> None, reply |-> "none"]]
    /\ act = [a \in Activities |-> [open |-> FALSE, attempt |-> 0,
                                    run |-> [i \in 1..MaxAttempts |-> "none"]]]

-----------------------------------------------------------------------------
(***************************************************************************)
(* What the API does to the database and to Temporal.                      *)
(***************************************************************************)

\* createBill.
InsertBill ==
    /\ status = "NONE"
    /\ status' = "OPEN"
    /\ UNCHANGED <<total, items, invoices, wf, upd, act>>

\* cancelBill.
CancelBill ==
    /\ status = "OPEN"
    /\ status' = "CANCELLED"
    /\ UNCHANGED <<total, items, invoices, wf, upd, act>>

\* ExecuteWorkflow under an id that has no open run.
StartWorkflow(w) ==
    /\ status # "NONE"
    /\ wf[w].phase = "none"
    /\ w \in Fallbacks => \A v \in Fallbacks : ~Open(v)
    /\ wf' = [wf EXCEPT ![w].phase = "accruing"]
    /\ UNCHANGED <<tables, invoices, upd, act>>

\* Mutant: the signal has a name the workflow does not listen to.
SignalCloseUnheard(w) ==
    /\ Open(w)
    /\ UNCHANGED vars

\* SignalWorkflow(close-bill) reaches an open run; the signal is buffered.
SignalClose(w) ==
    /\ Open(w)
    /\ wf' = [wf EXCEPT ![w].wake = TRUE]
    /\ UNCHANGED <<tables, invoices, upd, act>>

\* UpdateWorkflow(add-line-item): without an open run the server answers that
\* there is no workflow.
SendUpdate(u, q) ==
    /\ upd[u].phase = "idle"
    /\ upd' = [upd EXCEPT ![u] =
                 IF Open(Primary)
                 THEN [phase |-> "sent", req |-> q, reply |-> "none"]
                 ELSE [phase |-> "done", req |-> q, reply |-> "unreachable"]]
    /\ UNCHANGED <<tables, invoices, wf, act>>

-----------------------------------------------------------------------------
(***************************************************************************)
(* Activities, as the server sees them.                                    *)
(***************************************************************************)

\* ExecuteActivity: the first attempt is handed to a worker.
Scheduled == [open |-> TRUE, attempt |-> 1,
              run |-> [i \in 1..MaxAttempts |-> IF i = 1 THEN "running" ELSE "none"]]

\* The server keeps nothing of an activity that is over; attempts still running
\* in a worker are not stopped.
Over(a) == [open |-> FALSE, attempt |-> 0,
            run |-> [i \in 1..MaxAttempts |->
                        IF act[a].run[i] = "running" THEN "running" ELSE "none"]]

\* What the awaited attempt has reported so far.
LastResult(a) == act[a].run[act[a].attempt]

\* The activity ends with result r: the awaited attempt has succeeded, or the
\* attempts are used up or ScheduleToCloseTimeout leaves no time for another,
\* and then the last error is the result.
Ends(a, r) ==
    /\ act[a].open
    /\ \/ r \in Results /\ r = LastResult(a)
       \/ r = "failed" /\ LastResult(a) \notin Successes

\* Mutant: no MaximumAttempts, so the last attempt is repeated.
RetryActivityUnlimited(a) ==
    LET next == IF act[a].attempt = MaxAttempts THEN MaxAttempts ELSE act[a].attempt + 1 IN
    /\ act[a].open
    /\ LastResult(a) \notin Successes
    /\ act' = [act EXCEPT ![a] = [Over(a) EXCEPT !.open = TRUE, !.attempt = next,
                                                 !.run[next] = "running"]]
    /\ UNCHANGED <<tables, invoices, wf, upd>>

\* The awaited attempt has failed, or StartToCloseTimeout has elapsed without a
\* report of whatever it did: the next attempt runs.  The business errors are
\* retried as well: NewApplicationError, which PersistLineItem makes them with,
\* takes its arguments err and true for details of a retryable error.
RetryActivity(a) ==
    LET next == act[a].attempt + 1 IN
    /\ act[a].open
    /\ LastResult(a) \notin Successes
    /\ next <= MaxAttempts
    /\ act' = [act EXCEPT ![a] = [Over(a) EXCEPT !.open = TRUE, !.attempt = next,
                                                 !.run[next] = "running"]]
    /\ UNCHANGED <<tables, invoices, wf, upd>>

-----------------------------------------------------------------------------
(***************************************************************************)
(* Activities, as a worker runs them.  Attempt i of an activity takes      *)
(* effect, or fails before it does, or after.                              *)
(***************************************************************************)

Running(a, i) == act[a].run[i] = "running"

\* Attempt i is over with result r, or with none; the server takes the result
\* of the attempt it waits for only.
Report(a, i, r) ==
    act' = [act EXCEPT ![a].run[i] =
                IF act[a].open /\ act[a].attempt = i THEN r ELSE "none"]

\* Mutant: nothing stops the total at the largest BIGINT.
ChargeLineItemUnbounded(u, i) ==
    LET q == upd[u].req IN
    /\ Running(Persist(u), i)
    /\ status = "OPEN"
    /\ items[q.key] = None
    /\ Report(Persist(u), i, "inserted")
    /\ items' = [items EXCEPT ![q.key] = q.payload]
    /\ total' = total + q.payload.amount_minor
    /\ UNCHANGED <<status, invoices, wf, upd>>

\* Mutant: the status of the bill is not checked.
ChargeLineItemAnyStatus(u, i) ==
    LET q == upd[u].req IN
    /\ Running(Persist(u), i)
    /\ status # "NONE"
    /\ items[q.key] = None
    /\ total + q.payload.amount_minor <= MaxTotal
    /\ \E r \in {"inserted", "none"} : Report(Persist(u), i, r)
    /\ items' = [items EXCEPT ![q.key] = q.payload]
    /\ total' = total + q.payload.amount_minor
    /\ UNCHANGED <<status, invoices, wf, upd>>

\* Mutant: the upsert overwrites a row whose payload differs.
ChargeLineItemUpsert(u, i) ==
    LET q == upd[u].req IN
    /\ Running(Persist(u), i)
    /\ status = "OPEN"
    /\ total + q.payload.amount_minor <= MaxTotal
    /\ \E r \in {"inserted", "none"} : Report(Persist(u), i, r)
    /\ items' = [items EXCEPT ![q.key] = q.payload]
    /\ total' = total + q.payload.amount_minor
    /\ UNCHANGED <<status, invoices, wf, upd>>

\* A new line item is charged; the COMMIT may be reported as failed.
ChargeLineItem(u, i) ==
    LET q == upd[u].req IN
    /\ Running(Persist(u), i)
    /\ status = "OPEN"
    /\ items[q.key] = None
    /\ total + q.payload.amount_minor <= MaxTotal
    /\ \E r \in {"inserted", "none"} : Report(Persist(u), i, r)
    /\ items' = [items EXCEPT ![q.key] = q.payload]
    /\ total' = total + q.payload.amount_minor
    /\ UNCHANGED <<status, invoices, wf, upd>>

\* Every other way PersistLineItem ends changes nothing: a business error, a
\* replay, or a failure.
RefuseLineItem(u, i) ==
    LET q == upd[u].req IN
    /\ Running(Persist(u), i)
    /\ \/ status # "OPEN" /\ Report(Persist(u), i, "FAILED_PRECONDITION")
       \/ /\ status = "OPEN"
          /\ items[q.key] # None /\ HashesAgree(items[q.key], q.payload)
          /\ Report(Persist(u), i, "existing")
       \/ /\ status = "OPEN"
          /\ items[q.key] # None /\ ~HashesAgree(items[q.key], q.payload)
          /\ Report(Persist(u), i, "ALREADY_EXISTS")
       \/ Report(Persist(u), i, "none")
    /\ UNCHANGED <<tables, invoices, wf, upd>>

PersistLineItem(u, i) == ChargeLineItem(u, i) \/ RefuseLineItem(u, i)

\* MarkClosedInDB closes an OPEN bill; on any other bill it succeeds as well and
\* changes nothing.
MarkClosedInDB(w, i) ==
    /\ Running(Mark(w), i)
    /\ \/ /\ status' = IF status = "OPEN" THEN "CLOSED" ELSE status
          /\ \E r \in {"ok", "none"} : Report(Mark(w), i, r)
       \/ /\ UNCHANGED status
          /\ Report(Mark(w), i, "none")
    /\ UNCHANGED <<total, items, invoices, wf, upd>>

SendInvoiceEmail(w, i) ==
    /\ Running(Invoice(w), i)
    /\ \/ /\ invoices' = invoices + 1
          /\ \E r \in {"ok", "none"} : Report(Invoice(w), i, r)
       \/ /\ UNCHANGED invoices
          /\ Report(Invoice(w), i, "none")
    /\ UNCHANGED <<tables, wf, upd>>

-----------------------------------------------------------------------------
(***************************************************************************)
(* Workflow tasks.                                                         *)
(***************************************************************************)

\* Mutant: updates without an answer are dropped with the run.
CloseRunDropsUpdates(w, phase) ==
    /\ wf' = [wf EXCEPT ![w].phase = phase]
    /\ act' = [a \in Activities |-> IF RunOf(a) = w THEN Over(a) ELSE act[a]]
    /\ UNCHANGED upd

\* A run closes, and the server forgets its pending activities.  BillingWorkflow
\* does not wait for its update handlers, so the updates of the primary run that
\* have no answer yet are aborted.
CloseRun(w, phase) ==
    /\ wf' = [wf EXCEPT ![w].phase = phase]
    /\ act' = [a \in Activities |-> IF RunOf(a) = w THEN Over(a) ELSE act[a]]
    /\ upd' = [u \in Updates |->
                 IF w = Primary /\ upd[u].phase \in {"sent", "accepted"}
                 THEN [upd[u] EXCEPT !.phase = "done", !.reply = "unreachable"]
                 ELSE upd[u]]

\* The update validator, and the handler up to ExecuteActivity.
HandleUpdate(u) ==
    /\ upd[u].phase = "sent"
    /\ \/ /\ wf[Primary].phase = "accruing"
          /\ upd' = [upd EXCEPT ![u].phase = "accepted"]
          /\ act' = [act EXCEPT ![Persist(u)] = Scheduled]
       \/ /\ wf[Primary].phase \in OpenPhases \ {"accruing"}
          /\ upd' = [upd EXCEPT ![u].phase = "done", ![u].reply = "FAILED_PRECONDITION"]
          /\ UNCHANGED act
    /\ UNCHANGED <<tables, invoices, wf>>

\* Mutant: replays are counted as well.
FinishUpdateCountsReplays(u) ==
    \E r \in Results \cup {"failed"} :
        /\ Ends(Persist(u), r)
        /\ act' = [act EXCEPT ![Persist(u)] = Over(Persist(u))]
        /\ upd' = [upd EXCEPT ![u].phase = "done", ![u].reply = r]
        /\ wf' = IF r \in Acknowledged
                 THEN [wf EXCEPT ![Primary].totalMinor = @ + upd[u].req.payload.amount_minor]
                 ELSE wf
        /\ UNCHANGED <<tables, invoices>>

\* The handler after the activity: the running total counts new items only.
FinishUpdate(u) ==
    \E r \in Results \cup {"failed"} :
        /\ Ends(Persist(u), r)
        /\ act' = [act EXCEPT ![Persist(u)] = Over(Persist(u))]
        /\ upd' = [upd EXCEPT ![u].phase = "done", ![u].reply = r]
        /\ wf' = IF r = "inserted"
                 THEN [wf EXCEPT ![Primary].totalMinor = @ + upd[u].req.payload.amount_minor]
                 ELSE wf
        /\ UNCHANGED <<tables, invoices>>

\* Mutant: only the zero wait of a fallback run sets a timer.
TimerFiresAtOnceOnly(w) ==
    /\ w \in Fallbacks
    /\ wf[w].phase = "accruing"
    /\ ~wf[w].wake
    /\ wf' = [wf EXCEPT ![w].wake = TRUE]
    /\ UNCHANGED <<tables, invoices, upd, act>>

\* The timer at period_end, which a fallback run sets to now.
TimerFires(w) ==
    /\ wf[w].phase = "accruing"
    /\ ~wf[w].wake
    /\ wf' = [wf EXCEPT ![w].wake = TRUE]
    /\ UNCHANGED <<tables, invoices, upd, act>>

\* The selector returns: billOpen becomes false, the loop ends, and the close
\* phase starts.
LeaveAccrual(w) ==
    /\ wf[w].phase = "accruing"
    /\ wf[w].wake
    /\ wf' = [wf EXCEPT ![w].phase = "marking"]
    /\ act' = [act EXCEPT ![Mark(w)] = Scheduled]
    /\ UNCHANGED <<tables, invoices, upd>>

\* Mutant: the error of MarkClosedInDB is logged and the invoice sent anyway.
FinishMarkIgnoresError(w) ==
    /\ wf[w].phase = "marking"
    /\ \E r \in {"ok", "failed"} : Ends(Mark(w), r)
    /\ wf' = [wf EXCEPT ![w].phase = "invoicing"]
    /\ act' = [act EXCEPT ![Mark(w)] = Over(Mark(w)), ![Invoice(w)] = Scheduled]
    /\ UNCHANGED <<tables, invoices, upd>>

\* MarkClosedInDB is over: the invoice is next, or the workflow fails.
FinishMark(w) ==
    /\ wf[w].phase = "marking"
    /\ \/ /\ Ends(Mark(w), "ok")
          /\ wf' = [wf EXCEPT ![w].phase = "invoicing"]
          /\ act' = [act EXCEPT ![Mark(w)] = Over(Mark(w)), ![Invoice(w)] = Scheduled]
          /\ UNCHANGED upd
       \/ Ends(Mark(w), "failed") /\ CloseRun(w, "failed")
    /\ UNCHANGED <<tables, invoices>>

\* Mutant: the error of SendInvoiceEmail is swallowed.
FinishInvoiceIgnoresError(w) ==
    /\ wf[w].phase = "invoicing"
    /\ \E r \in {"ok", "failed"} : Ends(Invoice(w), r)
    /\ CloseRun(w, "completed")
    /\ UNCHANGED <<tables, invoices>>

\* SendInvoiceEmail is over, and with it the workflow.
FinishInvoice(w) ==
    /\ wf[w].phase = "invoicing"
    /\ \/ Ends(Invoice(w), "ok") /\ CloseRun(w, "completed")
       \/ Ends(Invoice(w), "failed") /\ CloseRun(w, "failed")
    /\ UNCHANGED <<tables, invoices>>

\* TerminateWorkflow: no more tasks, no close phase.
TerminateWorkflow(w) ==
    /\ Open(w)
    /\ CloseRun(w, "terminated")
    /\ UNCHANGED <<tables, invoices>>

-----------------------------------------------------------------------------

\* What workers and server do by themselves.
WorkerStep ==
    \/ \E a \in Activities : RetryActivity(a)
    \/ \E i \in 1..MaxAttempts :
          \/ \E u \in Updates : PersistLineItem(u, i)
          \/ \E w \in Workflows : MarkClosedInDB(w, i) \/ SendInvoiceEmail(w, i)
    \/ \E u \in Updates : HandleUpdate(u) \/ FinishUpdate(u)
    \/ \E w \in Workflows :
          TimerFires(w) \/ LeaveAccrual(w) \/ FinishMark(w) \/ FinishInvoice(w)

\* What the API asks for, in any order its handlers may produce.
Environment ==
    \/ InsertBill
    \/ CancelBill
    \/ TerminateWorkflow(Primary)
    \/ \E w \in Workflows : StartWorkflow(w) \/ SignalClose(w)
    \/ \E u \in Updates, q \in Request : SendUpdate(u, q)

Next == WorkerStep \/ Environment

Spec == Init /\ [][Next]_vars

-----------------------------------------------------------------------------
(***************************************************************************)
(* Properties.                                                             *)
(***************************************************************************)

\* The running total the workflow answers to "get-total" never exceeds what the
\* database has charged: a retried PersistLineItem whose first attempt already
\* committed reports Inserted = false and is not counted twice.
RunningTotalNeverOverstates == wf[Primary].totalMinor <= total

\* An answer to an update says what is stored: an acknowledged item is there
\* with its payload, at most one update is told that it inserted the key, a
\* mismatch means another payload holds the key, and a bill that is reported not
\* open is closing or has left OPEN; whatever attempts ran, late ones included.
AnswersAreTrue ==
    \A u \in Updates :
        LET row == items[upd[u].req.key]
        IN  /\ upd[u].reply \in Acknowledged => row = upd[u].req.payload
            /\ upd[u].reply = "inserted" =>
                  \A v \in Updates \ {u} :
                      upd[v].reply = "inserted" => upd[v].req.key # upd[u].req.key
            /\ upd[u].reply = "ALREADY_EXISTS" => row \notin {None, upd[u].req.payload}
            /\ upd[u].reply = "FAILED_PRECONDITION" =>
                  status # "OPEN" \/ wf[Primary].phase # "accruing"

\* Once an invoice has been sent, the bill it was sent for never changes again,
\* although activity attempts that the server has given up, of runs that are
\* over, may still reach the database.
InvoiceIsFinal == [][invoices > 0 => UNCHANGED tables]_vars

\* A run completes only with the bill out of OPEN and the invoice sent, and runs
\* do not share an invoice.
CompletedRunsInvoiced ==
    LET completed == {w \in Workflows : wf[w].phase = "completed"}
    IN  /\ Cardinality(completed) <= invoices
        /\ completed # {} => status \in {"CLOSED", "CANCELLED"}

\* The runs that have got as far as the invoice, or are over.
InvoicingRuns == {w \in Workflows : wf[w].phase \notin {"none", "accruing", "marking"}}

\* RetryPolicy.MaximumAttempts bounds how often a customer gets the invoice of a run:
\* attempts that were given up and send it late, lost answers and runs that are
\* terminated while an attempt runs included.
InvoicesBounded == invoices <= MaxAttempts * Cardinality(InvoicingRuns)

\* Every update that reached the workflow is answered, also when the workflow
\* closes while its handler waits for the activity.
UpdatesAnswered == \A u \in Updates : upd[u].phase = "sent" ~> upd[u].phase = "done"

\* Retries, late attempts and both workflows together implement the ledger.
OneBill == {"bill"}
Ledger == INSTANCE BillLedger WITH
              Bills <- OneBill,
              status <- [b \in OneBill |-> status],
              total <- [b \in OneBill |-> total],
              items <- [b \in OneBill |-> items]
ImplementsLedger == Ledger!Spec

-----------------------------------------------------------------------------
(***************************************************************************)
(* What the documentation says and the code does not do.                   *)
(***************************************************************************)

\* activities.go: business errors are non-retryable, so that Temporal does not
\* retry business-logic failures.  They are made retryable, and it does.
BusinessErrorsAreFinal ==
    [][\A u \in Updates :
          LET a == Persist(u)
          IN  /\ act[a].open /\ act[a].attempt \in 1..MaxAttempts
              /\ LastResult(a) \in BusinessErrors
              => act'[a].attempt \in {0, act[a].attempt}]_vars

=============================================================================
