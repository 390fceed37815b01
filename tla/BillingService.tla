--------------------------- MODULE BillingService ---------------------------
(***************************************************************************)
(* The API handlers that write, for one bill: CreateBill, AddLineItem and  *)
(* UpdateBill, on top of BillingWorkflow.                                  *)
(*                                                                         *)
(* A handler makes one call to Postgres or Temporal per step.  Any call    *)
(* may fail, and may have taken effect although it is reported as failed.  *)
(* Between two calls of a handler every other handler, workflow and        *)
(* activity runs; bills can be listed, so callers may address a bill whose *)
(* CreateBill has not returned.                                            *)
(***************************************************************************)
EXTENDS BillingWorkflow, BillRequests

CONSTANTS
    Closers,           \* calls of UpdateBill
    CloseTexts,        \* what the callers of UpdateBill send for the status
    LineItemRequests   \* what the callers of AddLineItem send

\* Keys and Payloads hold whatever parseAddLineItemRequest makes of the requests
\* it accepts; an int64 amount is in the range of a BIGINT.
ASSUME LineItemRequestsAssumption ==
    \A req \in LineItemRequests :
        AcceptsLineItem(req) => parseAddLineItemRequest(req) \in Request

VARIABLES
    create,  \* the call of CreateBill
    close    \* the calls of UpdateBill

workflowVars == vars
serviceVars == <<vars, create, close>>

-----------------------------------------------------------------------------

\* The next call CreateBill makes, or how it ended.  compensated tells whether
\* cancelBill or terminateBillingWorkflow reported success.
CreateCall ==
    [pc: {"insert", "start", "cancel", "record", "terminate", "ok", "error", "crashed"},
     compensated: BOOLEAN]

\* The next call UpdateBill makes, the run it waits for, and its answer, with the
\* status of the bill in it.
CloseCall ==
    [pc: {"signal", "wait", "check", "fallback", "read", "done"},
     on: Workflows \cup {None},
     reply: {"none", "ok", "not_found", "unavailable", "internal"},
     status: BillStatus]

ServiceTypeOK ==
    /\ TypeOK
    /\ create \in CreateCall
    /\ close \in [Closers -> CloseCall]

ServiceInit ==
    /\ Init
    /\ create = [pc |-> "insert", compensated |-> FALSE]
    /\ close = [c \in Closers |-> [pc |-> "signal", on |-> None,
                                   reply |-> "none", status |-> "NONE"]]

-----------------------------------------------------------------------------
(***************************************************************************)
(* CreateBill.                                                             *)
(***************************************************************************)

CreateGoes(pc) == create' = [create EXCEPT !.pc = pc]

\* Mutant: the workflow is started before the bill is inserted.
CreateInsertLast ==
    /\ create.pc = "insert"
    /\ wf' = [wf EXCEPT ![Primary].phase = "accruing"]
    /\ CreateGoes("cancel")
    /\ UNCHANGED <<tables, invoices, upd, act, close>>

\* createBill; on an error the handler returns, whatever became of the INSERT.
CreateInsert ==
    /\ create.pc = "insert"
    /\ \/ InsertBill /\ (CreateGoes("start") \/ CreateGoes("error"))
       \/ UNCHANGED vars /\ CreateGoes("error")
    /\ UNCHANGED close

\* startBillingWorkflow; on an error the run may have been started or not.
CreateStart ==
    /\ create.pc = "start"
    /\ \/ StartWorkflow(Primary) /\ (CreateGoes("record") \/ CreateGoes("cancel"))
       \/ UNCHANGED vars /\ CreateGoes("cancel")
    /\ UNCHANGED close

\* Mutant: a failed cancelBill is not told apart from a successful one.
CreateCancelUnchecked ==
    /\ create.pc = "cancel"
    /\ CancelBill \/ UNCHANGED vars
    /\ create' = [pc |-> "error", compensated |-> TRUE]
    /\ UNCHANGED close

\* Mutant: the handler does not return after cancelBill, and goes on to the run id.
CreateCancelGoesOn ==
    /\ create.pc = "cancel"
    /\ CancelBill \/ UNCHANGED vars
    /\ CreateGoes("record")
    /\ UNCHANGED close

\* cancelBill: an UPDATE that affects no row succeeds as well.
CreateCancel ==
    /\ create.pc = "cancel"
    /\ \/ /\ CancelBill \/ (status # "OPEN" /\ UNCHANGED vars)
          /\ create' = [pc |-> "error", compensated |-> TRUE]
       \/ /\ CancelBill \/ UNCHANGED vars
          /\ CreateGoes("error")
    /\ UNCHANGED close

\* setBillWorkflowRunID; the column itself plays no part here.
CreateRecord ==
    /\ create.pc = "record"
    /\ CreateGoes("ok") \/ CreateGoes("terminate")
    /\ UNCHANGED <<vars, close>>

\* terminateBillingWorkflow.  The bill itself is left as it is.
CreateTerminate ==
    /\ create.pc = "terminate"
    /\ \/ /\ TerminateWorkflow(Primary)
          /\ \/ create' = [pc |-> "error", compensated |-> TRUE]
             \/ CreateGoes("error")
       \/ UNCHANGED vars /\ CreateGoes("error")
    /\ UNCHANGED close

\* The API process dies between two calls.
CreateCrash ==
    /\ create.pc \in {"start", "cancel", "record", "terminate"}
    /\ CreateGoes("crashed")
    /\ UNCHANGED <<vars, close>>

CreateBill ==
    CreateInsert \/ CreateStart \/ CreateCancel \/ CreateRecord \/ CreateTerminate
        \/ CreateCrash

-----------------------------------------------------------------------------
(***************************************************************************)
(* AddLineItem.                                                            *)
(***************************************************************************)

\* A request that is accepted is sent to the primary workflow as an update, and the
\* handler waits for it.
AddLineItem(u, req) ==
    /\ AcceptsLineItem(req)
    /\ SendUpdate(u, parseAddLineItemRequest(req))
    /\ UNCHANGED <<create, close>>

\* The answer of AddLineItem: a failed activity, a missing or closed workflow are
\* no ApplicationError of a known type.
mapTemporalError(reply) ==
    CASE reply \in Acknowledged -> "ok"
      [] reply = "FAILED_PRECONDITION" -> "failed_precondition"
      [] reply = "ALREADY_EXISTS" -> "already_exists"
      [] reply \in {"failed", "unreachable"} -> "internal"

-----------------------------------------------------------------------------
(***************************************************************************)
(* UpdateBill.                                                             *)
(***************************************************************************)

Answer(c, reply) ==
    close' = [close EXCEPT ![c].pc = "done", ![c].reply = reply]

\* A request for another status than CLOSED is rejected.  Otherwise
\* signalCloseBillingWorkflow: on an error, delivered or not, the handler looks
\* at the database.
CloseSignal(c, text) ==
    /\ close[c].pc = "signal"
    /\ AcceptsStatus(text)
    /\ \/ /\ SignalClose(Primary)
          /\ close' = [close EXCEPT ![c].pc = "wait", ![c].on = Primary]
       \/ /\ SignalClose(Primary) \/ UNCHANGED vars
          /\ close' = [close EXCEPT ![c].pc = "check"]
    /\ UNCHANGED create

\* Mutant: the error of the wait is returned as it is.
CloseWaitUnmapped(c) ==
    /\ close[c].pc = "wait"
    /\ \/ /\ wf[close[c].on].phase = "completed"
          /\ close' = [close EXCEPT ![c].pc = "read"]
       \/ Answer(c, "deadline_exceeded")
    /\ UNCHANGED <<vars, create>>

\* Mutant: the timeout of the wait is ignored and the bill read all the same.
CloseWaitIgnoresTimeout(c) ==
    /\ close[c].pc = "wait"
    /\ close' = [close EXCEPT ![c].pc = "read"]
    /\ UNCHANGED <<vars, create>>

\* waitForWorkflowWithTimeout: the run completes, or closeWaitTimeout elapses
\* first, or there is an error: the run's own, or one of the call.
CloseWait(c) ==
    /\ close[c].pc = "wait"
    /\ \/ /\ wf[close[c].on].phase = "completed"
          /\ close' = [close EXCEPT ![c].pc = "read"]
       \/ \E reply \in {"unavailable", "internal"} : Answer(c, reply)
    /\ UNCHANGED <<vars, create>>

\* getBill: a bill that is OPEN although its workflow cannot be signalled needs
\* the fallback.
CloseCheck(c) ==
    /\ close[c].pc = "check"
    /\ \/ status = "NONE" /\ Answer(c, "not_found")
       \/ status = "OPEN" /\ close' = [close EXCEPT ![c].pc = "fallback"]
       \/ status \in {"CLOSED", "CANCELLED"} /\ close' = [close EXCEPT ![c].pc = "read"]
       \/ Answer(c, "internal")
    /\ UNCHANGED <<vars, create>>

\* startBillingWorkflow under the fallback id: a new run, or the one that is open.
\* On an error a run may have been started as well.
CloseFallback(c) ==
    /\ close[c].pc = "fallback"
    /\ \/ \E w \in Fallbacks :
             /\ StartWorkflow(w) \/ (Open(w) /\ UNCHANGED vars)
             /\ close' = [close EXCEPT ![c].pc = "wait", ![c].on = w]
       \/ /\ (\E w \in Fallbacks : StartWorkflow(w)) \/ UNCHANGED vars
          /\ Answer(c, "unavailable")
    /\ UNCHANGED create

\* loadBillWithItems.
CloseRead(c) ==
    /\ close[c].pc = "read"
    /\ \/ close' = [close EXCEPT ![c].pc = "done", ![c].reply = "ok", ![c].status = status]
       \/ Answer(c, "internal")
    /\ UNCHANGED <<vars, create>>

UpdateBill(c) ==
    \/ \E text \in CloseTexts : CloseSignal(c, text)
    \/ CloseWait(c) \/ CloseCheck(c) \/ CloseFallback(c) \/ CloseRead(c)

-----------------------------------------------------------------------------

ServiceNext ==
    \/ CreateBill
    \/ \E u \in Updates, req \in LineItemRequests : AddLineItem(u, req)
    \/ \E c \in Closers : UpdateBill(c)
    \/ WorkerStep /\ UNCHANGED <<create, close>>

ServiceSpec == ServiceInit /\ [][ServiceNext]_serviceVars

\* Steps of BillingWorkflow, while no handler moves.
Alone(A) == A /\ UNCHANGED <<create, close>>

\* A live worker gets every workflow task, and an activity ends at the latest with
\* ScheduleToCloseTimeout.  Of the timers only the fallback's, whose period_end is
\* now, is sure to fire soon.  Nothing is assumed of retries, of attempts being
\* successful, or of the handlers.
ServiceFairness ==
    /\ \A w \in Workflows :
          WF_serviceVars(Alone(LeaveAccrual(w) \/ FinishMark(w) \/ FinishInvoice(w)))
    /\ \A u \in Updates :
          WF_serviceVars(Alone(HandleUpdate(u))) /\ WF_serviceVars(Alone(FinishUpdate(u)))
    /\ \A w \in Fallbacks : WF_serviceVars(Alone(TimerFires(w)))

FairServiceSpec == ServiceSpec /\ ServiceFairness

-----------------------------------------------------------------------------
(***************************************************************************)
(* Properties.                                                             *)
(***************************************************************************)

\* UpdateBill answers 200 only with a bill that has left OPEN for good, however
\* its signal, wait, database check and fallback interleave with timers,
\* retries, other calls and CreateBill.
UpdateBillIsTrue ==
    \A c \in Closers :
        close[c].reply = "ok" => close[c].status \in {"CLOSED", "CANCELLED"}
                                 /\ status = close[c].status

\* When CreateBill has failed and its compensation reported success, the caller's
\* retry with a new bill is safe: no workflow is left that accepts items for this
\* one while it is OPEN.
CompensationStopsBilling ==
    create.compensated => ~(status = "OPEN" /\ Open(Primary))

\* An invoice is for a CLOSED bill, or for one its customer was told does not exist.
\* MarkClosedInDB reports success on any bill that is not OPEN, so a run goes on to
\* invoice a CANCELLED one: only CreateBill cancels bills, when it takes the start of
\* that run for failed, and then it never answers ok.
InvoicedIsClosed ==
    invoices > 0 => \/ status = "CLOSED"
                    \/ status = "CANCELLED" /\ create.pc = "error"

\* A close request that Temporal accepted closes the bill, also after the caller
\* was told that the close is still processing, unless the workflow fails.
AcceptedCloseHappens ==
    \A c \in Closers, w \in Workflows :
        close[c].pc = "wait" /\ close[c].on = w ~>
            status \in {"CLOSED", "CANCELLED"} \/ wf[w].phase \in {"failed", "terminated"}

\* If its timer fires, a bill whose primary workflow runs leaves OPEN at period_end,
\* without anybody asking for it, unless that workflow is terminated or fails.
ClosesAtPeriodEnd ==
    WF_serviceVars(Alone(TimerFires(Primary))) =>
        (wf[Primary].phase = "accruing" ~>
            status # "OPEN" \/ wf[Primary].phase \in {"failed", "terminated"})

\* The handlers ask of database and Temporal only what BillingWorkflow assumes of
\* its environment, so that all that holds of it holds of the service.
UsesWorkflow == Spec

-----------------------------------------------------------------------------
(***************************************************************************)
(* What the documentation says and the code does not do.                   *)
(***************************************************************************)

\* README.md: the caller of AddLineItem gets immediate confirmation that the item
\* was persisted or rejected.  An item can be both: its first attempt commits, the
\* answer is lost, the bill closes, and the retry finds the bill not open.
RejectedIsNotPersisted ==
    \A u \in Updates :
        /\ create.pc = "ok" /\ upd[u].phase = "done"
        /\ mapTemporalError(upd[u].reply) = "failed_precondition"
        /\ \A v \in Updates \ {u} : upd[v].req # upd[u].req
        => items[upd[u].req.key] # upd[u].req.payload

\* docs/API.md: AddLineItem answers failed_precondition for a closed or cancelled
\* bill.  Once its workflow is over, Temporal answers that there is no workflow.
ClosedBillIsFailedPrecondition ==
    [][\A u \in Updates :
          /\ create.pc = "ok" /\ status \in {"CLOSED", "CANCELLED"}
          /\ upd[u].phase = "idle" /\ upd'[u].phase = "done"
          => mapTemporalError(upd'[u].reply) = "failed_precondition"]_serviceVars

\* docs/API.md: if the signal fails, a fallback is started to ensure that the
\* invoice is delivered.  A bill that is CLOSED in the database gets none, even
\* if its workflow failed before it sent the invoice and no other run is left.
ClosedMeansInvoiced ==
    \A c \in Closers :
        /\ close[c].reply = "ok" /\ close[c].status = "CLOSED"
        /\ \A w \in Workflows : ~Open(w)
        => invoices > 0

=============================================================================
