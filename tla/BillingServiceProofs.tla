-------------------------- MODULE BillingServiceProofs ------------------------
(***************************************************************************)
(* Proofs about BillingService, for any number of callers, updates,        *)
(* fallback runs, attempts, keys and payloads.  What holds of              *)
(* BillingWorkflow is carried over first, and the handlers build on it.    *)
(***************************************************************************)
EXTENDS BillingService, BillingWorkflowProofs

(***************************************************************************)
(* What the handlers do to BillingWorkflow.                                *)
(***************************************************************************)

\* The handlers call database and Temporal in the ways BillingWorkflow allows.
LEMMA HandlersAreEnvironment ==
    ASSUME CreateBill \/ (\E c \in Closers : UpdateBill(c))
    PROVE  UNCHANGED vars \/ Environment
<1>1. Primary \in Workflows /\ Fallbacks \subseteq Workflows
    BY DEF Workflows
<1>2. CASE CreateBill
    BY <1>1, <1>2 DEF CreateBill, CreateInsert, CreateStart, CreateCancel, CreateRecord,
                      CreateTerminate, CreateCrash, Environment
<1>3. ASSUME NEW c \in Closers, UpdateBill(c)
      PROVE  UNCHANGED vars \/ Environment
  <2>1. CASE \E text \in CloseTexts : CloseSignal(c, text)
      BY <1>1, <2>1 DEF CloseSignal, Environment
  <2>2. CASE CloseFallback(c)
      BY <1>1, <2>2 DEF CloseFallback, Environment
  <2>3. CASE CloseWait(c) \/ CloseCheck(c) \/ CloseRead(c)
      BY <2>3 DEF CloseWait, CloseCheck, CloseRead
  <2> QED
      BY <1>3, <2>1, <2>2, <2>3 DEF UpdateBill
<1> QED
    BY <1>2, <1>3

\* Every step of the service is a step of BillingWorkflow, or leaves it alone.
LEMMA StepUsesWorkflow == [ServiceNext]_serviceVars => [Next]_vars
<1> SUFFICES ASSUME [ServiceNext]_serviceVars PROVE [Next]_vars
    OBVIOUS
<1>1. CASE UNCHANGED serviceVars
    BY <1>1 DEF serviceVars
<1>2. CASE CreateBill \/ (\E c \in Closers : UpdateBill(c))
    BY <1>2, HandlersAreEnvironment DEF Next
<1>3. ASSUME NEW u \in Updates, NEW req \in LineItemRequests, AddLineItem(u, req)
      PROVE  Next
  <2>1. parseAddLineItemRequest(req) \in Request /\ SendUpdate(u, parseAddLineItemRequest(req))
      BY <1>3, LineItemRequestsAssumption DEF AddLineItem
  <2> QED
      BY <2>1 DEF Next, Environment
<1>4. CASE WorkerStep
    BY <1>4 DEF Next
<1> QED
    BY <1>1, <1>2, <1>3, <1>4 DEF ServiceNext

\* The handlers ask of database and Temporal only what BillingWorkflow assumes of its
\* environment.
THEOREM ServiceUsesWorkflow == ServiceSpec => UsesWorkflow
<1>1. ServiceInit => Init
    BY DEF ServiceInit
<1> QED
    BY <1>1, StepUsesWorkflow, PTL DEF ServiceSpec, UsesWorkflow, Spec

\* The inductive invariant of BillingWorkflow holds in the service.
LEMMA ServiceKeepsInvariant == ServiceSpec => []WorkflowInv
BY ServiceUsesWorkflow, WorkflowInvariant DEF UsesWorkflow

\* Bill, updates and invoices behave in the service as BillingWorkflow promises,
\* whatever the handlers do and whenever they die.
THEOREM ServiceKeepsPromises ==
    ServiceSpec => /\ [](AnswersAreTrue /\ RunningTotalNeverOverstates)
                   /\ [](CompletedRunsInvoiced /\ InvoicesBounded)
                   /\ InvoiceIsFinal
                   /\ ImplementsLedger
<1>1. Spec => /\ [](AnswersAreTrue /\ RunningTotalNeverOverstates)
              /\ [](CompletedRunsInvoiced /\ InvoicesBounded)
    BY AnswersTrue, RunningTotalBounded, RunsInvoiced, InvoicesStayBounded, PTL
<1> QED
    BY <1>1, ServiceUsesWorkflow, InvoiceFinal, WorkflowImplementsLedger DEF UsesWorkflow

\* Only CreateBill cancels a bill, and only with cancelBill.
LEMMA OnlyCreateCancels ==
    ASSUME [ServiceNext]_serviceVars, status' = "CANCELLED", ~CreateCancel
    PROVE  status = "CANCELLED"
<1>1. CASE UNCHANGED serviceVars
    BY <1>1 DEF serviceVars, vars, tables
<1>2. CASE CreateBill
    BY <1>2 DEF CreateBill, CreateInsert, CreateStart, CreateRecord, CreateTerminate,
                CreateCrash, InsertBill, StartWorkflow, TerminateWorkflow, CloseRun, vars,
                tables
<1>3. CASE \E u \in Updates, req \in LineItemRequests : AddLineItem(u, req)
    BY <1>3 DEF AddLineItem, SendUpdate, tables
<1>4. CASE \E c \in Closers : UpdateBill(c)
    BY <1>4 DEF UpdateBill, CloseSignal, CloseWait, CloseCheck, CloseFallback, CloseRead,
                SignalClose, StartWorkflow, vars, tables
<1>5. CASE WorkerStep
  <2>1. CASE \E i \in 1..MaxAttempts :
                \/ \E u \in Updates : PersistLineItem(u, i)
                \/ \E w \in Workflows : MarkClosedInDB(w, i) \/ SendInvoiceEmail(w, i)
      BY <2>1 DEF PersistLineItem, ChargeLineItem, RefuseLineItem, MarkClosedInDB,
                  SendInvoiceEmail, tables
  <2>2. CASE \/ \E a \in Activities : RetryActivity(a)
             \/ \E u \in Updates : HandleUpdate(u) \/ FinishUpdate(u)
             \/ \E w \in Workflows :
                   TimerFires(w) \/ LeaveAccrual(w) \/ FinishMark(w) \/ FinishInvoice(w)
      BY <2>2 DEF RetryActivity, HandleUpdate, FinishUpdate, TimerFires, LeaveAccrual,
                  FinishMark, FinishInvoice, tables
  <2> QED
      BY <1>5, <2>1, <2>2 DEF WorkerStep
<1> QED
    BY <1>1, <1>2, <1>3, <1>4, <1>5 DEF ServiceNext

(***************************************************************************)
(* The handlers.                                                           *)
(***************************************************************************)

HandlersTypeOK == create \in CreateCall /\ close \in [Closers -> CloseCall]

\* CreateBill has inserted the bill before it makes any other call, ends when it has
\* cancelled it, and what it reports as compensated cannot accept items any more, now
\* or later.
CreateStage ==
    /\ create.pc \in {"start", "cancel", "record", "terminate"} => status # "NONE"
    /\ status = "CANCELLED" => create.pc = "error"
    /\ create.compensated => LeftOpen \/ wf[Primary].phase \in ClosedPhases

\* UpdateBill waits for a run, and reads and answers with a bill that has left OPEN.
CloseStage ==
    \A c \in Closers :
        /\ close[c].pc = "wait" => close[c].on \in Workflows
        /\ close[c].pc = "read" => LeftOpen
        /\ close[c].reply = "ok" => LeftOpen /\ close[c].status = status

HandlersInv == HandlersTypeOK /\ CreateStage /\ CloseStage

\* Before the first call nothing is claimed.
LEMMA HandlersInit == ServiceInit => HandlersInv
BY DEF ServiceInit, Init, HandlersInv, HandlersTypeOK, CreateCall, CloseCall, BillStatus,
       CreateStage, CloseStage

\* What a call of CreateBill does to CreateBill itself.
LEMMA CreateKeepsStage ==
    ASSUME HandlersInv, WorkflowInv, CreateBill
    PROVE  create' \in CreateCall /\ CreateStage' /\ UNCHANGED close
<1> USE DEF HandlersInv, HandlersTypeOK, CreateCall, CreateGoes
<1>0. /\ LeftOpen => LeftOpen'
      /\ status # "NONE" => status' # "NONE"
      /\ wf[Primary].phase \in ClosedPhases => wf'[Primary].phase \in ClosedPhases
      /\ status' = "CANCELLED" => create.pc = "cancel"
  <2>1. [Next]_vars
      BY HandlersAreEnvironment DEF Next
  <2>2. create.pc # "error"
      BY DEF CreateBill, CreateInsert, CreateStart, CreateCancel, CreateRecord,
             CreateTerminate, CreateCrash
  <2>3. status' = "CANCELLED" => create.pc = "cancel"
      BY <2>2, OnlyCreateCancels DEF CreateStage, CreateCancel, ServiceNext
  <2> QED
      BY <2>1, <2>3, TablesFreeze, RunMoves DEF WorkflowInv, Workflows
<1>1. CASE CreateInsert
    BY <1>0, <1>1 DEF CreateInsert, CreateStage, InsertBill, vars
<1>2. CASE CreateStart
    BY <1>0, <1>2 DEF CreateStart, CreateStage
<1>3. CASE CreateCancel
  <2>1. UNCHANGED close /\ status # "NONE" /\ status \in BillStatus
      BY <1>3 DEF CreateCancel, CreateStage, WorkflowInv, Shape, TypeOK
  <2>2. CASE /\ CancelBill \/ (status # "OPEN" /\ UNCHANGED vars)
             /\ create' = [pc |-> "error", compensated |-> TRUE]
    <3>1. LeftOpen'
        BY <2>1, <2>2 DEF CancelBill, LeftOpen, BillStatus, vars
    <3> QED
        BY <2>1, <2>2, <3>1 DEF CreateStage
  <2>3. CASE CreateGoes("error")
      BY <1>0, <2>1, <2>3 DEF CreateStage
  <2> QED
      BY <1>3, <2>2, <2>3 DEF CreateCancel
<1>4. CASE CreateRecord \/ CreateCrash
    BY <1>0, <1>4 DEF CreateRecord, CreateCrash, CreateStage, vars, tables
<1>5. CASE CreateTerminate
  <2>1. TerminateWorkflow(Primary) => wf'[Primary].phase \in ClosedPhases
      BY CloseRunEffect DEF TerminateWorkflow, WorkflowInv, Shape, Workflows, ClosedPhases
  <2>2. CASE CreateGoes("error")
      BY <1>0, <1>5, <2>2 DEF CreateTerminate, CreateStage
  <2>3. CASE TerminateWorkflow(Primary) /\ create' = [pc |-> "error", compensated |-> TRUE]
      BY <1>5, <2>1, <2>3 DEF CreateTerminate, CreateStage
  <2> QED
      BY <1>5, <2>2, <2>3 DEF CreateTerminate
<1> QED
    BY <1>1, <1>2, <1>3, <1>4, <1>5 DEF CreateBill

\* What a call of UpdateBill does to that call: the others are left alone.
LEMMA CloseKeepsStage ==
    ASSUME HandlersInv, WorkflowInv, NEW c \in Closers, UpdateBill(c)
    PROVE  /\ close' \in [Closers -> CloseCall]
           /\ \A d \in Closers \ {c} : close'[d] = close[d]
           /\ close'[c].pc = "wait" => close'[c].on \in Workflows
           /\ close'[c].pc = "read" => LeftOpen'
           /\ close'[c].reply = "ok" => LeftOpen' /\ close'[c].status = status'
           /\ UNCHANGED create
<1> USE DEF HandlersInv, HandlersTypeOK, CloseCall, Answer
<1>0. /\ close[c].pc = "wait" => close[c].on \in Workflows
      /\ close[c].pc = "read" => LeftOpen
      /\ close[c].reply = "ok" => LeftOpen /\ close[c].status = status
    BY DEF CloseStage
<1>1. LeftOpen => LeftOpen' /\ status' = status
  <2>1. [Next]_vars
      BY HandlersAreEnvironment DEF Next
  <2> QED
      BY <2>1, TablesFreeze DEF WorkflowInv, tables
<1>2. CASE \E text \in CloseTexts : CloseSignal(c, text)
    BY <1>0, <1>1, <1>2 DEF CloseSignal, Workflows
<1>3. CASE CloseWait(c)
  <2>1. wf[close[c].on].phase = "completed" => LeftOpen
      BY <1>0, <1>3 DEF CloseWait, WorkflowInv, Stage
  <2> QED
      BY <1>0, <1>1, <1>3, <2>1 DEF CloseWait
<1>4. CASE CloseCheck(c)
    BY <1>0, <1>1, <1>4 DEF CloseCheck, LeftOpen, vars, tables
<1>5. CASE CloseFallback(c)
    BY <1>0, <1>1, <1>5 DEF CloseFallback, Workflows
<1>6. CASE CloseRead(c)
    BY <1>0, <1>1, <1>6 DEF CloseRead, WorkflowInv, Shape, TypeOK
<1> QED
    BY <1>2, <1>3, <1>4, <1>5, <1>6 DEF UpdateBill

\* HandlersInv is inductive, given what BillingWorkflow promises.
LEMMA HandlersNext ==
    HandlersInv /\ WorkflowInv /\ [ServiceNext]_serviceVars => HandlersInv'
<1> SUFFICES ASSUME HandlersInv, WorkflowInv, [ServiceNext]_serviceVars PROVE HandlersInv'
    OBVIOUS
<1>1. /\ LeftOpen => LeftOpen' /\ status' = status
      /\ status # "NONE" => status' # "NONE"
      /\ wf[Primary].phase \in ClosedPhases => wf'[Primary].phase \in ClosedPhases
    BY StepUsesWorkflow, TablesFreeze, RunMoves DEF WorkflowInv, Workflows, tables
<1>2. UNCHANGED create => CreateStage'
  <2>1. UNCHANGED create => ~CreateCancel
      BY DEF HandlersInv, HandlersTypeOK, CreateCall, CreateCancel, CreateGoes
  <2> QED
      BY <1>1, <2>1, OnlyCreateCancels DEF HandlersInv, CreateStage
<1>3. \A c \in Closers : close'[c] = close[c] =>
            /\ close'[c].pc = "wait" => close'[c].on \in Workflows
            /\ close'[c].pc = "read" => LeftOpen'
            /\ close'[c].reply = "ok" => LeftOpen' /\ close'[c].status = status'
    BY <1>1 DEF HandlersInv, CloseStage
<1>4. UNCHANGED close => CloseStage'
    BY <1>3 DEF CloseStage
<1>5. CASE UNCHANGED <<create, close>>
    BY <1>2, <1>4, <1>5 DEF HandlersInv, HandlersTypeOK
<1>6. CASE CreateBill
    BY <1>4, <1>6, CreateKeepsStage DEF HandlersInv, HandlersTypeOK
<1>7. ASSUME NEW c \in Closers, UpdateBill(c)
      PROVE  HandlersInv'
  <2>1. UNCHANGED create /\ close' \in [Closers -> CloseCall] /\ CloseStage'
      BY <1>3, <1>7, CloseKeepsStage DEF CloseStage
  <2> QED
      BY <1>2, <2>1 DEF HandlersInv, HandlersTypeOK
<1> QED
    BY <1>5, <1>6, <1>7 DEF ServiceNext, serviceVars, AddLineItem

(***************************************************************************)
(* The theorems.                                                           *)
(***************************************************************************)

\* HandlersInv holds in every reachable state of the service.
THEOREM HandlersInvariant == ServiceSpec => []HandlersInv
BY HandlersInit, HandlersNext, ServiceKeepsInvariant, PTL DEF ServiceSpec

\* The whole state of the service is always of its type.
THEOREM ServiceTypeCorrect == ServiceSpec => []ServiceTypeOK
<1>1. WorkflowInv /\ HandlersInv => ServiceTypeOK
    BY DEF WorkflowInv, Shape, HandlersInv, HandlersTypeOK, ServiceTypeOK
<1> QED
    BY <1>1, ServiceKeepsInvariant, HandlersInvariant, PTL

\* UpdateBill answers 200 only with the status of a bill that has left OPEN, and that
\* status stays.
THEOREM UpdateBillTrue == ServiceSpec => []UpdateBillIsTrue
<1>1. HandlersInv => UpdateBillIsTrue
    BY DEF HandlersInv, CloseStage, LeftOpen, UpdateBillIsTrue
<1> QED
    BY <1>1, HandlersInvariant, PTL

\* A compensated bill never accepts items while it is OPEN.
THEOREM CompensationStops == ServiceSpec => []CompensationStopsBilling
<1>1. HandlersInv => CompensationStopsBilling
    BY DEF HandlersInv, CreateStage, LeftOpen, CompensationStopsBilling, Open, OpenPhases,
           ClosedPhases
<1> QED
    BY <1>1, HandlersInvariant, PTL

\* An invoice is for a CLOSED bill, or for the cancelled one of a failed CreateBill.
THEOREM InvoicedClosed == ServiceSpec => []InvoicedIsClosed
<1>1. WorkflowInv /\ HandlersInv => InvoicedIsClosed
    BY DEF WorkflowInv, Stage, LeftOpen, HandlersInv, CreateStage, InvoicedIsClosed
<1> QED
    BY <1>1, ServiceKeepsInvariant, HandlersInvariant, PTL

=============================================================================
