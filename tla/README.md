# Billing service: TLA+ models, checks and proofs

The service keeps bills: an API (Encore, Go) creates bills, adds line items and closes them;
one Temporal workflow per bill owns the bill's life; a worker runs the workflow's activities
against Postgres. This directory holds the models of that protocol, the TLC instances that
check them, and proofs that the safety properties hold for every number of bills, sessions,
updates, runs, attempts and clients.

Run everything from this directory: `tlc -config MCBillStore_safety.cfg MCBillStore` checks a
run, `tlapm BillStoreProofs.tla` checks the proofs. `PROJECT.json` lists the runs, which
definition models which lines, a seeded fault for every property, the findings, the hazards
and the theorems.

## 1. The system

| Component | State it keeps | Operations | Source |
|---|---|---|---|
| Write handlers of the API | none across calls; where a call is in its sequence of external calls | `CreateBill`, `AddLineItem`, `UpdateBill` | `billing/handlers.go`, `temporal_client.go`, `converters.go` |
| Reads of the API | none | `GetBill`, `ListBills` | `billing/handlers.go`, `store.go` |
| Reconciliation | none | `ReconcileWorkflowRunIDs` | `billing/handlers.go`, `store.go` |
| Request parsing | none | `parse*`, `computeLineItemPayloadHash` | `billing/parsing.go`, `types.go` |
| Workflow | `billOpen`, `totalMinor`, where it is | update `add-line-item` with validator, query `get-total`, timer, signal `close-bill`, close phase | `billing/workflowdef/workflow.go` |
| Activities | none | `PersistLineItem`, `MarkClosedInDB`, `SendInvoiceEmail` | `billing/workflowdef/activities.go`, `cmd/fees-worker/` |
| Tables | `bills`, `line_items` | the statements of `store.go` and `internal/workerdb/query.sql` | `billing/migrations/`, `internal/workerdb/` |
| Temporal (external) | workflow histories, buffered signals, timers, pending activities, updates | start, signal, update, terminate, wait, describe | library |
| Worker process | connection pool | start-up, registration | `cmd/fees-worker/main.go` |

How they interact:

- `CreateBill` inserts the bill, starts the workflow, stores the run id. Each call can fail,
  or take effect and be reported as failed; the handler compensates by cancelling the bill or
  by terminating the workflow, and may die between any two calls.
- `AddLineItem` sends an update to the workflow and waits. The workflow's handler runs the
  activity `PersistLineItem`, which runs one transaction, and the result travels back.
- `UpdateBill` signals the workflow and waits two seconds for it to complete. If the signal
  fails it reads the bill, and starts a fallback workflow if the bill is OPEN.
- The workflow leaves its accrual loop on the timer or the signal, then runs
  `MarkClosedInDB` and `SendInvoiceEmail` and is over. It does not wait for its update
  handlers.
- `GetBill`, and `UpdateBill` at its end, read the bill and then its items, without a
  transaction.
- `ListBills` counts the bills and then reads a page, without a transaction. A client walks
  through the pages with one call after the other, while bills are created and closed.
- `ReconcileWorkflowRunIDs` reads a batch of bills without run id, and for each of them
  describes the workflow and stores what it finds, while `CreateBill` stores run ids too.
- Every handler parses its request first. The trimmed key and the payload hash decide what
  the transaction takes for a replay.

What is hard here: transactions of several activity attempts overlap on one bill, a COMMIT
may succeed unnoticed, the server gives attempts up that still run, primary and fallback
workflow may close one bill together, the close races line items that are under way, each
handler is a sequence of calls of which any prefix may be all that happened, pages shift
under the client that walks them, and bills that can never be reconciled stand in the way of
those that can. What must hold all the same: a bill's total is the sum of its items; an item
is charged once per idempotency key; answers are true; nothing changes once a bill was closed
and invoiced; an accepted close happens; a walk through a list misses nothing; run ids belong
to their bills and arrive in the end.

## 2. The modules

| Module | What it is |
|---|---|
| `BillData` | statuses, rows, payloads and their hash, the sum of the items |
| `BillRequests` | what the API accepts, rejects and hands on: pure operators |
| `BillLedger` | abstract specification: what the database promises about bills |
| `BillCalls` | abstract specification: what `PersistLineItem` promises the attempts that call it |
| `BillStore` | Postgres as worker and API use it, one SQL statement per step (but for `GetBillStatus`, see section 6) |
| `BillingWorkflow` | workflow runs, updates and activities of one bill |
| `BillingService` | the write handlers, on top of `BillingWorkflow` and `BillRequests` |
| `BillReconcile` | run ids of several bills: `CreateBill` against `ReconcileWorkflowRunIDs` |
| `BillPages` | `ListBills`, and clients that walk through its pages |
| `BillDataProofs`, `BillStoreProofs` | lemmas about the sum and the hash; the theorems about `BillStore` |
| `BillingWorkflowProofs`, `BillingServiceProofs` | the theorems about these modules |
| `BillReconcileProofs`, `BillPagesProofs` | the theorems about these modules |
| `MCBillData`, `MCBillStore`, `MCBillingWorkflow`, `MCBillingService`, `MCBillReconcile`, `MCBillPages` | instances for TLC |

`BillStore` refines `BillLedger` and `BillCalls`. The ledger has the tables only; `BillCalls` has
the callers as well, and answers each call in one step at which all that the answer says is
true of the tables (`PersistIsAtomic`): with its answers, the transaction is serializable. That
justifies `BillingWorkflow`, where a whole transaction is one step: its `ChargeLineItem` and
`RefuseLineItem` are the `Charge`, `Replay` and `Refuse` of `BillCalls`, and an attempt that fails is
`Fail`. `BillingWorkflow` refines `BillLedger` in turn. `BillingService` extends
`BillingWorkflow`, and its handlers do nothing the workflow module does not already allow its
environment (`UsesWorkflow`, checked in `svc_safety` for the calls of `CreateBill` and `UpdateBill`,
and proved for those of `AddLineItem` too), so what holds of the workflow alone holds
under the API. `BillReconcile` and `BillPages` look at the same
tables from another side: several bills, of which only the columns that matter there are
kept. Each models `CreateBill` itself as far as it touches these columns, and stands beside
the other modules because those never read a run id or a list.

### BillData and BillRequests

A text is a sequence of tokens: words, single digits, separators and white space. A payload is
a description and an amount, and two payloads are taken for the same when the texts that are
hashed agree (`computeLineItemPayloadHash`): description, `|`, digits of the amount. SHA-256
itself is taken to be free of collisions; `Decimal` stands for `fmt`'s `%d`. `BillRequests`
trims, checks and converts requests as `parsing.go` does; `BillingService` and `BillPages` apply
it to requests with white space, wrong case and illegal values.

### BillStore

`status`, `total` and `items` are the committed tables; `lock` the row locks; `tx[t]` one
worker session with its transaction, which keeps its uncommitted writes to itself (`inserted`,
`total`); `view[r]` what a call of `loadBillWithItems` has read. The transaction is `Begin`,
`LockBill` (SELECT ... FOR UPDATE and the status check), `InsertLineItem` (ON CONFLICT DO
NOTHING), then `LoadExisting` (replay or payload mismatch) or `IncrementBillTotal`, and
`Commit`, which may take effect although its caller sees an error. `Rollback` is every
failure: an error, `queryTimeout`, a dead worker. `CloseBill` and `CancelBill` are single
statements that wait for the row lock and affect an OPEN bill only. The items of a bill are a
function from keys to payloads because (bill_id, idempotency_key) is UNIQUE; a replay is told
from a mismatch by the hashes. Totals are bounded by `MaxTotal`, the largest BIGINT: a sum beyond it is
an error of the UPDATE.

The uncommitted row of another session on the same key is never met: both would have to
hold the bill's row lock. `InsertLineItem` relies on that (`CheckedStatusHolds`) and does not
model the wait of ON CONFLICT for a concurrent insert.

### BillingWorkflow

One bill. A run is `accruing` (`billOpen`), `marking` or `invoicing` (the close phase), or
over. `wake` is the fired timer or the buffered signal the selector waits for. An update is
`sent`, `accepted` by the validator, and `done`. An activity is pending at the server with
the attempt it waits for; attempts run in workers by themselves. An attempt takes effect at
most once, before or after the server has given it up; it may fail before its effect, or after
it so that the effect goes unreported. `RetryActivity` starts the next attempt, `Ends` is how
the server ends an activity. `CloseRun` aborts updates without an answer, as the server does
when a workflow returns with handlers running. A business error (bill not open, payload
mismatch) is retried like any other error, see the findings.

Fallback runs have the same code, a zero timer and their own id; members of `Fallbacks` are
the successive runs under that id, one open at a time.

### BillingService

`create` and `close[c]` say which call a handler makes next. Each call is a step that may
succeed, fail, or succeed and be reported as failed. `CreateCrash` is the API process dying.
Requests of `AddLineItem` and statuses of `UpdateBill` are parsed with `BillRequests`: the key and the
payload that reach the workflow are what the parser makes of a request.
Any call of `AddLineItem` and `UpdateBill` may address a bill whose `CreateBill` has not
returned, because bills are listed as soon as they are inserted.

### BillReconcile

Several bills with `created` (`created_at`), `runId` (`workflow_run_id`), `create` (the next
call of `CreateBill`) and `run` (what Temporal knows of the bill's one run: a closed run is
forgotten after the retention period). `pass[p]` is a call of `ReconcileWorkflowRunIDs`: the
batch it has read, the row it is at, the run id it has found and its counters. `PassBegin`
reads the batch, oldest first; `Describe` and `Persist` are the two calls for each row, between
which everybody else goes on; `DescribeFails` and `PersistFails` count the row as failed and
go on with the next. A pass that dies is one whose remaining calls fail and whose report
nobody reads.

### BillPages

`bill` is the table with status, account and `created_at`; `walk[c]` a client that walks
through the pages of one request: it goes on at the offset plus the limit of each answer,
repeats a call that failed and stops at a page shorter than that limit. `CountBills` and
`FetchPage` are the two statements of `listBills`; bills are created and leave OPEN between
any two of them. `ORDER BY created_at DESC` says nothing of rows that share one, so any such
order may be the one a page is cut from. `Meant` says which bills the client asks for, with
accounts compared trimmed; `Matching` is the WHERE clause.

## 3. The runs

| Run | Bounds | Shows |
|---|---|---|
| `store_safety` | 1 bill, 3 sessions, 1 reader, 2 keys, 2 payloads, MaxTotal 12 | types, total = sum of items, row lock and snapshot discipline, acknowledged items stored, answers serial, two reads without a transaction consistent, nothing changes after OPEN, refinement of the ledger, calls atomic with their answers |
| `store_live` | 2 sessions | every transaction ends |
| `wf_updates` | 2 updates, 2 keys, 2 payloads, 2 attempts | answers are true, the running total never overstates |
| `wf_close` | 1 update, primary and 1 fallback run, 2 attempts | runs complete only invoiced, the invoice is final and is sent at most `MaxAttempts` times for each run, refinement of the ledger |
| `svc_safety` | no update, 2 closes, primary and 2 fallback runs, 1 attempt | UpdateBill's 200 is true, compensation works, an invoice is for a CLOSED bill or for the one a failed CreateBill has cancelled, the API is a legal environment |
| `svc_live` | 1 update, 1 close, primary and 1 fallback run, 1 attempt | an accepted close happens, the bill closes at period end, updates are answered |
| `reconcile` | 2 bills, 1 pass after the other, 2 times, batches of 1 and 2 | run ids are the bills' own, counters add up, a started bill gets its run id unless its run is forgotten or the batch is full of hopeless older ones |
| `pages` | 3 bills, 1 client, 3 times, pages of 1 and 2, 6 lists, 7 kinds of creation | a walk misses no bill, and its last page reaches the total |

Why these bounds are enough to be interesting. Three sessions on one bill give a holder of the
lock and two that race for it, and with two keys every pair of them can be a replay, a
mismatch or independent. The two payloads are "fee" for 11 and "fee1" for 1, which read alike
without a separator; under `MaxTotal = 12` a bill holds both and overflows with two of the
larger. Two attempts are enough for an attempt to be given
up, to take effect late, and to be retried. One bill suffices because no action of a session
touches another bill than its request's; the proofs are for any set of bills. In `wf_close`
and the service runs one item with one payload is
enough, since what is at stake is when it lands, not what it is. `svc_safety` and `svc_live`
allow a single attempt, which may fail and so drive runs to
`failed`, or be given up and take effect late; retries are `wf_updates`' and `wf_close`'s matter.
`svc_safety` leaves updates to `svc_live` and has a second fallback run instead, which starts
when the first has failed or has left the bill open. In `reconcile`, two bills with a batch of
one let the older starve the younger, with a batch of two they do not; overlapping passes
are covered by the proofs, and by `Persist` meeting a run id that is there already. In `pages`
a walk through three bills takes up to four pages, with a bill created or closed between any
two; a limit of 3 is capped to 2, an absent one is 1.

The bounds on data (`Keys`, `Payloads`, `MaxTotal`, `Times`, `MaxLength`, `MaxPeriod`,
`DefaultLimit`, `MaxLimit`), on requests (`LineItemRequests`, `CloseTexts`, `CreateRequests`,
`ListRequests`, `Requests`), on processes (`Bills`, `Tx`, `Readers`, `Updates`, `Closers`,
`Fallbacks`, `Passes`, `Clients`) and `MaxAttempts` (5 in the code) are the only ones; every
one is a constant.

Symmetry is used in safety runs only, over sets whose members no property names. Deadlock is
checked in the store runs, in `reconcile` and in `pages`. The workflow and service instances really come to rest, when
their updates and calls are used up and all runs are over, so it is off there.

`ASSUME ItemsTotalIsSum` in `MCBillStore` compares the sum by counting units, which the
proofs use, with adding the amounts up.

### Fairness

- `store_live`: a statement that does not wait is answered (weak fairness); a session that
  keeps finding the row lock free gets it (strong fairness: Postgres queues lock waiters).
  Nothing is assumed of failures or callers.
- `svc_live`: a live worker gets every workflow task, and an activity ends at the latest with
  ScheduleToCloseTimeout. Of the timers only the fallback's zero timer is assumed to fire: the
  primary's may be a year away, and a close that was accepted must not need it.
  `ClosesAtPeriodEnd` therefore names the primary timer's firing as its own premise. No attempt
  is assumed to succeed, which is why the properties leave room for a run that failed.
- `reconcile`: `CreateBill` and the calls of a pass end, and the private endpoint is called
  again and again, as a reconciliation job does (docs/API.md:259) (weak fairness). Postgres
  and Temporal may fail any number of times, but not each time the same row is tried (strong
  fairness of `Describe` and `Persist` for each bill). Nothing is assumed of Temporal's
  retention, which is why the property leaves room for a run that is forgotten.

## 4. What the code does not do as documented

Each is a run that TLC ends with a counterexample; `PROJECT.json` quotes the documents.

| Run | In short |
|---|---|
| `wf_business` | business errors are retried: `NewApplicationError` takes `(err, true)` as details |
| `svc_rejected` | an item can be rejected as "bill is not open" and be stored and billed |
| `svc_precondition` | an item for a closed bill is answered with `internal` |
| `svc_invoice` | a CLOSED bill whose invoice failed is answered with 200 and never invoiced |

Smaller differences, visible in the models but not kept as runs:

- README.md:60 says the workflow serializes all writes per bill. Update handlers interleave while
  they wait for their activities; only the row lock serializes the writes.
- workflow.go:54 calls `totalMinor` the running total. It misses an item whose commit went
  unreported, since the retry answers Inserted = false; that it never overstates is checked.
- activities.go:19 says the invoice is for a closed bill. A run whose start was reported as failed
  sends it for the bill `CreateBill` has CANCELLED, when the period ends or the close signal comes.
  `InvoicedIsClosed` says that no other bill is invoiced without being CLOSED.
- docs/API.md:177 says UpdateBill's answer is CLOSED. For a CANCELLED bill it is CANCELLED.
- README.md:47 says failed create flows end CANCELLED. If the run id cannot be stored, the
  workflow is terminated and the bill stays OPEN.

- README.md:54 says `period_end` is the latest the bill stays open. If the API dies between the
  INSERT and the start of the workflow, nothing closes the bill until somebody asks for it.
- handlers.go:181 takes the fallback's workflow id for idempotent. It is, while a fallback run is
  open; once that is over the id is free again, and `svc_safety` has second fallback runs.
- README.md:61 says `updated_at` tracks the last modification. It is `NOW()`, when the transaction
  began: one that waited for the row lock writes a time before the one that is there already.
- `ReconcileWorkflowRunIDs` can be starved: LIMIT bills whose workflow never started, or is
  forgotten, stay the oldest without run id, and no later bill is ever looked at.
  `BackfilledUnlessStarved` says that nothing else keeps a started bill from its run id.
- Pages can skip bills: of the open ones, because a bill that is closed moves all older ones
  to an earlier place, and of those whose `created_at` another bill shares, because their order
  is not defined. `WalkMissesNone` says that nothing else does.

docs/API.md also says that the close takes `SELECT ... FOR UPDATE`. It is a plain UPDATE, which
takes the same row lock, so nothing observable differs; `LeaveOpen` models the UPDATE.

## 5. What is proved

`BillStoreProofs` proves, for any sets of bills, sessions and readers, any finite set of keys,
any payloads with amounts in 1..MaxTotal and any MaxTotal, every safety property that
`store_safety` checks:

- `TypeCorrect`, `TotalAlwaysMatches`, `StatusCheckHolds`, `SnapshotStaysCurrent`: conjuncts of
  the inductive invariant `Core` (`CoreInvariant`).
- `AcknowledgedStaysStored`, `RepliesSerializable`, `ViewsConsistent`: inductive relative to
  `Core`.
- `BillsFreeze`: an action property, from `Core`.
- `StoreImplementsLedger`, `StoreIsAtomic`: initial states map to initial states and every step to
  a step of the ledger, and of `BillCalls`, or a stutter. A call of `BillCalls` is a session seen
  from outside (`CallOf`): asked as long as it is not idle. A new item is charged, and answered,
  at `Commit`; a replay or a rejection is answered where the session becomes idle. Its answer is
  true there because what it read is still current, for which `SnapshotIsCurrent` says of a
  replay too that the total it carries is the committed one.

The argument: that the total is the sum of the items is not inductive. A commit overwrites the
total with the session's copy, so the copy must be the committed total plus the amount, and
the row must still be free (`SnapshotIsCurrent`). That holds because only the session that
holds a bill's row lock commits to the bill, and every session past the status check holds it,
on an OPEN bill (`CheckedStatusHolds`). `SessionShape` and `ViewShape` add what program
counters imply. `BillDataProofs` supplies the sum: inserting an item under a free key adds its
amount (`ItemsTotalInsert`), via the cardinality of the set of charged units. For
`RepliesSerializable` the answer a step adds comes last in the serial order: its total is the
committed one, which bounds all earlier answers, plus its own amount.

`BillDataProofs` also proves `HashInjective`: the hashed texts of two payloads agree only if the
payloads do. The separator of a hashed text is its last `|`, since no digit is one
(`SeparatorPlace`), however many the description holds.

`BillReconcileProofs` proves, for any finite set of bills, any number of passes and any limits:

- `TypeCorrect`: no pass runs past the end of its batch, no batch exceeds the limit.
- `RunIdsAreOwn`. The invariant adds what makes it inductive: `CreateBill` stores a run id only
  after the start (`StartedBeforeRecorded`), and a pass about to store one has found it for
  the row it is at (`FoundIsOwn`).
- `BatchesAccountedFor`, relative to that invariant: a row counted as backfilled has its run
  id from then on because no step takes one away.

`BillPagesProofs` proves, for any finite set of bills, any number of clients and any limits:

- `TypeCorrect`: stored accounts are trimmed and of legal length, no walk passes the end by
  more than a page.
- `WalksMissNone`. The invariant (`WalkInv`) says of each bill that is due and not seen that at
  least as many bills are newer than it as the walk has passed (`Ahead`), so it is still to come.
  With a settled filter bills only join the list (`GrowthKeepsAhead`), so that number never
  shrinks; a page that ends before the bill has only newer bills on it (`PlaceInOrder`,
  `PageHolds`). Trimming twice is trimming once (`TrimOnce`), so the WHERE clause finds the
  bills the client means.
- `ShortPagesReachTotal`, from the same invariant: the total was counted when the list was no
  longer than it is at the page.

`BillingWorkflowProofs` proves, for any sets of updates and fallback runs, any number of
attempts, any finite set of keys, any payloads and any MaxTotal, every safety property that
`wf_updates` and `wf_close` check: `WorkflowTypeCorrect`, `AnswersTrue`, `RunningTotalBounded`,
`RunsInvoiced`, `InvoicesStayBounded`, `InvoiceFinal`, `WorkflowImplementsLedger`, and besides that
`total_minor` is the sum of the items (`TotalsAddUp`). Hardly one is inductive by itself. `WorkflowInv`
has six parts, each proved inductive with the help of those before it:

- `Shape`: which of an update's, an activity's and a run's phases go together. Only the attempt
  the server waits for has a result; an update waits exactly while its activity is open, and
  only while the primary run is open; a run in its close phase waits for exactly one activity.
- `Stage`: nothing of the invoice begins before the bill has left OPEN. An attempt of
  MarkClosedInDB that succeeded, also one that affected no row, means that it has; this is what
  makes the invoice final, since no statement touches a bill that is not OPEN (`TablesFreeze`).
- `ReportsAreTrue`: `AnswersAreTrue`, from the moment an attempt reports. The workflow takes a
  result some steps later, with other attempts reaching the database meanwhile, so the answer
  must have been true all the time in between. Rows never go away or change, and of two
  updates with one key at most one has inserted.
- `Totals`: the stored total is the sum of the stored rows, the running total the sum of the rows
  whose insertion was reported (`CountedRows`). The latter are some of the former
  (`ReportsAreTrue`), and a part sums up to no more than the whole (`RunningTotalBounded`). No row
  is counted twice, because of two updates with one key at most one has inserted.
- `InvoicesSuffice`: each run whose invoice has been reported has an invoice of its own.
- `InvoicesCounted`: every invoice is that of an attempt that runs no more and that the server
  will not start again. As there are `MaxAttempts` of these per run that has got that far,
  `InvoicesBounded` follows; given-up attempts that send it late are among them.

`BillingServiceProofs` proves, for any number of updates, closes and fallback runs, every safety
property that `svc_safety` checks:

- `ServiceUsesWorkflow`: each step of a handler is a step of `Environment` or leaves the variables
  of `BillingWorkflow` alone (`StepUsesWorkflow`). `ServiceKeepsPromises` carries the theorems about
  the workflow over.
- `ServiceTypeCorrect`, `UpdateBillTrue`, `CompensationStops`, `InvoicedClosed`, from `HandlersInv`: a handler
  of `UpdateBill` goes to read the bill only after the bill has left OPEN, whether it got there by
  waiting for a run (a run completes only with the bill out of OPEN, `Stage`) or by the database
  check; a bill that has left OPEN never comes back; and what `CreateBill` reports as compensated
  is a bill that has left OPEN, or a primary run that is over and whose id is not started again. Only `cancelBill` cancels a bill
  (`OnlyCreateCancels`), and `CreateBill` ends with it; with `Stage`, a bill that was invoiced is
  CLOSED, or CANCELLED by a `CreateBill` that has failed.

Assumptions, all evaluated by TLC on every run of the module: `Keys` is finite, `MaxTotal` is a
natural number, payloads are a text and an amount in 1..MaxTotal (CHECK constraint and
`parseAddLineItemRequest`), `Decimal` writes digits and no two amounts alike, `Bills` is finite
where lists are proved about, limits are positive, times are natural numbers, a walk begins at
the first page, at least one attempt is allowed, the primary run is no fallback run, what
`parseAddLineItemRequest` makes of an accepted request is a request of the workflow
(`LineItemRequestsAssumption`), `None` is neither a payload, a session, a bill nor a row.

Only model-checked: the liveness properties `TransactionsEnd`, `BackfilledUnlessStarved`,
`AcceptedCloseHappens`, `ClosesAtPeriodEnd` and `UpdatesAnswered`. They hold under fairness only, and
rules for fairness need ENABLED, which is beyond the prover. Every safety property of a
passing run is proved. What section 4 says the code does not do is shown by counterexamples.

## 6. Not modelled, and why

- Timestamps (`updated_at`, `closed_at`, `period_start`, and `created_at` of items): nothing
  branches on them. `created_at` of bills is modelled where lists are ordered by it,
  `period_end` as the moment the timer fires.
- `parseBillID`: a bill id is a bill id. A text that is none is rejected before anything happens.
- SHA-256, and characters: texts are made of words, digits, separators and white space.
- The field-by-field copies of `converters.go` and of the row scans.
- Start-up of the worker (environment, pool sizes, registrations): no protocol of its own.
- A bill whose `workflow_id` is blank, which reconciliation skips: `CreateBill` always writes one,
  and no statement changes it.
- The `GetBillStatus` read of close_bill.go:35, after a close that affected no row: it only tells a bill
  that does not exist from one that is not OPEN.
- NOT_FOUND inside the workflow: a workflow is started for an inserted bill and rows are never
  deleted. `BillStore` has it.
- The caller's own timeout or disconnection while `AddLineItem` waits: the update goes on
  without it; the answer is lost, nothing else.
- `waitForWorkflow` names the fallback by its id: if the run it was started for fails and
  another call starts a new run in between, the wait may pick the later one. The model waits for
  the run that was open when the handler started it.
- The pool of ten connections, and the dialling of Temporal on first use, behind a mutex: a call
  that cannot get a connection fails.
- Continue-as-new, worker versioning, cancellation of workflows: not used by the code.

## 7. Plan

Done, in this order: `BillData`, `BillLedger`, `BillStore` with proofs; `BillingWorkflow`;
`BillingService`; `BillRequests` and the hash; `BillReconcile` and `BillPages` with proofs; the
proofs about `BillingWorkflow` and `BillingService`; `BillCalls`.

Next:

1. `BillingWorkflow` as a refinement of `BillCalls`, with attempts as callers, so that both sides
   of the cut between workflow and database are checked against the same specification.
2. The period as time: when a bill may stay OPEN past `period_end` (a crash between INSERT and
   start), and the fallback that repairs it; `updated_at` along with it.
