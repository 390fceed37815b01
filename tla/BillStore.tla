------------------------------ MODULE BillStore -----------------------------
(***************************************************************************)
(* Postgres as the worker and the API use it.                              *)
(*                                                                         *)
(* Every attempt of the PersistLineItem activity is a database session t   *)
(* that runs one transaction, one SQL statement per action: BEGIN, SELECT  *)
(* ... FOR UPDATE on the bill, INSERT ... ON CONFLICT DO NOTHING, then     *)
(* either the load of the existing row or the increment of the total, and  *)
(* COMMIT.  Between any two of them other sessions run, the bill may be    *)
(* closed or cancelled by single-statement transactions, and the statement *)
(* may fail, run into queryTimeout or lose its worker, which rolls back.   *)
(* A COMMIT may take effect although its caller is told that it failed.    *)
(* loadBillWithItems reads the bill and its items with two statements and  *)
(* no transaction around them.                                             *)
(*                                                                         *)
(* status, total and items are the committed tables; what a transaction    *)
(* has written and not committed lives in its session.                     *)
(***************************************************************************)
EXTENDS BillData

CONSTANTS
    Bills,   \* bill ids
    Tx,      \* database sessions of the worker
    Readers  \* calls of loadBillWithItems

ASSUME NoTxAssumption == None \notin Tx

VARIABLES
    status,  \* bills.status
    total,   \* bills.total_minor
    items,   \* line_items, by bill and idempotency key
    lock,    \* for each bill the session that holds its row lock, or None
    tx,      \* for each worker session its transaction and last reply
    view     \* for each reader what it has read so far

tables == <<status, total, items>>
vars == <<status, total, items, lock, tx, view>>

-----------------------------------------------------------------------------

\* The part of PersistLineItemInput the database sees.
Request == [bill: Bills, key: Keys, payload: Payloads]

\* What PersistLineItem returns: a result with inserted true or false, one of
\* the three business errors, or an error that Temporal retries.
Acknowledged == {"inserted", "existing"}
Reply == Acknowledged \cup
         {"none", "NOT_FOUND", "FAILED_PRECONDITION", "ALREADY_EXISTS", "retry"}

\* Where a transaction is once it has locked its bill: what it did last.
LockedSteps == {"locked", "inserted", "conflict", "ready"}

Session ==
    [pc: {"idle", "begun"} \cup LockedSteps,
     req: Request \cup {None},
     inserted: BOOLEAN,  \* the row is new, written by this transaction
     total: 0..MaxTotal, \* bills.total_minor as this transaction last saw it
     reply: Reply]

View ==
    [pc: {"idle", "bill", "done"}, bill: Bills \cup {None},
     status: BillStatus, total: 0..MaxTotal, rows: Rows]

TypeOK ==
    /\ status \in [Bills -> BillStatus]
    /\ total \in [Bills -> 0..MaxTotal]
    /\ items \in [Bills -> Rows]
    /\ lock \in [Bills -> Tx \cup {None}]
    /\ tx \in [Tx -> Session]
    /\ view \in [Readers -> View]

Init ==
    /\ status = [b \in Bills |-> "NONE"]
    /\ total = [b \in Bills |-> 0]
    /\ items = [b \in Bills |-> NoRows]
    /\ lock = [b \in Bills |-> None]
    /\ tx = [t \in Tx |-> [pc |-> "idle", req |-> None, inserted |-> FALSE,
                           total |-> 0, reply |-> "none"]]
    /\ view = [r \in Readers |-> [pc |-> "idle", bill |-> None,
                           status |-> "NONE", total |-> 0, rows |-> NoRows]]

-----------------------------------------------------------------------------
(***************************************************************************)
(* Single-statement transactions on the bills table.                       *)
(***************************************************************************)

\* createBill: INSERT of an OPEN bill with total_minor 0.
CreateBill(b) ==
    /\ status[b] = "NONE"
    /\ status' = [status EXCEPT ![b] = "OPEN"]
    /\ UNCHANGED <<total, items, lock, tx, view>>

\* Mutant: the UPDATE does not wait for the row lock.
LeaveOpenUnlocked(b, s) ==
    /\ status[b] = "OPEN"
    /\ status' = [status EXCEPT ![b] = s]
    /\ UNCHANGED <<total, items, lock, tx, view>>

\* An UPDATE of a bill waits for the row lock, then tests its WHERE clause
\* against the row as the lock holder left it.  A bill that is not OPEN is not
\* affected: the statement succeeds and changes nothing.
LeaveOpen(b, s) ==
    /\ lock[b] = None
    /\ status[b] = "OPEN"
    /\ status' = [status EXCEPT ![b] = s]
    /\ UNCHANGED <<total, items, lock, tx, view>>

\* CloseBillByID, the statement of the MarkClosedInDB activity.
CloseBill(b) == LeaveOpen(b, "CLOSED")

\* cancelBill, the compensation for a workflow that could not be started.
CancelBill(b) == LeaveOpen(b, "CANCELLED")

-----------------------------------------------------------------------------
(***************************************************************************)
(* The PersistLineItem transaction.                                        *)
(***************************************************************************)

\* The session's transaction is over: PersistLineItem has returned.  An error
\* carries no result.
Return(t, reply) ==
    tx' = [tx EXCEPT ![t].pc = "idle", ![t].inserted = FALSE, ![t].reply = reply,
                     ![t].total = IF reply \in Acknowledged THEN @ ELSE 0]

\* COMMIT and ROLLBACK release the row locks the session holds.
Release(t) == lock' = [b \in Bills |-> IF lock[b] = t THEN None ELSE lock[b]]

\* An activity attempt starts: BeginTx.
Begin(t, q) ==
    /\ tx[t].pc = "idle"
    /\ tx' = [tx EXCEPT ![t] = [pc |-> "begun", req |-> q, inserted |-> FALSE,
                                total |-> 0, reply |-> "none"]]
    /\ UNCHANGED <<tables, lock, view>>

\* SELECT ... FOR UPDATE can take the row.
RowLockFree(t, b) == lock[b] \in {None, t}

\* Mutant: a plain SELECT instead of SELECT ... FOR UPDATE.
LockBillPlainSelect(t) ==
    LET b == tx[t].req.bill IN
    /\ tx[t].pc = "begun"
    /\ status[b] = "OPEN"
    /\ tx' = [tx EXCEPT ![t].pc = "locked", ![t].total = total[b]]
    /\ UNCHANGED <<tables, lock, view>>

\* LockBillForUpdate and the status check that follows it.
LockBill(t) ==
    LET b == tx[t].req.bill IN
    /\ tx[t].pc = "begun"
    /\ \/ /\ status[b] = "NONE"
          /\ Return(t, "NOT_FOUND")
          /\ UNCHANGED lock
       \/ /\ status[b] \notin {"NONE", "OPEN"}
          /\ RowLockFree(t, b)
          /\ Return(t, "FAILED_PRECONDITION")
          /\ UNCHANGED lock
       \/ /\ status[b] = "OPEN"
          /\ RowLockFree(t, b)
          /\ lock' = [lock EXCEPT ![b] = t]
          /\ tx' = [tx EXCEPT ![t].pc = "locked", ![t].total = total[b]]
    /\ UNCHANGED <<tables, view>>

\* InsertLineItemIdempotent: the row goes in unless the key is taken.
InsertLineItem(t) ==
    LET q == tx[t].req IN
    /\ tx[t].pc = "locked"
    /\ IF items[q.bill][q.key] = None
       THEN tx' = [tx EXCEPT ![t].pc = "inserted", ![t].inserted = TRUE]
       ELSE tx' = [tx EXCEPT ![t].pc = "conflict"]
    /\ UNCHANGED <<tables, lock, view>>

\* Mutant: a key that is taken is an error, whatever its payload.
LoadExistingRejectsReplays(t) ==
    /\ tx[t].pc = "conflict"
    /\ Return(t, "ALREADY_EXISTS")
    /\ Release(t)
    /\ UNCHANGED <<tables, view>>

\* Mutant: a replay goes on to increment the total.
LoadExistingIncrements(t) ==
    /\ tx[t].pc = "conflict"
    /\ tx' = [tx EXCEPT ![t].pc = "inserted", ![t].inserted = TRUE]
    /\ UNCHANGED <<tables, lock, view>>

\* Mutant: the error return has no deferred Rollback.
LoadExistingLeaksLock(t) ==
    /\ tx[t].pc = "conflict"
    /\ Return(t, "ALREADY_EXISTS")
    /\ UNCHANGED <<tables, lock, view>>

\* GetLineItemByBillAndKey and the comparison of payload hashes: a replay of
\* the same payload returns the existing row, any other one is an error.
LoadExisting(t) ==
    LET q == tx[t].req IN
    /\ tx[t].pc = "conflict"
    /\ \/ /\ HashesAgree(items[q.bill][q.key], q.payload)
          /\ tx' = [tx EXCEPT ![t].pc = "ready"]
          /\ UNCHANGED lock
       \/ /\ ~HashesAgree(items[q.bill][q.key], q.payload)
          /\ Return(t, "ALREADY_EXISTS")
          /\ Release(t)
    /\ UNCHANGED <<tables, view>>

\* Mutant: nothing stops the total at the largest BIGINT.
IncrementBillTotalUnbounded(t) ==
    LET q == tx[t].req
        sum == total[q.bill] + q.payload.amount_minor
    IN
    /\ tx[t].pc = "inserted"
    /\ tx' = [tx EXCEPT ![t].pc = "ready", ![t].total = sum]
    /\ UNCHANGED <<tables, lock, view>>

\* Mutant: the result carries the total read with the lock.
IncrementBillTotalStale(t) ==
    /\ tx[t].pc = "inserted"
    /\ total' = [total EXCEPT ![tx[t].req.bill] = @ + tx[t].req.payload.amount_minor]
    /\ tx' = [tx EXCEPT ![t].pc = "ready"]
    /\ UNCHANGED <<status, items, lock, view>>

\* Mutant: the increment runs on the pool and not on the transaction.
IncrementBillTotalOutside(t) ==
    LET q == tx[t].req
        sum == total[q.bill] + q.payload.amount_minor
    IN
    /\ tx[t].pc = "inserted"
    /\ sum <= MaxTotal
    /\ total' = [total EXCEPT ![q.bill] = sum]
    /\ tx' = [tx EXCEPT ![t].pc = "ready", ![t].total = sum]
    /\ UNCHANGED <<status, items, lock, view>>

\* IncrementBillTotal, run for a new row only.  A total beyond BIGINT is an
\* error of the statement: the transaction is rolled back and retried in vain.
IncrementBillTotal(t) ==
    LET q == tx[t].req
        sum == total[q.bill] + q.payload.amount_minor
    IN
    /\ tx[t].pc = "inserted"
    /\ \/ /\ sum <= MaxTotal
          /\ tx' = [tx EXCEPT ![t].pc = "ready", ![t].total = sum]
          /\ UNCHANGED lock
       \/ /\ sum > MaxTotal
          /\ Return(t, "retry")
          /\ Release(t)
    /\ UNCHANGED <<tables, view>>

\* COMMIT takes effect.  If its answer is lost the attempt still fails.
Commit(t) ==
    LET q == tx[t].req IN
    /\ tx[t].pc = "ready"
    /\ IF tx[t].inserted
       THEN /\ items' = [items EXCEPT ![q.bill][q.key] = q.payload]
            /\ total' = [total EXCEPT ![q.bill] = tx[t].total]
       ELSE UNCHANGED <<items, total>>
    /\ \/ Return(t, IF tx[t].inserted THEN "inserted" ELSE "existing")
       \/ Return(t, "retry")
    /\ Release(t)
    /\ UNCHANGED <<status, view>>

\* A statement fails, queryTimeout elapses or the worker dies: the deferred
\* Rollback, or Postgres once the connection is gone, discards the writes.
Rollback(t) ==
    /\ tx[t].pc # "idle"
    /\ Return(t, "retry")
    /\ Release(t)
    /\ UNCHANGED <<tables, view>>

-----------------------------------------------------------------------------
(***************************************************************************)
(* loadBillWithItems, the answer of GetBill and UpdateBill.                *)
(***************************************************************************)

\* getBill: the bill as last committed.
ReadBill(r, b) ==
    /\ view[r].pc # "bill"
    /\ status[b] # "NONE"
    /\ view' = [view EXCEPT ![r] = [pc |-> "bill", bill |-> b,
                    status |-> status[b], total |-> total[b], rows |-> NoRows]]
    /\ UNCHANGED <<tables, lock, tx>>

\* listLineItems: the committed rows, some time later.
ReadItems(r) ==
    /\ view[r].pc = "bill"
    /\ view' = [view EXCEPT ![r].pc = "done", ![r].rows = items[view[r].bill]]
    /\ UNCHANGED <<tables, lock, tx>>

-----------------------------------------------------------------------------

\* The transaction takes its next step, whichever it is.
Step(t) ==
    \/ LockBill(t)
    \/ InsertLineItem(t)
    \/ LoadExisting(t)
    \/ IncrementBillTotal(t)
    \/ Commit(t)

Next ==
    \/ \E b \in Bills : CreateBill(b) \/ CloseBill(b) \/ CancelBill(b)
    \/ \E t \in Tx : (\E q \in Request : Begin(t, q)) \/ Step(t) \/ Rollback(t)
    \/ \E r \in Readers : (\E b \in Bills : ReadBill(r, b)) \/ ReadItems(r)

Spec == Init /\ [][Next]_vars

\* Statements that are not waiting are answered, and the queue of a row lock is
\* first come, first served, so a session that keeps finding the lock released
\* gets it.  Nothing makes a caller begin or a statement fail.
Fairness ==
    \A t \in Tx :
        /\ SF_vars(LockBill(t))
        /\ WF_vars(InsertLineItem(t) \/ LoadExisting(t)
                     \/ IncrementBillTotal(t) \/ Commit(t))

FairSpec == Spec /\ Fairness

-----------------------------------------------------------------------------
(***************************************************************************)
(* Properties.                                                             *)
(***************************************************************************)

\* The stored running total is the sum of the stored line items, whatever
\* transactions overlap, fail or replay: INSERT and IncrementBillTotal of
\* PersistLineItem take effect together and once per idempotency key.
TotalMatchesItems == \A b \in Bills : total[b] = ItemsTotal(items[b])

\* The status a PersistLineItem transaction checked under FOR UPDATE is still
\* the status of the bill at each of its later statements, because the row
\* lock is its own from the check to the end of the transaction, and is held
\* by nobody else and no longer than that.
CheckedStatusHolds ==
    \A t \in Tx, b \in Bills :
        /\ lock[b] = t <=> tx[t].pc \in LockedSteps /\ tx[t].req.bill = b
        /\ lock[b] = t => status[b] = "OPEN"

\* What a transaction has read and written so far is still current: the total
\* it saw is the committed one, a row it inserted is still the only one with
\* its key, and a row that was in its way is still there, and what it is about to
\* commit is its own charge on top of that
\* total, so that nothing committed in between is lost.
CurrentSnapshot(t) ==
    LET s == tx[t]
        q == s.req
    IN  /\ s.pc \in {"locked", "inserted", "conflict"} => s.total = total[q.bill]
        /\ s.inserted => items[q.bill][q.key] = None
        /\ s.pc = "conflict" => items[q.bill][q.key] # None
        /\ s.pc = "ready" =>
              IF s.inserted
              THEN /\ s.total = total[q.bill] + q.payload.amount_minor
                   /\ s.total <= MaxTotal
              ELSE /\ s.total = total[q.bill]
                   /\ items[q.bill][q.key] = q.payload

SnapshotIsCurrent == \A t \in Tx : CurrentSnapshot(t)

\* An answer that reports the item as stored, new or replayed, means that this
\* very payload is stored under the key; a key never answers for another
\* payload than the first.
AcknowledgedIsDurable ==
    \A t \in Tx :
        tx[t].reply \in Acknowledged =>
            items[tx[t].req.bill][tx[t].req.key] = tx[t].req.payload

\* The sessions that were told their item is new, and an item's amount.
Inserters(b) == {t \in Tx : tx[t].reply = "inserted" /\ tx[t].req.bill = b}
Amount(t) == tx[t].req.payload.amount_minor

\* The running totals of answers that inserted something are those of a serial
\* order: of two on the same bill one came later and its total contains the
\* other's, and the table's total contains both.  No two of them are for the
\* same key.
RepliesAreSerial ==
    \A b \in Bills : \A t \in Inserters(b) :
        /\ Amount(t) <= tx[t].total /\ tx[t].total <= total[b]
        /\ \A u \in Inserters(b) \ {t} :
              /\ tx[u].req.key # tx[t].req.key
              /\ \/ tx[t].total + Amount(u) <= tx[u].total
                 \/ tx[u].total + Amount(t) <= tx[t].total

\* What loadBillWithItems puts together from two reads: the total never exceeds
\* the items listed with it, and for a bill that has left OPEN it is exactly
\* their sum, although the items are read later and without a transaction.
ViewIsConsistent ==
    \A r \in Readers :
        view[r].pc = "done" =>
            /\ view[r].total <= ItemsTotal(view[r].rows)
            /\ view[r].status # "OPEN" => view[r].total = ItemsTotal(view[r].rows)

\* A bill that is CLOSED or CANCELLED is frozen: no transaction that began
\* before, and none that begins after, changes its status, total or items.
FrozenOnceLeftOpen ==
    [][\A b \in Bills :
          status[b] \in {"CLOSED", "CANCELLED"} =>
              UNCHANGED <<status[b], total[b], items[b]>>]_vars

\* Every PersistLineItem attempt comes to an end even if no timeout ever fires:
\* no path out of the transaction, the error returns included, keeps the row
\* lock and leaves the sessions behind it waiting.
TransactionsEnd == \A t \in Tx : tx[t].pc = "begun" ~> tx[t].pc = "idle"

\* The transactions implement the ledger, in which a charge is one step.
Ledger == INSTANCE BillLedger
ImplementsLedger == Ledger!Spec

\* The transactions are serializable with their answers: each call of PersistLineItem
\* behaves as one step, at which all that its answer says is true, the total included.
CallOf(t) ==
    LET s == tx[t]
    IN  [phase |-> IF s.pc = "idle" THEN "idle" ELSE "asked", req |-> s.req,
         reply |-> s.reply, total |-> IF s.pc = "idle" THEN s.total ELSE 0]
Calls == INSTANCE BillCalls WITH Callers <- Tx, call <- [t \in Tx |-> CallOf(t)]
PersistIsAtomic == Calls!Spec

=============================================================================
