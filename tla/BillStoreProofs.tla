-------------------------- MODULE BillStoreProofs ---------------------------
(***************************************************************************)
(* Proofs about BillStore, for any number of bills, sessions, readers,     *)
(* keys and payloads and for any MaxTotal.                                 *)
(***************************************************************************)
EXTENDS BillStore, BillDataProofs

(***************************************************************************)
(* Type correctness.                                                       *)
(***************************************************************************)

\* The values of a BIGINT column that counts money.
LEMMA Bigint == 0 \in 0..MaxTotal /\ \A n \in 0..MaxTotal : n \in Nat
    BY MaxTotalAssumption

\* A session that returns is idle, keeps its request and carries the reply.
LEMMA ReturnEffect ==
    ASSUME TypeOK, NEW t \in Tx, NEW reply \in Reply, Return(t, reply)
    PROVE  /\ tx' \in [Tx -> Session]
           /\ tx'[t].pc = "idle" /\ ~tx'[t].inserted
           /\ tx'[t].req = tx[t].req /\ tx'[t].reply = reply
           /\ reply \in Acknowledged => tx'[t].total = tx[t].total
           /\ \A u \in Tx \ {t} : tx'[u] = tx[u]
<1>1. /\ tx[t] \in Session /\ tx \in [Tx -> Session]
      /\ 0 \in 0..MaxTotal
    BY Bigint DEF TypeOK
<1>2. \A u \in Tx \ {t} : tx'[u] = tx[u]
    BY <1>1 DEF Return
<1> DEFINE sum == IF reply \in Acknowledged THEN tx[t].total ELSE 0
<1>3. tx'[t] = [pc |-> "idle", req |-> tx[t].req, inserted |-> FALSE,
                total |-> sum, reply |-> reply]
    BY <1>1 DEF Return, Session
<1>4. sum \in 0..MaxTotal
    BY <1>1 DEF Session
<1>5. tx'[t] \in Session
    BY <1>1, <1>3, <1>4 DEF Session
<1>6. tx' \in [Tx -> Session]
    BY <1>1, <1>5 DEF Return
<1> QED
    BY <1>2, <1>3, <1>6

\* A session that ends holds no row lock, and the other locks stay.
LEMMA ReleaseEffect ==
    ASSUME TypeOK, NEW t \in Tx, Release(t)
    PROVE  /\ lock' \in [Bills -> Tx \cup {None}]
           /\ \A b \in Bills : lock'[b] = IF lock[b] = t THEN None ELSE lock[b]
    BY DEF TypeOK, Release

\* The replies used below are replies.
LEMMA ReplyValues ==
    {"inserted", "existing", "NOT_FOUND", "FAILED_PRECONDITION",
     "ALREADY_EXISTS", "retry"} \subseteq Reply
    BY DEF Reply, Acknowledged

LEMMA TypeInit == Init => TypeOK
<1> SUFFICES ASSUME Init PROVE TypeOK
    OBVIOUS
<1>1. NoRows \in Rows
    BY ItemsTotalEmpty
<1> QED
    BY <1>1, Bigint DEF Init, TypeOK, BillStatus, Session, View, Reply

\* What the session knows of its request while it runs.
ShapeOf(t) ==
    /\ tx[t].pc # "idle" => tx[t].req \in Request /\ tx[t].reply = "none"
    /\ tx[t].reply \in Acknowledged => tx[t].req \in Request
    /\ tx[t].pc \in {"idle", "begun", "locked", "conflict"} => ~tx[t].inserted
    /\ tx[t].pc = "inserted" => tx[t].inserted

SessionShape == \A t \in Tx : ShapeOf(t)

\* What a reader knows once it has read the bill.
ViewShape ==
    \A r \in Readers :
        view[r].pc # "idle" => view[r].bill \in Bills /\ view[r].status # "NONE"

\* The request of a session that runs, and its amount.
LEMMA RequestType ==
    ASSUME TypeOK, SessionShape, NEW t \in Tx,
           tx[t].pc # "idle" \/ tx[t].reply \in Acknowledged
    PROVE  /\ tx[t].req.bill \in Bills /\ tx[t].req.key \in Keys
           /\ tx[t].req.payload \in Payloads
           /\ tx[t].req.payload.amount_minor \in Nat
           /\ tx[t].req.payload.amount_minor > 0
           /\ tx[t].total \in Nat
<1>1. tx[t].req \in Request /\ tx[t] \in Session
    BY DEF SessionShape, ShapeOf, TypeOK
<1>2. tx[t].req.payload.amount_minor \in 1..MaxTotal
    BY <1>1, PayloadsAssumption DEF Request
<1> QED
    BY <1>1, <1>2, MaxTotalAssumption DEF Request, Session

\* A commit writes the one row and the one total of its transaction, or
\* nothing if the row was there already, and ends the session.
LEMMA CommitEffect ==
    ASSUME TypeOK, SessionShape, NEW t \in Tx, Commit(t),
           NEW b, b = tx[t].req.bill, NEW k, k = tx[t].req.key,
           NEW p, p = tx[t].req.payload
    PROVE  /\ b \in Bills /\ k \in Keys /\ p \in Payloads
           /\ total' \in [Bills -> 0..MaxTotal] /\ items' \in [Bills -> Rows]
           /\ \A c \in Bills \ {b} : total'[c] = total[c] /\ items'[c] = items[c]
           /\ tx[t].inserted =>
                 /\ total'[b] = tx[t].total
                 /\ items'[b] = [items[b] EXCEPT ![k] = p]
           /\ ~tx[t].inserted => total'[b] = total[b] /\ items'[b] = items[b]
           /\ Return(t, IF tx[t].inserted THEN "inserted" ELSE "existing")
              \/ Return(t, "retry")
           /\ UNCHANGED <<status, view>>
<1>1. /\ b \in Bills /\ k \in Keys /\ p \in Payloads /\ tx[t].total \in 0..MaxTotal
      /\ tx[t].inserted \in BOOLEAN
    BY RequestType DEF Commit, TypeOK, Session
<1>2. CASE tx[t].inserted
  <2>1. /\ items' = [items EXCEPT ![b] = [items[b] EXCEPT ![k] = p]]
        /\ total' = [total EXCEPT ![b] = tx[t].total]
      BY <1>1, <1>2 DEF Commit, TypeOK
  <2>2. [items[b] EXCEPT ![k] = p] \in Rows
      BY <1>1 DEF TypeOK, Rows
  <2> HIDE DEF Commit
  <2>3. /\ total' \in [Bills -> 0..MaxTotal] /\ items' \in [Bills -> Rows]
        /\ \A c \in Bills \ {b} : total'[c] = total[c] /\ items'[c] = items[c]
        /\ total'[b] = tx[t].total
        /\ items'[b] = [items[b] EXCEPT ![k] = p]
      BY <1>1, <2>1, <2>2 DEF TypeOK
  <2> QED
      BY <1>1, <1>2, <2>3 DEF Commit
<1>3. CASE ~tx[t].inserted
    BY <1>1, <1>3 DEF Commit, TypeOK
<1> QED
    BY <1>1, <1>2, <1>3

\* Every step keeps the types, given that a running session has a request.
LEMMA TypeNext == TypeOK /\ SessionShape /\ ViewShape /\ [Next]_vars => TypeOK'
<1> SUFFICES ASSUME TypeOK, SessionShape, ViewShape, [Next]_vars PROVE TypeOK'
    OBVIOUS
<1> USE DEF TypeOK
<1>1. CASE UNCHANGED vars
    BY <1>1 DEF vars
<1>2. ASSUME NEW b \in Bills, CreateBill(b) \/ CloseBill(b) \/ CancelBill(b)
      PROVE  TypeOK'
    BY <1>2 DEF CreateBill, CloseBill, CancelBill, LeaveOpen, BillStatus
<1>3. ASSUME NEW t \in Tx, NEW q \in Request, Begin(t, q)
      PROVE  TypeOK'
    BY <1>3, Bigint DEF Begin, Session, Reply, tables
<1>4. ASSUME NEW t \in Tx, LockBill(t)
      PROVE  TypeOK'
  <2>1. tx[t].req.bill \in Bills
      BY <1>4 DEF LockBill, SessionShape, ShapeOf, Request
  <2>2. CASE \E reply \in Reply : Return(t, reply) /\ UNCHANGED lock
      <3>1. UNCHANGED <<tables, view>>
          BY <1>4 DEF LockBill
      <3> QED
          BY <3>1, <2>2, ReturnEffect DEF tables
  <2>3. CASE /\ lock' = [lock EXCEPT ![tx[t].req.bill] = t]
             /\ tx' = [tx EXCEPT ![t].pc = "locked",
                                 ![t].total = total[tx[t].req.bill]]
      <3>1. UNCHANGED <<tables, view>>
          BY <1>4 DEF LockBill
      <3>2. lock' \in [Bills -> Tx \cup {None}]
          BY <2>1, <2>3
      <3>3. total[tx[t].req.bill] \in 0..MaxTotal
          BY <2>1
      <3>4. tx' \in [Tx -> Session]
        <4>1. tx \in [Tx -> Session] /\ tx[t] \in Session
            OBVIOUS
        <4>2. [tx[t] EXCEPT !.pc = "locked", !.total = total[tx[t].req.bill]] \in Session
            BY <3>3, <4>1 DEF Session, LockedSteps
        <4>3. tx' = [tx EXCEPT ![t] =
                        [@ EXCEPT !.pc = "locked", !.total = total[tx[t].req.bill]]]
            BY <2>3, <4>1 DEF Session
        <4> QED
            BY <4>1, <4>2, <4>3
      <3> QED
          BY <3>1, <3>2, <3>4 DEF tables
  <2> QED
      BY <1>4, <2>2, <2>3, ReplyValues DEF LockBill
<1>5. ASSUME NEW t \in Tx, InsertLineItem(t)
      PROVE  TypeOK'
    BY <1>5 DEF InsertLineItem, tables, Session, LockedSteps
<1>6. ASSUME NEW t \in Tx, LoadExisting(t)
      PROVE  TypeOK'
  <2>1. CASE tx' = [tx EXCEPT ![t].pc = "ready"] /\ UNCHANGED lock
      BY <1>6, <2>1 DEF LoadExisting, tables, Session, LockedSteps
  <2>2. CASE Return(t, "ALREADY_EXISTS") /\ Release(t)
      BY <1>6, <2>2, ReturnEffect, ReleaseEffect, ReplyValues DEF LoadExisting, tables
  <2> QED
      BY <1>6, <2>1, <2>2 DEF LoadExisting
<1>7. ASSUME NEW t \in Tx, IncrementBillTotal(t)
      PROVE  TypeOK'
  <2> DEFINE sum == total[tx[t].req.bill] + tx[t].req.payload.amount_minor
  <2>1. sum \in Nat
      BY <1>7, PayloadsAssumption, MaxTotalAssumption
         DEF IncrementBillTotal, SessionShape, ShapeOf, Request
  <2>2. CASE sum <= MaxTotal /\ tx' = [tx EXCEPT ![t].pc = "ready", ![t].total = sum]
             /\ UNCHANGED lock
    <3>1. sum \in 0..MaxTotal
        BY <2>1, <2>2, MaxTotalAssumption
    <3> HIDE DEF sum
    <3> QED
        BY <1>7, <3>1, <2>2 DEF IncrementBillTotal, tables, Session, LockedSteps
  <2>3. CASE Return(t, "retry") /\ Release(t)
      BY <1>7, <2>3, ReturnEffect, ReleaseEffect, ReplyValues
         DEF IncrementBillTotal, tables
  <2> QED
      BY <1>7, <2>2, <2>3 DEF IncrementBillTotal
<1>8. ASSUME NEW t \in Tx, Commit(t)
      PROVE  TypeOK'
  <2>1. total' \in [Bills -> 0..MaxTotal] /\ items' \in [Bills -> Rows]
      BY <1>8, CommitEffect
  <2>2. \E reply \in Reply : Return(t, reply)
      BY <1>8, ReplyValues DEF Commit
  <2>3. Release(t) /\ UNCHANGED <<status, view>>
      BY <1>8 DEF Commit
  <2> QED
      BY <2>1, <2>2, <2>3, ReturnEffect, ReleaseEffect
<1>9. ASSUME NEW t \in Tx, Rollback(t)
      PROVE  TypeOK'
    BY <1>9, ReturnEffect, ReleaseEffect, ReplyValues DEF Rollback, tables
<1>10. ASSUME NEW r \in Readers, NEW b \in Bills, ReadBill(r, b)
       PROVE  TypeOK'
    BY <1>10, ItemsTotalEmpty DEF ReadBill, tables, View
<1>11. ASSUME NEW r \in Readers, ReadItems(r)
       PROVE  TypeOK'
  <2>1. items[view[r].bill] \in Rows
      BY <1>11 DEF ReadItems, ViewShape
  <2>2. [view[r] EXCEPT !.pc = "done", !.rows = items[view[r].bill]] \in View
      BY <2>1 DEF View
  <2>3. view' = [view EXCEPT ![r] = [@ EXCEPT !.pc = "done", !.rows = items[view[r].bill]]]
      BY <1>11 DEF ReadItems, View
  <2>4. view' \in [Readers -> View]
      BY <2>2, <2>3
  <2> QED
      BY <1>11, <2>4 DEF ReadItems, tables
<1> QED
    BY <1>1, <1>2, <1>3, <1>4, <1>5, <1>6, <1>7, <1>8, <1>9, <1>10, <1>11
       DEF Next, Step

(***************************************************************************)
(* The inductive invariant.  TotalMatchesItems alone is not inductive: a   *)
(* commit keeps it only because the total the transaction adds to is still *)
(* the committed one and its row is still new (SnapshotIsCurrent), which   *)
(* holds because nobody else can commit to the bill while the transaction  *)
(* holds its row lock (CheckedStatusHolds).                                *)
(***************************************************************************)

Core ==
    /\ TypeOK
    /\ SessionShape
    /\ ViewShape
    /\ CheckedStatusHolds
    /\ SnapshotIsCurrent
    /\ TotalMatchesItems

LEMMA CoreInit == Init => Core
<1> SUFFICES ASSUME Init PROVE Core
    OBVIOUS
<1>1. SessionShape /\ ViewShape /\ SnapshotIsCurrent
    BY DEF Init, SessionShape, ShapeOf, ViewShape, SnapshotIsCurrent, CurrentSnapshot,
              Acknowledged
<1>2. CheckedStatusHolds
    BY NoTxAssumption DEF Init, CheckedStatusHolds, LockedSteps
<1>3. TotalMatchesItems
    BY ItemsTotalEmpty DEF Init, TotalMatchesItems
<1> QED
    BY <1>1, <1>2, <1>3, TypeInit DEF Core

\* A session past the status check holds the row lock of an OPEN bill, and no
\* other session past it works on the same bill.
LEMMA RunnerHoldsLock ==
    ASSUME Core, NEW t \in Tx, tx[t].pc \in LockedSteps
    PROVE  /\ lock[tx[t].req.bill] = t /\ status[tx[t].req.bill] = "OPEN"
           /\ tx[t].pc # "idle"
           /\ \A u \in Tx \ {t} : tx[u].pc \in LockedSteps =>
                 tx[u].req.bill # tx[t].req.bill
<1>1. tx[t].pc # "idle"
    BY DEF LockedSteps
<1>2. tx[t].req.bill \in Bills
    BY <1>1, RequestType DEF Core
<1> QED
    BY <1>1, <1>2 DEF Core, CheckedStatusHolds

\* A session with a new row is past the status check.
LEMMA InsertedIsLocked ==
    ASSUME Core, NEW t \in Tx, tx[t].inserted
    PROVE  tx[t].pc \in {"inserted", "ready"} /\ tx[t].pc \in LockedSteps
    BY DEF Core, TypeOK, SessionShape, ShapeOf, Session, LockedSteps

\* Ending a session without writing a table keeps the invariant.
LEMMA EndKeepsCore ==
    ASSUME Core, TypeOK', NEW t \in Tx, tx[t].pc # "idle",
           NEW reply \in Reply, Return(t, reply),
           \A b \in Bills : lock'[b] = IF lock[b] = t THEN None ELSE lock[b],
           UNCHANGED <<tables, view>>
    PROVE  Core'
<1>1. /\ tx'[t].pc = "idle" /\ ~tx'[t].inserted
      /\ tx'[t].req = tx[t].req /\ tx'[t].reply = reply
      /\ \A u \in Tx \ {t} : tx'[u] = tx[u]
    BY ReturnEffect DEF Core
<1>2. SessionShape'
    BY <1>1 DEF Core, SessionShape, ShapeOf
<1>3. ViewShape'
    BY DEF Core, ViewShape
<1>4. CheckedStatusHolds'
    BY <1>1, NoTxAssumption DEF Core, CheckedStatusHolds, LockedSteps, tables
<1>5. SnapshotIsCurrent'
    BY <1>1 DEF Core, SnapshotIsCurrent, CurrentSnapshot, tables
<1>6. TotalMatchesItems'
    BY DEF Core, TotalMatchesItems, tables
<1> QED
    BY <1>2, <1>3, <1>4, <1>5, <1>6 DEF Core

\* A step of a session within its transaction, which takes no lock and writes
\* no table, keeps the invariant if the session itself still satisfies it.
LEMMA InnerStepKeepsCore ==
    ASSUME Core, TypeOK', NEW t \in Tx,
           tx[t].pc \in LockedSteps, tx'[t].pc \in LockedSteps,
           tx'[t].req = tx[t].req, tx'[t].reply = tx[t].reply,
           \A u \in Tx \ {t} : tx'[u] = tx[u],
           UNCHANGED <<tables, lock, view>>,
           ShapeOf(t)', CurrentSnapshot(t)'
    PROVE  Core'
<1>1. SessionShape'
    BY DEF Core, SessionShape, ShapeOf
<1>2. ViewShape'
    BY DEF Core, ViewShape
<1>3. CheckedStatusHolds'
    BY DEF Core, CheckedStatusHolds, tables
<1>4. SnapshotIsCurrent'
    BY DEF Core, SnapshotIsCurrent, CurrentSnapshot, tables
<1>5. TotalMatchesItems'
    BY DEF Core, TotalMatchesItems, tables
<1> QED
    BY <1>1, <1>2, <1>3, <1>4, <1>5 DEF Core

\* A reader's step touches neither tables nor sessions.
LEMMA ReadKeepsCore ==
    ASSUME Core, TypeOK', ViewShape', UNCHANGED <<tables, lock, tx>>
    PROVE  Core'
<1>1. SessionShape'
    BY DEF Core, SessionShape, ShapeOf
<1>2. CheckedStatusHolds'
    BY DEF Core, CheckedStatusHolds, tables
<1>3. SnapshotIsCurrent'
    BY DEF Core, SnapshotIsCurrent, CurrentSnapshot, tables
<1>4. TotalMatchesItems'
    BY DEF Core, TotalMatchesItems, tables
<1> QED
    BY <1>1, <1>2, <1>3, <1>4 DEF Core

\* A bill changes status only while nobody holds its row lock.
LEMMA StatusStepKeepsCore ==
    ASSUME Core, TypeOK', NEW b \in Bills,
           CreateBill(b) \/ CloseBill(b) \/ CancelBill(b)
    PROVE  Core'
<1>1. /\ UNCHANGED <<total, items, lock, tx, view>>
      /\ lock[b] = None
      /\ \A c \in Bills \ {b} : status'[c] = status[c]
  <2>1. CASE CreateBill(b)
    <3>1. status[b] # "OPEN"
        BY <2>1 DEF CreateBill
    <3>2. lock[b] = None
        BY <3>1 DEF Core, TypeOK, CheckedStatusHolds
    <3> QED
        BY <2>1, <3>2 DEF CreateBill, Core, TypeOK
  <2>2. CASE CloseBill(b) \/ CancelBill(b)
      BY <2>2 DEF CloseBill, CancelBill, LeaveOpen, Core, TypeOK
  <2> QED
      BY <2>1, <2>2
<1>2. SessionShape' /\ ViewShape'
    BY <1>1 DEF Core, SessionShape, ShapeOf, ViewShape
<1>3. CheckedStatusHolds'
    BY <1>1, NoTxAssumption DEF Core, CheckedStatusHolds
<1>4. SnapshotIsCurrent' /\ TotalMatchesItems'
    BY <1>1 DEF Core, SnapshotIsCurrent, CurrentSnapshot, TotalMatchesItems
<1> QED
    BY <1>2, <1>3, <1>4 DEF Core

\* The status check: the session enters the locked section with the committed
\* total of the bill.
LEMMA LockBillKeepsCore ==
    ASSUME Core, TypeOK', NEW t \in Tx, LockBill(t)
    PROVE  Core'
<1> DEFINE b == tx[t].req.bill
<1>1. tx[t].pc = "begun" /\ UNCHANGED <<tables, view>>
    BY DEF LockBill
<1>2. b \in Bills
    BY <1>1, RequestType DEF Core
<1>3. \A c \in Bills : lock[c] # t
    BY <1>1 DEF Core, CheckedStatusHolds, LockedSteps
<1>4. CASE \E reply \in Reply : Return(t, reply) /\ UNCHANGED lock
    BY <1>1, <1>3, <1>4, EndKeepsCore
<1>5. CASE /\ status[b] = "OPEN" /\ RowLockFree(t, b)
           /\ lock' = [lock EXCEPT ![b] = t]
           /\ tx' = [tx EXCEPT ![t].pc = "locked", ![t].total = total[b]]
  <2>1. /\ tx'[t].pc = "locked" /\ tx'[t].total = total[b]
        /\ tx'[t].req = tx[t].req /\ tx'[t].reply = tx[t].reply
        /\ tx'[t].inserted = tx[t].inserted
        /\ \A u \in Tx \ {t} : tx'[u] = tx[u]
      BY <1>5 DEF Core, TypeOK, Session
  <2>2. lock[b] = None
      BY <1>2, <1>3, <1>5 DEF RowLockFree
  <2>3. lock'[b] = t /\ \A c \in Bills \ {b} : lock'[c] = lock[c]
      BY <1>2, <1>5 DEF Core, TypeOK
  <2>4. SessionShape' /\ ViewShape'
      BY <1>1, <2>1 DEF Core, SessionShape, ShapeOf, ViewShape
  <2>5. CheckedStatusHolds'
    <3> SUFFICES ASSUME NEW u \in Tx, NEW c \in Bills
                 PROVE  /\ lock'[c] = u <=> tx'[u].pc \in LockedSteps
                                            /\ tx'[u].req.bill = c
                        /\ lock'[c] = u => status'[c] = "OPEN"
        BY DEF CheckedStatusHolds
    <3>1. /\ lock[c] = u <=> tx[u].pc \in LockedSteps /\ tx[u].req.bill = c
          /\ lock[c] = u => status[c] = "OPEN"
          /\ status'[c] = status[c]
        BY <1>1 DEF Core, CheckedStatusHolds, tables
    <3>2. CASE u = t
        BY <1>3, <1>5, <2>1, <2>3, <3>1, <3>2 DEF LockedSteps
    <3>3. CASE u # t
        BY <2>1, <2>2, <2>3, <3>1, <3>3, NoTxAssumption
    <3> QED
        BY <3>2, <3>3
  <2>6. ~tx[t].inserted
      BY <1>1 DEF Core, SessionShape, ShapeOf
  <2>7. SnapshotIsCurrent'
    <3>1. \A u \in Tx : CurrentSnapshot(u)
        BY DEF Core, SnapshotIsCurrent
    <3>2. ASSUME NEW u \in Tx \ {t} PROVE CurrentSnapshot(u)'
      <4>1. tx'[u] = tx[u] /\ total' = total /\ items' = items
          BY <1>1, <2>1 DEF tables
      <4> QED
          BY <3>1, <4>1 DEF CurrentSnapshot
    <3>3. /\ tx'[t].pc = "locked" /\ ~tx'[t].inserted
          /\ tx'[t].total = total'[tx'[t].req.bill]
        BY <1>1, <2>1, <2>6 DEF tables
    <3>4. CurrentSnapshot(t)'
        BY <3>3 DEF CurrentSnapshot
    <3> QED
        BY <3>2, <3>4 DEF SnapshotIsCurrent
  <2>8. TotalMatchesItems'
      BY <1>1 DEF Core, TotalMatchesItems, tables
  <2> QED
      BY <2>4, <2>5, <2>7, <2>8 DEF Core
<1> QED
    BY <1>4, <1>5, ReplyValues DEF LockBill

\* The insert: the row is new and its key is free, or a row is there already.
LEMMA InsertLineItemKeepsCore ==
    ASSUME Core, TypeOK', NEW t \in Tx, InsertLineItem(t)
    PROVE  Core'
<1>1. tx[t].pc = "locked" /\ UNCHANGED <<tables, lock, view>>
    BY DEF InsertLineItem
<1>2. /\ tx'[t].pc \in {"inserted", "conflict"}
      /\ tx'[t].inserted <=> items[tx[t].req.bill][tx[t].req.key] = None
      /\ tx'[t].pc = "inserted" <=> items[tx[t].req.bill][tx[t].req.key] = None
      /\ tx'[t].total = tx[t].total
      /\ tx'[t].req = tx[t].req /\ tx'[t].reply = tx[t].reply
      /\ \A u \in Tx \ {t} : tx'[u] = tx[u]
  <2>1. ~tx[t].inserted
      BY <1>1 DEF Core, SessionShape, ShapeOf
  <2> QED
      BY <2>1 DEF InsertLineItem, Core, TypeOK, Session
<1>3. ShapeOf(t)'
    BY <1>1, <1>2 DEF Core, SessionShape, ShapeOf
<1>4. CurrentSnapshot(t)'
    BY <1>1, <1>2 DEF Core, SnapshotIsCurrent, CurrentSnapshot, tables
<1>5. tx[t].pc \in LockedSteps /\ tx'[t].pc \in LockedSteps
    BY <1>1, <1>2 DEF LockedSteps
<1> QED
    BY <1>1, <1>2, <1>3, <1>4, <1>5, InnerStepKeepsCore

\* The replay: it goes on only if the stored payload is the requested one.
LEMMA LoadExistingKeepsCore ==
    ASSUME Core, TypeOK', NEW t \in Tx, LoadExisting(t)
    PROVE  Core'
<1>1. tx[t].pc = "conflict" /\ UNCHANGED <<tables, view>>
    BY DEF LoadExisting
<1>2. CASE /\ HashesAgree(items[tx[t].req.bill][tx[t].req.key], tx[t].req.payload)
           /\ tx' = [tx EXCEPT ![t].pc = "ready"]
           /\ UNCHANGED lock
  <2>1. ~tx[t].inserted
      BY <1>1 DEF Core, SessionShape, ShapeOf
  <2>2. /\ tx'[t].pc = "ready" /\ tx'[t].inserted = tx[t].inserted
        /\ tx'[t].total = tx[t].total
        /\ tx'[t].req = tx[t].req /\ tx'[t].reply = tx[t].reply
        /\ \A u \in Tx \ {t} : tx'[u] = tx[u]
      BY <1>2 DEF Core, TypeOK, Session
  <2>3. items[tx[t].req.bill][tx[t].req.key] = tx[t].req.payload
    <3>1. /\ tx[t].req.bill \in Bills /\ tx[t].req.key \in Keys
          /\ tx[t].req.payload \in Payloads
        BY <1>1, RequestType DEF Core
    <3>2. items[tx[t].req.bill][tx[t].req.key] \in Payloads
        BY <1>1, <3>1 DEF Core, TypeOK, Rows, SnapshotIsCurrent, CurrentSnapshot
    <3> QED
        BY <1>2, <3>1, <3>2, HashInjective
  <2>4. ShapeOf(t)' /\ CurrentSnapshot(t)'
      BY <1>1, <2>1, <2>2, <2>3
         DEF Core, SessionShape, ShapeOf, SnapshotIsCurrent, CurrentSnapshot, tables
  <2>5. tx[t].pc \in LockedSteps /\ tx'[t].pc \in LockedSteps
      BY <1>1, <2>2 DEF LockedSteps
  <2> QED
      BY <1>1, <1>2, <2>2, <2>4, <2>5, InnerStepKeepsCore
<1>3. CASE Return(t, "ALREADY_EXISTS") /\ Release(t)
    BY <1>1, <1>3, EndKeepsCore, ReleaseEffect, ReplyValues DEF Core
<1> QED
    BY <1>2, <1>3 DEF LoadExisting

\* The increment: the new total is the committed one plus the new amount.
LEMMA IncrementBillTotalKeepsCore ==
    ASSUME Core, TypeOK', NEW t \in Tx, IncrementBillTotal(t)
    PROVE  Core'
<1> DEFINE sum == total[tx[t].req.bill] + tx[t].req.payload.amount_minor
<1>1. tx[t].pc = "inserted" /\ UNCHANGED <<tables, view>>
    BY DEF IncrementBillTotal
<1>2. CASE /\ sum <= MaxTotal
           /\ tx' = [tx EXCEPT ![t].pc = "ready", ![t].total = sum]
           /\ UNCHANGED lock
  <2>1. tx[t].inserted
      BY <1>1 DEF Core, SessionShape, ShapeOf
  <2>2. /\ tx'[t].pc = "ready" /\ tx'[t].inserted = tx[t].inserted
        /\ tx'[t].total = sum
        /\ tx'[t].req = tx[t].req /\ tx'[t].reply = tx[t].reply
        /\ \A u \in Tx \ {t} : tx'[u] = tx[u]
      BY <1>2 DEF Core, TypeOK, Session
  <2>3. ShapeOf(t)'
      BY <1>1, <2>2 DEF Core, SessionShape, ShapeOf
  <2>4. items[tx[t].req.bill][tx[t].req.key] = None
      BY <2>1 DEF Core, SnapshotIsCurrent, CurrentSnapshot
  <2>5. CurrentSnapshot(t)'
      BY <1>1, <1>2, <2>1, <2>2, <2>4 DEF CurrentSnapshot, tables
  <2>6. tx[t].pc \in LockedSteps /\ tx'[t].pc \in LockedSteps
      BY <1>1, <2>2 DEF LockedSteps
  <2> QED
      BY <1>1, <1>2, <2>2, <2>3, <2>5, <2>6, InnerStepKeepsCore
<1>3. CASE Return(t, "retry") /\ Release(t)
    BY <1>1, <1>3, EndKeepsCore, ReleaseEffect, ReplyValues DEF Core
<1> QED
    BY <1>2, <1>3 DEF IncrementBillTotal

\* The commit: the row and its share of the total appear together, on a bill
\* that is OPEN and that no other transaction is working on.
LEMMA CommitCharges ==
    ASSUME Core, NEW t \in Tx, Commit(t), tx[t].inserted,
           NEW b, b = tx[t].req.bill, NEW k, k = tx[t].req.key,
           NEW p, p = tx[t].req.payload
    PROVE  /\ b \in Bills /\ k \in Keys /\ p \in Payloads
           /\ status[b] = "OPEN" /\ items[b][k] = None
           /\ items'[b][k] = p
           /\ \A j \in Keys \ {k} : items'[b][j] = items[b][j]
           /\ total' \in [Bills -> Nat]
           /\ total'[b] = total[b] + p.amount_minor /\ total'[b] <= MaxTotal
           /\ total'[b] = ItemsTotal(items'[b])
           /\ \A c \in Bills \ {b} : total'[c] = total[c] /\ items'[c] = items[c]
<1>1. tx[t].pc = "ready" /\ tx[t].pc \in LockedSteps
    BY DEF Commit, LockedSteps
<1>2. status[b] = "OPEN"
    BY <1>1, RunnerHoldsLock
<1>3. /\ items[b][k] = None
      /\ tx[t].total = total[b] + p.amount_minor /\ tx[t].total <= MaxTotal
    BY <1>1 DEF Core, SnapshotIsCurrent, CurrentSnapshot
<1>4. /\ b \in Bills /\ k \in Keys /\ p \in Payloads
      /\ total' \in [Bills -> Nat]
      /\ total'[b] = tx[t].total
      /\ items'[b] = [items[b] EXCEPT ![k] = p]
      /\ \A c \in Bills \ {b} : total'[c] = total[c] /\ items'[c] = items[c]
    BY CommitEffect DEF Core
<1>5. items[b] \in Rows /\ total[b] = ItemsTotal(items[b])
    BY <1>4 DEF Core, TypeOK, TotalMatchesItems
<1>6. ItemsTotal(items'[b]) = ItemsTotal(items[b]) + p.amount_minor
    BY <1>3, <1>4, <1>5, ItemsTotalInsert
<1>7. items'[b][k] = p /\ \A j \in Keys \ {k} : items'[b][j] = items[b][j]
    BY <1>4, <1>5 DEF Rows
<1>8. /\ total'[b] = total[b] + p.amount_minor /\ total'[b] <= MaxTotal
      /\ total'[b] = ItemsTotal(items'[b])
    BY <1>3, <1>4, <1>5, <1>6
<1> QED
    BY <1>2, <1>3, <1>4, <1>7, <1>8

LEMMA CommitKeepsCore ==
    ASSUME Core, TypeOK', NEW t \in Tx, Commit(t)
    PROVE  Core'
<1>1. /\ tx[t].pc = "ready" /\ tx[t].pc \in LockedSteps /\ tx[t].pc # "idle"
      /\ Release(t) /\ UNCHANGED <<status, view>>
    BY DEF Commit, LockedSteps
<1>2. PICK reply \in Reply : Return(t, reply)
    BY ReplyValues DEF Commit
<1>3. CASE ~tx[t].inserted
  <2>1. UNCHANGED tables
      BY <1>3 DEF Commit, tables
  <2> QED
      BY <1>1, <1>2, <2>1, EndKeepsCore, ReleaseEffect DEF Core
<1>4. CASE tx[t].inserted
  <2> DEFINE b == tx[t].req.bill
  <2>1. /\ b \in Bills
        /\ total'[b] = ItemsTotal(items'[b])
        /\ \A c \in Bills \ {b} : total'[c] = total[c] /\ items'[c] = items[c]
      BY <1>4, CommitCharges
  <2>2. /\ tx'[t].pc = "idle" /\ ~tx'[t].inserted
        /\ tx'[t].req = tx[t].req
        /\ \A u \in Tx \ {t} : tx'[u] = tx[u]
      BY <1>2, ReturnEffect DEF Core
  <2>3. \A c \in Bills : lock'[c] = IF lock[c] = t THEN None ELSE lock[c]
      BY <1>1, ReleaseEffect DEF Core
  <2>4. SessionShape' /\ ViewShape'
      BY <1>1, <2>2 DEF Core, SessionShape, ShapeOf, ViewShape
  <2>5. CheckedStatusHolds'
      BY <1>1, <2>2, <2>3, NoTxAssumption DEF Core, CheckedStatusHolds, LockedSteps
  <2>6. SnapshotIsCurrent'
    <3>1. CurrentSnapshot(t)'
        BY <2>2 DEF CurrentSnapshot
    <3>2. ASSUME NEW u \in Tx \ {t}
          PROVE  CurrentSnapshot(u)'
      <4>1. CASE tx[u].pc \in LockedSteps
        <5>1. tx[u].req.bill # b /\ tx[u].pc # "idle"
            BY <1>1, <4>1, RunnerHoldsLock
        <5>2. tx[u].req.bill \in Bills
            BY <5>1, RequestType DEF Core
        <5> QED
            BY <2>1, <2>2, <5>1, <5>2 DEF Core, SnapshotIsCurrent, CurrentSnapshot
      <4>2. CASE tx[u].pc \notin LockedSteps
        <5>1. ~tx[u].inserted
            BY <4>2, InsertedIsLocked
        <5> QED
            BY <2>2, <4>2, <5>1 DEF CurrentSnapshot, LockedSteps
      <4> QED
          BY <4>1, <4>2
    <3> QED
        BY <3>1, <3>2 DEF SnapshotIsCurrent
  <2>7. TotalMatchesItems'
      BY <2>1 DEF Core, TotalMatchesItems
  <2> QED
      BY <2>4, <2>5, <2>6, <2>7 DEF Core
<1> QED
    BY <1>3, <1>4

LEMMA CoreNext == Core /\ [Next]_vars => Core'
<1> SUFFICES ASSUME Core, [Next]_vars PROVE Core'
    OBVIOUS
<1>1. TypeOK'
    BY TypeNext DEF Core
<1>2. CASE UNCHANGED vars
  <2>1. UNCHANGED <<tables, lock, tx>> /\ UNCHANGED view
      BY <1>2 DEF vars, tables
  <2>2. ViewShape'
      BY <2>1 DEF Core, ViewShape
  <2> QED
      BY <1>1, <2>1, <2>2, ReadKeepsCore
<1>3. ASSUME NEW b \in Bills, CreateBill(b) \/ CloseBill(b) \/ CancelBill(b)
      PROVE  Core'
    BY <1>1, <1>3, StatusStepKeepsCore
<1>4. ASSUME NEW t \in Tx, NEW q \in Request, Begin(t, q)
      PROVE  Core'
  <2>1. tx[t].pc = "idle" /\ UNCHANGED <<tables, lock, view>>
      BY <1>4 DEF Begin
  <2>2. /\ tx'[t].pc = "begun" /\ tx'[t].req = q /\ tx'[t].reply = "none"
        /\ ~tx'[t].inserted
        /\ \A u \in Tx \ {t} : tx'[u] = tx[u]
      BY <1>4 DEF Begin, Core, TypeOK
  <2>3. SessionShape' /\ ViewShape'
      BY <2>1, <2>2 DEF Core, SessionShape, ShapeOf, ViewShape, Acknowledged
  <2>4. CheckedStatusHolds'
      BY <2>1, <2>2 DEF Core, CheckedStatusHolds, LockedSteps, tables
  <2>5. SnapshotIsCurrent' /\ TotalMatchesItems'
      BY <2>1, <2>2
         DEF Core, SnapshotIsCurrent, CurrentSnapshot, TotalMatchesItems, tables
  <2> QED
      BY <1>1, <2>3, <2>4, <2>5 DEF Core
<1>5. ASSUME NEW t \in Tx, Step(t)
      PROVE  Core'
    BY <1>1, <1>5, LockBillKeepsCore, InsertLineItemKeepsCore,
       LoadExistingKeepsCore, IncrementBillTotalKeepsCore, CommitKeepsCore DEF Step
<1>6. ASSUME NEW t \in Tx, Rollback(t)
      PROVE  Core'
    BY <1>1, <1>6, EndKeepsCore, ReleaseEffect, ReplyValues DEF Rollback, Core
<1>7. ASSUME NEW r \in Readers, NEW b \in Bills, ReadBill(r, b)
      PROVE  Core'
  <2>1. ViewShape'
      BY <1>7 DEF ReadBill, ViewShape, Core, TypeOK
  <2> QED
      BY <1>1, <1>7, <2>1, ReadKeepsCore DEF ReadBill
<1>8. ASSUME NEW r \in Readers, ReadItems(r)
      PROVE  Core'
  <2>1. ViewShape'
      BY <1>8 DEF ReadItems, ViewShape, Core, TypeOK, View
  <2> QED
      BY <1>1, <1>8, <2>1, ReadKeepsCore DEF ReadItems
<1> QED
    BY <1>2, <1>3, <1>4, <1>5, <1>6, <1>7, <1>8 DEF Next

THEOREM CoreInvariant == Spec => []Core
BY CoreInit, CoreNext, PTL DEF Spec

(***************************************************************************)
(* What a step may do to the committed tables.                             *)
(***************************************************************************)

\* A step leaves the tables alone, changes the status of a bill, or commits a
\* new row.
LEMMA TableSteps ==
    ASSUME Core, [Next]_vars
    PROVE  \/ UNCHANGED tables
           \/ \E b \in Bills : CreateBill(b) \/ CloseBill(b) \/ CancelBill(b)
           \/ \E t \in Tx : Commit(t) /\ tx[t].inserted
<1>1. CASE UNCHANGED vars
    BY <1>1 DEF vars, tables
<1>2. CASE \E t \in Tx : Step(t)
    BY <1>2 DEF Step, LockBill, InsertLineItem, LoadExisting, IncrementBillTotal,
                Commit, tables
<1>3. CASE \E t \in Tx : Rollback(t) \/ \E q \in Request : Begin(t, q)
    BY <1>3 DEF Rollback, Begin
<1>4. CASE \E r \in Readers : ReadItems(r) \/ \E b \in Bills : ReadBill(r, b)
    BY <1>4 DEF ReadItems, ReadBill
<1> QED
    BY <1>1, <1>2, <1>3, <1>4 DEF Next

\* Totals only grow, stored items stay, and a bill that has left OPEN keeps
\* its status, total and items.
LEMMA TablesGrow ==
    ASSUME Core, [Next]_vars, NEW b \in Bills
    PROVE  /\ total[b] <= total'[b]
           /\ \A k \in Keys : items[b][k] # None => items'[b][k] = items[b][k]
           /\ status[b] \in {"CLOSED", "CANCELLED"} =>
                 UNCHANGED <<status[b], total[b], items[b]>>
<1>1. total[b] \in Nat /\ status[b] \in BillStatus /\ items[b] \in Rows
    BY DEF Core, TypeOK
<1>2. CASE UNCHANGED tables
    BY <1>1, <1>2 DEF tables
<1>3. ASSUME NEW c \in Bills, CreateBill(c) \/ CloseBill(c) \/ CancelBill(c)
      PROVE  /\ UNCHANGED <<total, items>>
             /\ status[b] \in {"CLOSED", "CANCELLED"} => status'[b] = status[b]
    BY <1>3 DEF CreateBill, CloseBill, CancelBill, LeaveOpen, Core, TypeOK
<1>4. ASSUME NEW t \in Tx, Commit(t), tx[t].inserted
      PROVE  /\ total[b] <= total'[b]
             /\ \A k \in Keys : items[b][k] # None => items'[b][k] = items[b][k]
             /\ status[b] \in {"CLOSED", "CANCELLED"} =>
                   UNCHANGED <<status[b], total[b], items[b]>>
  <2> DEFINE c == tx[t].req.bill
             key == tx[t].req.key
             p == tx[t].req.payload
  <2>1. /\ c \in Bills /\ key \in Keys /\ p \in Payloads
        /\ status[c] = "OPEN" /\ items[c][key] = None
        /\ \A j \in Keys \ {key} : items'[c][j] = items[c][j]
        /\ total'[c] = total[c] + p.amount_minor
        /\ \A d \in Bills \ {c} : total'[d] = total[d] /\ items'[d] = items[d]
      BY <1>4, CommitCharges
  <2>2. p.amount_minor \in Nat
      BY <2>1, PayloadsAssumption, MaxTotalAssumption
  <2>3. UNCHANGED status
      BY <1>4 DEF Commit
  <2> HIDE DEF c, key, p
  <2>4. CASE b = c
      BY <1>1, <2>1, <2>2, <2>4 DEF Core, TypeOK, Rows
  <2>5. CASE b # c
      BY <1>1, <2>1, <2>3, <2>5
  <2> QED
      BY <2>4, <2>5
<1> QED
    BY <1>1, <1>2, <1>3, <1>4, TableSteps

(***************************************************************************)
(* What the answers mean.                                                  *)
(***************************************************************************)

\* An answer that acknowledges the item is an old one or that of a commit.
LEMMA ReplyOrigin ==
    ASSUME Core, [Next]_vars, NEW u \in Tx, tx'[u].reply \in Acknowledged
    PROVE  /\ tx'[u].req = tx[u].req /\ tx'[u].total = tx[u].total
           /\ \/ tx'[u].reply = tx[u].reply
              \/ /\ Commit(u)
                 /\ tx'[u].reply = IF tx[u].inserted THEN "inserted" ELSE "existing"
<1>1. CASE tx'[u] = tx[u]
    BY <1>1
<1>2. ASSUME NEW t \in Tx, Commit(t)
      PROVE  \/ tx'[u] = tx[u]
             \/ /\ t = u /\ tx'[u].req = tx[u].req /\ tx'[u].total = tx[u].total
                /\ tx'[u].reply = IF tx[u].inserted THEN "inserted" ELSE "existing"
  <2>1. CASE Return(t, "retry")
      BY <2>1, ReturnEffect, ReplyValues DEF Core, Acknowledged
  <2>2. CASE Return(t, IF tx[t].inserted THEN "inserted" ELSE "existing")
      BY <2>2, ReturnEffect, ReplyValues DEF Core, Acknowledged
  <2> QED
      BY <1>2, <2>1, <2>2 DEF Commit
<1>3. ASSUME NEW t \in Tx,
             \/ \E q \in Request : Begin(t, q)
             \/ LockBill(t) \/ InsertLineItem(t) \/ LoadExisting(t)
             \/ IncrementBillTotal(t) \/ Rollback(t)
      PROVE  tx'[u] = tx[u]
  <2>1. CASE \E reply \in Reply \ Acknowledged : Return(t, reply)
      BY <2>1, ReturnEffect DEF Core
  <2>2. CASE \E q \in Request : Begin(t, q)
      BY <2>2 DEF Begin, Core, TypeOK, Acknowledged
  <2>3. CASE tx[t].reply = "none" /\ tx'[t].reply = tx[t].reply
             /\ \A v \in Tx \ {t} : tx'[v] = tx[v]
      BY <2>3 DEF Acknowledged
  <2>4. CASE InsertLineItem(t)
    <3>1. tx[t].reply = "none"
        BY <2>4 DEF InsertLineItem, Core, SessionShape, ShapeOf
    <3>2. tx'[t].reply = tx[t].reply /\ \A v \in Tx \ {t} : tx'[v] = tx[v]
        BY <2>4 DEF InsertLineItem, Core, TypeOK, Session
    <3> QED
        BY <3>1, <3>2, <2>3
  <2>5. CASE tx[t].pc # "idle" /\ \E s \in {"ready", "locked"}, n \in Nat :
                 \/ tx' = [tx EXCEPT ![t].pc = s, ![t].total = n]
                 \/ tx' = [tx EXCEPT ![t].pc = s]
    <3>1. tx[t].reply = "none"
        BY <2>5 DEF Core, SessionShape, ShapeOf
    <3>2. tx'[t].reply = tx[t].reply /\ \A v \in Tx \ {t} : tx'[v] = tx[v]
        BY <2>5 DEF Core, TypeOK, Session
    <3> QED
        BY <3>1, <3>2, <2>3
  <2>6. CASE LockBill(t)
    <3>1. tx[t].pc = "begun" /\ total[tx[t].req.bill] \in Nat
        BY <2>6, RequestType DEF LockBill, Core, TypeOK
    <3> QED
        BY <2>1, <2>5, <2>6, <3>1, ReplyValues DEF LockBill, Acknowledged
  <2>7. CASE LoadExisting(t)
      BY <2>1, <2>5, <2>7, ReplyValues DEF LoadExisting, Acknowledged
  <2>8. CASE IncrementBillTotal(t)
    <3>1. /\ tx[t].pc = "inserted"
          /\ total[tx[t].req.bill] + tx[t].req.payload.amount_minor \in Nat
        BY <2>8, RequestType DEF IncrementBillTotal, Core, TypeOK
    <3> QED
        BY <2>1, <2>5, <2>8, <3>1, ReplyValues DEF IncrementBillTotal, Acknowledged
  <2>9. CASE Rollback(t)
      BY <2>1, <2>9, ReplyValues DEF Rollback, Acknowledged
  <2> QED
      BY <1>3, <2>2, <2>4, <2>6, <2>7, <2>8, <2>9
<1>4. CASE UNCHANGED tx
    BY <1>4
<1>5. \/ UNCHANGED tx
      \/ \E t \in Tx : \/ \E q \in Request : Begin(t, q)
                      \/ LockBill(t) \/ InsertLineItem(t) \/ LoadExisting(t)
                      \/ IncrementBillTotal(t) \/ Rollback(t)
                      \/ Commit(t)
    BY DEF Next, Step, vars, CreateBill, CloseBill, CancelBill, LeaveOpen, ReadBill,
           ReadItems
<1> QED
    BY <1>2, <1>3, <1>4, <1>5

\* Acknowledged items stay stored.
LEMMA AcknowledgedNext ==
    Core /\ AcknowledgedIsDurable /\ [Next]_vars => AcknowledgedIsDurable'
<1> SUFFICES ASSUME Core, AcknowledgedIsDurable, [Next]_vars,
                    NEW u \in Tx, tx'[u].reply \in Acknowledged
             PROVE  items'[tx'[u].req.bill][tx'[u].req.key] = tx'[u].req.payload
    BY DEF AcknowledgedIsDurable
<1>1. tx'[u].req = tx[u].req
    BY ReplyOrigin
<1>2. CASE tx[u].reply \in Acknowledged
  <2>1. /\ tx[u].req.bill \in Bills /\ tx[u].req.key \in Keys
        /\ tx[u].req.payload \in Payloads
      BY <1>2, RequestType DEF Core
  <2>2. items[tx[u].req.bill][tx[u].req.key] = tx[u].req.payload
      BY <1>2 DEF AcknowledgedIsDurable
  <2> QED
      BY <1>1, <2>1, <2>2, TablesGrow, NoneAssumption
<1>3. CASE Commit(u)
  <2>1. /\ tx[u].req.bill \in Bills /\ tx[u].req.key \in Keys
        /\ tx[u].req.payload \in Payloads
      BY <1>3, CommitEffect DEF Core
  <2>2. CASE tx[u].inserted
      BY <1>1, <1>3, <2>2, CommitCharges
  <2>3. CASE ~tx[u].inserted
      BY <1>1, <1>3, <2>3 DEF Commit, Core, SnapshotIsCurrent, CurrentSnapshot
  <2> QED
      BY <2>2, <2>3
<1> QED
    BY <1>2, <1>3, ReplyOrigin

\* Of the answers that inserted an item, the one a step adds comes last: its
\* total is the old committed total, which contains all earlier ones, plus its
\* own amount, and its key was free, which no acknowledged key is.
LEMMA RepliesNext ==
    Core /\ AcknowledgedIsDurable /\ RepliesAreSerial /\ [Next]_vars
        => RepliesAreSerial'
<1> SUFFICES ASSUME Core, AcknowledgedIsDurable, RepliesAreSerial, [Next]_vars
             PROVE  RepliesAreSerial'
    OBVIOUS
<1>1. ASSUME NEW b \in Bills, NEW t \in Tx, t \in Inserters(b)'
      PROVE  /\ tx'[t].req = tx[t].req /\ tx'[t].total = tx[t].total
             /\ Amount(t)' = Amount(t) /\ tx[t].req.bill = b
             /\ t \in Inserters(b) \/ (Commit(t) /\ tx[t].inserted)
    BY <1>1, ReplyOrigin DEF Inserters, Amount, Acknowledged
<1>2. ASSUME NEW b \in Bills, NEW t \in Tx, t \in Inserters(b)
      PROVE  /\ items[b][tx[t].req.key] # None /\ tx[t].req.key \in Keys
             /\ Amount(t) \in Nat /\ tx[t].total \in Nat
             /\ Amount(t) <= tx[t].total /\ tx[t].total <= total[b]
             /\ tx[t].reply \in Acknowledged /\ tx[t].req.bill = b
    BY <1>2, RequestType, NoneAssumption
       DEF Inserters, Amount, Acknowledged, Core, AcknowledgedIsDurable, RepliesAreSerial
<1>3. ASSUME NEW b \in Bills, NEW t \in Tx, Commit(t), tx[t].inserted,
             tx[t].req.bill = b
      PROVE  /\ items[b][tx[t].req.key] = None
             /\ Amount(t) \in Nat /\ tx[t].total \in Nat
             /\ tx[t].total = total[b] + Amount(t) /\ total'[b] = tx[t].total
             /\ \A u \in Tx \ {t} : tx'[u] = tx[u]
  <2>1. tx[t].pc = "ready" /\ \E reply \in Reply : Return(t, reply)
      BY <1>3, ReplyValues DEF Commit
  <2>2. Amount(t) \in Nat /\ tx[t].total \in Nat
      BY <2>1, RequestType DEF Core, Amount
  <2>3. tx[t].total = total[b] + Amount(t) /\ items[b][tx[t].req.key] = None
      BY <1>3, <2>1 DEF Core, SnapshotIsCurrent, CurrentSnapshot, Amount
  <2> QED
      BY <1>3, <2>1, <2>2, <2>3, CommitEffect, ReturnEffect DEF Core
<1>4. \A b \in Bills : total[b] \in Nat /\ total'[b] \in Nat /\ total[b] <= total'[b]
    BY TablesGrow, TypeNext DEF Core, TypeOK
<1>5. ASSUME NEW b \in Bills, NEW t \in Tx, t \in Inserters(b)'
      PROVE  Amount(t)' <= tx'[t].total /\ tx'[t].total <= total'[b]
  <2>1. CASE t \in Inserters(b)
      BY <1>1, <1>2, <1>4, <1>5, <2>1
  <2>2. CASE Commit(t) /\ tx[t].inserted
      BY <1>1, <1>3, <1>4, <1>5, <2>2
  <2> QED
      BY <1>1, <1>5, <2>1, <2>2
\* t is acknowledged already when the step commits u.
<1>6. ASSUME NEW b \in Bills, NEW t \in Tx, NEW u \in Tx,
             t \in Inserters(b), Commit(u), tx[u].inserted, tx[u].req.bill = b
      PROVE  /\ tx[u].req.key # tx[t].req.key
             /\ tx[t].total + Amount(u) <= tx[u].total
    BY <1>2, <1>3, <1>4, <1>6
<1>7. ASSUME NEW t \in Tx, NEW u \in Tx, Commit(t), Commit(u), u # t,
             tx[t].req.bill = tx[u].req.bill
      PROVE  FALSE
  <2>1. tx[t].pc \in LockedSteps /\ tx[u].pc \in LockedSteps
      BY <1>7 DEF Commit, LockedSteps
  <2> QED
      BY <1>7, <2>1, RunnerHoldsLock
<1>8. ASSUME NEW b \in Bills, NEW t \in Tx, NEW u \in Tx, u # t,
             t \in Inserters(b)', u \in Inserters(b)'
      PROVE  /\ tx[u].req.key # tx[t].req.key
             /\ \/ tx[t].total + Amount(u) <= tx[u].total
                \/ tx[u].total + Amount(t) <= tx[t].total
  <2>1. CASE t \in Inserters(b) /\ u \in Inserters(b)
      BY <1>8, <2>1 DEF RepliesAreSerial
  <2>2. CASE t \in Inserters(b) /\ Commit(u) /\ tx[u].inserted
      BY <1>1, <1>6, <1>8, <2>2
  <2>3. CASE u \in Inserters(b) /\ Commit(t) /\ tx[t].inserted
      BY <1>1, <1>6, <1>8, <2>3
  <2>4. CASE Commit(t) /\ Commit(u)
      BY <1>1, <1>7, <1>8, <2>4
  <2> QED
      BY <1>1, <1>8, <2>1, <2>2, <2>3, <2>4
<1>9. \A b \in Bills : \A t \in Inserters(b)' : t \in Tx
    BY DEF Inserters
<1> QED
    BY <1>1, <1>5, <1>8, <1>9 DEF RepliesAreSerial

(***************************************************************************)
(* What readers see.                                                       *)
(***************************************************************************)

\* Between its two reads a reader holds a total that the bill has not fallen
\* below, and if the bill had left OPEN, the total the bill still has.
ViewTracksBill ==
    \A r \in Readers :
        view[r].pc = "bill" =>
            /\ view[r].total <= total[view[r].bill]
            /\ view[r].status # "OPEN" =>
                  /\ status[view[r].bill] = view[r].status
                  /\ total[view[r].bill] = view[r].total

LEMMA ViewNext ==
    Core /\ ViewTracksBill /\ ViewIsConsistent /\ [Next]_vars
        => ViewTracksBill' /\ ViewIsConsistent'
<1> SUFFICES ASSUME Core, ViewTracksBill, ViewIsConsistent, [Next]_vars, NEW r \in Readers
             PROVE  /\ view'[r].pc = "bill" =>
                          /\ view'[r].total <= total'[view'[r].bill]
                          /\ view'[r].status # "OPEN" =>
                                /\ status'[view'[r].bill] = view'[r].status
                                /\ total'[view'[r].bill] = view'[r].total
                    /\ view'[r].pc = "done" =>
                          /\ view'[r].total <= ItemsTotal(view'[r].rows)
                          /\ view'[r].status # "OPEN" =>
                                view'[r].total = ItemsTotal(view'[r].rows)
    BY DEF ViewTracksBill, ViewIsConsistent
<1>1. CASE view'[r] = view[r]
  <2>1. CASE view[r].pc = "bill"
    <3> DEFINE b == view[r].bill
    <3>1. /\ b \in Bills /\ view[r].status \in BillStatus \ {"NONE"}
          /\ view[r].total \in Nat
        BY <2>1 DEF Core, ViewShape, TypeOK, View
    <3>2. /\ total[b] \in Nat /\ total'[b] \in Nat /\ total[b] <= total'[b]
          /\ status[b] \in {"CLOSED", "CANCELLED"} =>
                status'[b] = status[b] /\ total'[b] = total[b]
      <4>1. total \in [Bills -> Nat] /\ total' \in [Bills -> Nat]
          BY TypeNext DEF Core, TypeOK
      <4>2. b \in Bills
          BY <3>1
      <4>3. \A c \in Bills :
                /\ total[c] <= total'[c]
                /\ status[c] \in {"CLOSED", "CANCELLED"} =>
                      status'[c] = status[c] /\ total'[c] = total[c]
          BY TablesGrow
      <4> HIDE DEF b
      <4> QED
          BY <4>1, <4>2, <4>3
    <3>3. /\ view[r].total <= total[b]
          /\ view[r].status # "OPEN" =>
                status[b] = view[r].status /\ total[b] = view[r].total
        BY <2>1 DEF ViewTracksBill
    <3> QED
        BY <1>1, <2>1, <3>1, <3>2, <3>3 DEF BillStatus
  <2>2. CASE view[r].pc = "done"
      BY <1>1, <2>2 DEF ViewIsConsistent
  <2> QED
      BY <1>1, <2>1, <2>2
<1>2. ASSUME NEW b \in Bills, ReadBill(r, b)
      PROVE  /\ view'[r].pc = "bill" /\ view'[r].bill = b
             /\ view'[r].status = status[b] /\ view'[r].total = total[b]
             /\ status'[b] = status[b] /\ total'[b] = total[b] /\ total[b] \in Nat
    BY <1>2 DEF ReadBill, Core, TypeOK, tables
<1>3. CASE ReadItems(r)
  <2> DEFINE b == view[r].bill
  <2>1. /\ view'[r].pc = "done" /\ view'[r].rows = items[b]
        /\ view'[r].status = view[r].status /\ view'[r].total = view[r].total
        /\ view[r].pc = "bill"
      BY <1>3 DEF ReadItems, Core, TypeOK, View
  <2>2. b \in Bills
      BY <2>1 DEF Core, ViewShape
  <2>3. total[b] = ItemsTotal(items[b])
      BY <2>2 DEF Core, TotalMatchesItems
  <2>4. /\ view[r].total <= total[b]
        /\ view[r].status # "OPEN" => total[b] = view[r].total
      BY <2>1 DEF ViewTracksBill
  <2> QED
      BY <2>1, <2>3, <2>4
<1>4. \/ view'[r] = view[r]
      \/ ReadItems(r)
      \/ \E b \in Bills : ReadBill(r, b)
  <2>1. ASSUME NEW s \in Readers \ {r}, ReadItems(s) \/ \E b \in Bills : ReadBill(s, b)
        PROVE  view'[r] = view[r]
      BY <2>1 DEF ReadItems, ReadBill, Core, TypeOK
  <2> QED
      BY <2>1 DEF Next, Step, vars, CreateBill, CloseBill, CancelBill, LeaveOpen, Begin,
           LockBill, InsertLineItem, LoadExisting, IncrementBillTotal, Commit, Rollback
<1> QED
    BY <1>1, <1>2, <1>3, <1>4

(***************************************************************************)
(* The theorems.                                                           *)
(***************************************************************************)

\* The variables have their types.
THEOREM TypeCorrect == Spec => []TypeOK
BY CoreInvariant, PTL DEF Core

\* The stored total is the sum of the stored items, for any number of
\* concurrent, failing and replaying PersistLineItem transactions.
THEOREM TotalAlwaysMatches == Spec => []TotalMatchesItems
BY CoreInvariant, PTL DEF Core

\* A transaction that checked the status of its bill holds the bill's row lock
\* and the bill stays OPEN until the transaction ends.
THEOREM StatusCheckHolds == Spec => []CheckedStatusHolds
BY CoreInvariant, PTL DEF Core

\* What a transaction read is current until it commits.
THEOREM SnapshotStaysCurrent == Spec => []SnapshotIsCurrent
BY CoreInvariant, PTL DEF Core

\* An acknowledged item is stored under its key with the acknowledged payload.
THEOREM AcknowledgedStaysStored == Spec => []AcknowledgedIsDurable
<1>1. Init => AcknowledgedIsDurable
    BY DEF Init, AcknowledgedIsDurable, Acknowledged
<1> QED
    BY <1>1, AcknowledgedNext, CoreInvariant, PTL DEF Spec

\* The totals in the answers are those of one serial order of the inserts.
THEOREM RepliesSerializable == Spec => []RepliesAreSerial
<1>1. Init => RepliesAreSerial
    BY DEF Init, RepliesAreSerial, Inserters
<1> QED
    BY <1>1, RepliesNext, AcknowledgedStaysStored, CoreInvariant, PTL DEF Spec

\* What two unsynchronised reads return adds up once the bill has left OPEN,
\* and never shows more total than items.
THEOREM ViewsConsistent == Spec => []ViewIsConsistent
<1>1. Init => ViewTracksBill /\ ViewIsConsistent
    BY DEF Init, ViewTracksBill, ViewIsConsistent
<1> QED
    BY <1>1, ViewNext, CoreInvariant, PTL DEF Spec

\* Nothing about a CLOSED or CANCELLED bill changes any more.
THEOREM BillsFreeze == Spec => FrozenOnceLeftOpen
<1>1. Core /\ [Next]_vars =>
        [\A b \in Bills : status[b] \in {"CLOSED", "CANCELLED"} =>
              UNCHANGED <<status[b], total[b], items[b]>>]_vars
    BY TablesGrow
<1> QED
    BY <1>1, CoreInvariant, PTL DEF Spec, FrozenOnceLeftOpen

\* The transactions, taken one SQL statement at a time, implement the ledger
\* in which a charge is a single step.
THEOREM StoreImplementsLedger == Spec => ImplementsLedger
<1>1. Init => Ledger!Init
    BY DEF Init, NoRows, Ledger!Init, Ledger!NoRows
<1>2. Core /\ [Next]_vars => [Ledger!Next]_(Ledger!vars)
  <2> SUFFICES ASSUME Core, [Next]_vars PROVE [Ledger!Next]_(Ledger!vars)
      OBVIOUS
  <2>1. CASE UNCHANGED tables
      BY <2>1 DEF tables, Ledger!vars
  <2>2. ASSUME NEW b \in Bills, CreateBill(b) \/ CloseBill(b) \/ CancelBill(b)
        PROVE  Ledger!Next
      BY <2>2 DEF CreateBill, CloseBill, CancelBill, LeaveOpen, Ledger!Next,
                  Ledger!Create, Ledger!Close, Ledger!Cancel
  <2>3. ASSUME NEW t \in Tx, Commit(t), tx[t].inserted
        PROVE  Ledger!Next
    <3> DEFINE b == tx[t].req.bill
               k == tx[t].req.key
               p == tx[t].req.payload
    <3>1. /\ b \in Bills /\ k \in Keys /\ p \in Payloads
          /\ status[b] = "OPEN" /\ items[b][k] = None
          /\ total'[b] = total[b] + p.amount_minor /\ total'[b] <= MaxTotal
        BY <2>3, CommitCharges
    <3>2. /\ items' = [items EXCEPT ![b][k] = p]
          /\ total' = [total EXCEPT ![b] = tx[t].total]
          /\ UNCHANGED status
        BY <2>3 DEF Commit
    <3>3. total' = [total EXCEPT ![b] = @ + p.amount_minor]
        BY <3>1, <3>2 DEF Core, TypeOK
    <3>4. Ledger!Charge(b, k, p)
        BY <3>1, <3>2, <3>3 DEF Ledger!Charge
    <3> QED
        BY <3>1, <3>4 DEF Ledger!Next
  <2> QED
      BY <2>1, <2>2, <2>3, TableSteps
<1> QED
    BY <1>1, <1>2, CoreInvariant, PTL DEF Spec, ImplementsLedger, Ledger!Spec

(***************************************************************************)
(* The transactions are atomic, answers included: the step that ends one   *)
(* is the step of the call.                                                *)
(***************************************************************************)

CallMap == [t \in Tx |-> CallOf(t)]

\* A step inside a transaction is none of its call.
LEMMA InnerStepIsNoCall ==
    ASSUME NEW t \in Tx, tx[t].pc # "idle", tx'[t].pc # "idle",
           tx'[t].req = tx[t].req, tx'[t].reply = tx[t].reply,
           \A u \in Tx \ {t} : tx'[u] = tx[u]
    PROVE  CallMap' = CallMap
<1>1. CallOf(t)' = CallOf(t)
    BY DEF CallOf
<1>2. \A u \in Tx \ {t} : CallOf(u)' = CallOf(u)
    BY DEF CallOf
<1> QED
    BY <1>1, <1>2 DEF CallMap

\* The end of a transaction answers its call, and carries a total if it acknowledges.
LEMMA ReturnIsAnswer ==
    ASSUME Core, NEW t \in Tx, NEW reply \in Reply, Return(t, reply), NEW sum,
           sum = IF reply \in Acknowledged THEN tx[t].total ELSE 0
    PROVE  Calls!Answer(t, reply, sum)
<1>1. /\ tx'[t].pc = "idle" /\ tx'[t].req = tx[t].req /\ tx'[t].reply = reply
      /\ tx'[t].total = sum
      /\ \A u \in Tx \ {t} : tx'[u] = tx[u]
  <2>1. tx \in [Tx -> Session] /\ TypeOK
      BY DEF Core, TypeOK
  <2>2. tx'[t].total = IF reply \in Acknowledged THEN tx[t].total ELSE 0
      BY <2>1 DEF Return, Session
  <2> QED
      BY <2>1, <2>2, ReturnEffect
<1>2. CallOf(t)' = [phase |-> "idle", req |-> tx[t].req, reply |-> reply, total |-> sum]
    BY <1>1 DEF CallOf
<1>3. \A u \in Tx \ {t} : CallOf(u)' = CallOf(u)
    BY <1>1 DEF CallOf
<1>4. CallMap' = [CallMap EXCEPT ![t] = [phase |-> "idle", req |-> CallMap[t].req,
                                         reply |-> reply, total |-> sum]]
    BY <1>2, <1>3 DEF CallMap, CallOf
<1> QED
    BY <1>4 DEF CallMap, Calls!Answer

\* A running transaction is a call that is asked.
LEMMA RunningIsAsked ==
    ASSUME NEW t \in Tx
    PROVE  /\ CallMap[t].req = tx[t].req
           /\ CallMap[t].phase = IF tx[t].pc = "idle" THEN "idle" ELSE "asked"
BY DEF CallMap, CallOf

\* Failing is possible at any moment.
LEMMA FailureIsAtomic ==
    ASSUME Core, NEW t \in Tx, tx[t].pc # "idle", Return(t, "retry"), UNCHANGED tables
    PROVE  Calls!Fail(t)
<1>1. Calls!Answer(t, "retry", 0)
    BY ReturnIsAnswer, ReplyValues DEF Acknowledged
<1> QED
    BY <1>1, RunningIsAsked DEF Calls!Fail, CallMap, Calls!tables, tables

\* Refusals by the status check.
LEMMA LockBillIsAtomic ==
    ASSUME Core, NEW t \in Tx, LockBill(t)
    PROVE  Calls!Refuse(t) \/ UNCHANGED <<tables, CallMap>>
<1> DEFINE b == tx[t].req.bill
<1>1. tx[t].pc = "begun" /\ UNCHANGED tables /\ b \in Bills
    BY RequestType DEF LockBill, Core
<1>2. CallMap[t].req = tx[t].req /\ CallMap[t].phase = "asked"
    BY <1>1, RunningIsAsked
<1>3. CASE \/ status[b] = "NONE" /\ Return(t, "NOT_FOUND")
           \/ status[b] \notin {"NONE", "OPEN"} /\ Return(t, "FAILED_PRECONDITION")
  <2>1. status[b] \in BillStatus
      BY <1>1 DEF Core, TypeOK
  <2>2. \/ status[b] = "NONE" /\ Calls!Answer(t, "NOT_FOUND", 0)
        \/ status[b] \in {"CLOSED", "CANCELLED"} /\ Calls!Answer(t, "FAILED_PRECONDITION", 0)
      BY <1>3, <2>1, ReturnIsAnswer, ReplyValues DEF Acknowledged, BillStatus
  <2> QED
      BY <1>1, <1>2, <2>2 DEF Calls!Refuse, CallMap, Calls!tables, tables
<1>4. CASE tx' = [tx EXCEPT ![t].pc = "locked", ![t].total = total[b]]
  <2>1. /\ tx'[t].pc # "idle" /\ tx'[t].req = tx[t].req /\ tx'[t].reply = tx[t].reply
        /\ \A u \in Tx \ {t} : tx'[u] = tx[u]
      BY <1>4 DEF Core, TypeOK, Session
  <2> QED
      BY <1>1, <2>1, InnerStepIsNoCall
<1> QED
    BY <1>3, <1>4 DEF LockBill

\* A replay goes on; another payload under the key is refused, on a bill that is
\* OPEN because its row lock is held.
LEMMA LoadExistingIsAtomic ==
    ASSUME Core, NEW t \in Tx, LoadExisting(t)
    PROVE  Calls!Refuse(t) \/ UNCHANGED <<tables, CallMap>>
<1> DEFINE q == tx[t].req
<1>1. tx[t].pc = "conflict" /\ UNCHANGED tables
    BY DEF LoadExisting
<1>2. CallMap[t].req = tx[t].req /\ CallMap[t].phase = "asked"
    BY <1>1, RunningIsAsked
<1>3. CASE ~HashesAgree(items[q.bill][q.key], q.payload) /\ Return(t, "ALREADY_EXISTS")
  <2>1. status[q.bill] = "OPEN"
      BY <1>1, RunnerHoldsLock DEF LockedSteps
  <2>2. items[q.bill][q.key] \notin {None, q.payload}
      BY <1>1, <1>3 DEF Core, SnapshotIsCurrent, CurrentSnapshot, HashesAgree
  <2>3. Calls!Answer(t, "ALREADY_EXISTS", 0)
      BY <1>3, ReturnIsAnswer, ReplyValues DEF Acknowledged
  <2> QED
      BY <1>1, <1>2, <2>1, <2>2, <2>3
         DEF Calls!Refuse, Calls!Row, CallMap, Calls!tables, tables
<1>4. CASE tx' = [tx EXCEPT ![t].pc = "ready"]
  <2>1. /\ tx'[t].pc # "idle" /\ tx'[t].req = tx[t].req /\ tx'[t].reply = tx[t].reply
        /\ \A u \in Tx \ {t} : tx'[u] = tx[u]
      BY <1>4 DEF Core, TypeOK, Session
  <2> QED
      BY <1>1, <2>1, InnerStepIsNoCall
<1> QED
    BY <1>3, <1>4 DEF LoadExisting

\* The other statements are none of the call, or fail.
LEMMA WriteIsAtomic ==
    ASSUME Core, NEW t \in Tx, InsertLineItem(t) \/ IncrementBillTotal(t)
    PROVE  Calls!Fail(t) \/ UNCHANGED <<tables, CallMap>>
<1>1. tx[t].pc # "idle" /\ UNCHANGED tables
    BY DEF InsertLineItem, IncrementBillTotal
<1>2. CASE Return(t, "retry")
    BY <1>1, <1>2, FailureIsAtomic
<1>3. CASE \/ tx' = [tx EXCEPT ![t].pc = "inserted", ![t].inserted = TRUE]
           \/ tx' = [tx EXCEPT ![t].pc = "conflict"]
           \/ tx' = [tx EXCEPT ![t].pc = "ready",
                        ![t].total = total[tx[t].req.bill] + tx[t].req.payload.amount_minor]
  <2>1. /\ tx'[t].pc # "idle" /\ tx'[t].req = tx[t].req /\ tx'[t].reply = tx[t].reply
        /\ \A u \in Tx \ {t} : tx'[u] = tx[u]
      BY <1>3 DEF Core, TypeOK, Session
  <2> QED
      BY <1>1, <2>1, InnerStepIsNoCall
<1> QED
    BY <1>2, <1>3 DEF InsertLineItem, IncrementBillTotal

\* COMMIT is the moment of a charge and of a replay.
LEMMA CommitIsAtomic ==
    ASSUME Core, NEW t \in Tx, Commit(t)
    PROVE  Calls!Charge(t) \/ Calls!Replay(t) \/ Calls!Fail(t)
<1> DEFINE q == tx[t].req
<1>1. tx[t].pc = "ready" /\ UNCHANGED status
    BY DEF Commit
<1>2. CallMap[t].req = tx[t].req /\ CallMap[t].phase = "asked"
    BY <1>1, RunningIsAsked
<1>3. status[q.bill] = "OPEN" /\ q.bill \in Bills /\ tx[t].total \in Nat
    BY <1>1, RunnerHoldsLock, RequestType DEF LockedSteps, Core
<1>4. CASE tx[t].inserted
  <2>1. /\ items[q.bill][q.key] = None
        /\ tx[t].total = total[q.bill] + q.payload.amount_minor /\ tx[t].total <= MaxTotal
      BY <1>1, <1>4 DEF Core, SnapshotIsCurrent, CurrentSnapshot
  <2>2. /\ items' = [items EXCEPT ![q.bill][q.key] = q.payload]
        /\ total' = [total EXCEPT ![q.bill] = tx[t].total]
      BY <1>4 DEF Commit
  <2>3. Calls!Answer(t, "inserted", tx[t].total) \/ Calls!Answer(t, "retry", 0)
      BY <1>4, ReturnIsAnswer, ReplyValues DEF Commit, Acknowledged
  <2> QED
      BY <1>1, <1>2, <1>3, <2>1, <2>2, <2>3 DEF Calls!Charge, Calls!Row, CallMap
<1>5. CASE ~tx[t].inserted
  <2>1. items[q.bill][q.key] = q.payload /\ tx[t].total = total[q.bill]
      BY <1>1, <1>5 DEF Core, SnapshotIsCurrent, CurrentSnapshot
  <2>2. UNCHANGED tables
      BY <1>1, <1>5 DEF Commit, tables
  <2>3. CASE Return(t, "retry")
      BY <1>1, <2>2, <2>3, FailureIsAtomic
  <2>4. CASE Return(t, "existing")
    <3>1. Calls!Answer(t, "existing", total[q.bill])
        BY <2>1, <2>4, ReturnIsAnswer, ReplyValues DEF Acknowledged
    <3> QED
        BY <1>2, <1>3, <2>1, <2>2, <3>1
           DEF Calls!Replay, Calls!Row, CallMap, Calls!tables, tables
  <2> QED
      BY <1>5, <2>3, <2>4 DEF Commit
<1> QED
    BY <1>4, <1>5

\* A transaction begins where its call is asked.
LEMMA BeginIsAsk ==
    ASSUME Core, NEW t \in Tx, NEW q \in Request, Begin(t, q)
    PROVE  Calls!Ask(t, q)
<1>1. tx[t].pc = "idle" /\ UNCHANGED tables
    BY DEF Begin
<1>2. /\ tx'[t] = [pc |-> "begun", req |-> q, inserted |-> FALSE, total |-> 0, reply |-> "none"]
      /\ \A u \in Tx \ {t} : tx'[u] = tx[u]
    BY DEF Begin, Core, TypeOK
<1>3. /\ CallOf(t)' = [phase |-> "asked", req |-> q, reply |-> "none", total |-> 0]
      /\ \A u \in Tx \ {t} : CallOf(u)' = CallOf(u)
    BY <1>2 DEF CallOf
<1>4. CallMap' = [CallMap EXCEPT ![t] = [phase |-> "asked", req |-> q,
                                         reply |-> "none", total |-> 0]]
    BY <1>3 DEF CallMap
<1> QED
    BY <1>1, <1>4, RunningIsAsked DEF Calls!Ask, CallMap, Calls!tables, tables

\* Whatever transactions, closes and cancellations overlap on a bill, PersistLineItem
\* takes effect and is answered in one step.
THEOREM StoreIsAtomic == Spec => PersistIsAtomic
<1>1. Init => Calls!Init
  <2>1. Init => \A t \in Tx : CallOf(t) = [phase |-> "idle", req |-> None,
                                           reply |-> "none", total |-> 0]
      BY DEF Init, CallOf
  <2> QED
      BY <2>1 DEF Init, NoRows, Calls!Init, Calls!NoRows
<1>2. Core /\ [Next]_vars => [Calls!Next]_(Calls!vars)
  <2> SUFFICES ASSUME Core, [Next]_vars PROVE [Calls!Next]_(Calls!vars)
      OBVIOUS
  <2>1. CASE UNCHANGED <<tables, CallMap>>
      BY <2>1 DEF tables, CallMap, Calls!vars
  <2>2. UNCHANGED tx => UNCHANGED CallMap
      BY DEF CallMap, CallOf
  <2>3. CASE UNCHANGED vars
      BY <2>1, <2>2, <2>3 DEF vars, tables
  <2>4. ASSUME NEW b \in Bills, CreateBill(b) \/ CloseBill(b) \/ CancelBill(b)
        PROVE  Calls!Next
      BY <2>2, <2>4 DEF CreateBill, CloseBill, CancelBill, LeaveOpen, CallMap,
                        Calls!Next, Calls!Create, Calls!Leave
  <2>5. ASSUME NEW t \in Tx, Step(t)
        PROVE  [Calls!Next]_(Calls!vars)
    <3>1. \/ Calls!Charge(t) \/ Calls!Replay(t) \/ Calls!Refuse(t) \/ Calls!Fail(t)
          \/ UNCHANGED <<tables, CallMap>>
        BY <2>5, LockBillIsAtomic, WriteIsAtomic, LoadExistingIsAtomic, CommitIsAtomic DEF Step
    <3> QED
        BY <2>1, <3>1 DEF Calls!Next
  <2>6. ASSUME NEW t \in Tx, Rollback(t)
        PROVE  Calls!Next
    <3>1. Calls!Fail(t)
        BY <2>6, FailureIsAtomic DEF Rollback
    <3> QED
        BY <3>1 DEF Calls!Next
  <2>7. ASSUME NEW t \in Tx, NEW q \in Request, Begin(t, q)
        PROVE  Calls!Next
    <3>1. Calls!Ask(t, q) /\ q \in Calls!Request
        BY <2>7, BeginIsAsk DEF Request, Calls!Request
    <3> QED
        BY <3>1 DEF Calls!Next
  <2>8. CASE \E r \in Readers : ReadItems(r) \/ \E b \in Bills : ReadBill(r, b)
      BY <2>1, <2>2, <2>8 DEF ReadItems, ReadBill
  <2> QED
      BY <2>3, <2>4, <2>5, <2>6, <2>7, <2>8 DEF Next
<1> QED
    BY <1>1, <1>2, CoreInvariant, PTL DEF Spec, PersistIsAtomic, Calls!Spec

=============================================================================
