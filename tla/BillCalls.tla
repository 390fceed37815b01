------------------------------ MODULE BillCalls -----------------------------
(***************************************************************************)
(* What PersistLineItem promises the attempts that call it.  A call is     *)
(* asked, and answered in one step, whatever statements, locks and other   *)
(* calls there are between: the answer is true of the tables at that step, *)
(* and a new item is charged in it.  A call may fail for any reason, with  *)
(* or without its charge; then its caller knows nothing.                   *)
(***************************************************************************)
EXTENDS BillData

CONSTANTS
    Bills,   \* bill ids
    Callers  \* attempts of the PersistLineItem activity

VARIABLES
    status,  \* bills.status
    total,   \* bills.total_minor
    items,   \* line_items, by bill and idempotency key
    call     \* for each caller its call, and the last answer

tables == <<status, total, items>>
vars == <<status, total, items, call>>

Request == [bill: Bills, key: Keys, payload: Payloads]

Init ==
    /\ status = [b \in Bills |-> "NONE"]
    /\ total = [b \in Bills |-> 0]
    /\ items = [b \in Bills |-> NoRows]
    /\ call = [c \in Callers |-> [phase |-> "idle", req |-> None,
                                  reply |-> "none", total |-> 0]]

-----------------------------------------------------------------------------

Create(b) ==
    /\ status[b] = "NONE"
    /\ status' = [status EXCEPT ![b] = "OPEN"]
    /\ UNCHANGED <<total, items, call>>

\* The bill is closed or cancelled.
Leave(b, s) ==
    /\ status[b] = "OPEN"
    /\ status' = [status EXCEPT ![b] = s]
    /\ UNCHANGED <<total, items, call>>

-----------------------------------------------------------------------------

Ask(c, q) ==
    /\ call[c].phase = "idle"
    /\ call' = [call EXCEPT ![c] = [phase |-> "asked", req |-> q,
                                    reply |-> "none", total |-> 0]]
    /\ UNCHANGED tables

Answer(c, reply, sum) ==
    call' = [call EXCEPT ![c] = [phase |-> "idle", req |-> call[c].req,
                                 reply |-> reply, total |-> sum]]

\* The row that has the key of the request.
Row(c) == items[call[c].req.bill][call[c].req.key]

\* The key is free: the item is charged, and the answer has the new total, or is lost.
Charge(c) ==
    LET q == call[c].req
        sum == total[q.bill] + q.payload.amount_minor
    IN
    /\ call[c].phase = "asked"
    /\ status[q.bill] = "OPEN" /\ Row(c) = None /\ sum <= MaxTotal
    /\ items' = [items EXCEPT ![q.bill][q.key] = q.payload]
    /\ total' = [total EXCEPT ![q.bill] = sum]
    /\ Answer(c, "inserted", sum) \/ Answer(c, "retry", 0)
    /\ UNCHANGED status

\* The item is there already: the answer has the total as it is.
Replay(c) ==
    LET q == call[c].req IN
    /\ call[c].phase = "asked"
    /\ status[q.bill] = "OPEN" /\ Row(c) = q.payload
    /\ Answer(c, "existing", total[q.bill])
    /\ UNCHANGED tables

\* The bill is not there, or not OPEN; or the key has another payload.
Refuse(c) ==
    LET q == call[c].req IN
    /\ call[c].phase = "asked"
    /\ \/ status[q.bill] = "NONE" /\ Answer(c, "NOT_FOUND", 0)
       \/ status[q.bill] \in {"CLOSED", "CANCELLED"} /\ Answer(c, "FAILED_PRECONDITION", 0)
       \/ /\ status[q.bill] = "OPEN" /\ Row(c) \notin {None, q.payload}
          /\ Answer(c, "ALREADY_EXISTS", 0)
    /\ UNCHANGED tables

Fail(c) == call[c].phase = "asked" /\ Answer(c, "retry", 0) /\ UNCHANGED tables

-----------------------------------------------------------------------------

Next ==
    \/ \E b \in Bills : Create(b) \/ Leave(b, "CLOSED") \/ Leave(b, "CANCELLED")
    \/ \E c \in Callers :
          \/ \E q \in Request : Ask(c, q)
          \/ Charge(c) \/ Replay(c) \/ Refuse(c) \/ Fail(c)

Spec == Init /\ [][Next]_vars

=============================================================================
