----------------------------- MODULE BillLedger -----------------------------
(***************************************************************************)
(* What the database promises about bills, with every transaction, lock    *)
(* and retry hidden: each bill goes from NONE to OPEN to CLOSED or         *)
(* CANCELLED, an OPEN bill may be charged once per idempotency key, each   *)
(* charge adds its amount to the total, and nothing about a bill changes   *)
(* once it has left OPEN.                                                  *)
(***************************************************************************)
EXTENDS BillData

CONSTANT Bills

VARIABLES
    status,  \* bills.status
    total,   \* bills.total_minor
    items    \* line_items, by bill and idempotency key

vars == <<status, total, items>>

Init ==
    /\ status = [b \in Bills |-> "NONE"]
    /\ total = [b \in Bills |-> 0]
    /\ items = [b \in Bills |-> NoRows]

\* The bill is inserted, OPEN and empty.
Create(b) ==
    /\ status[b] = "NONE"
    /\ status' = [status EXCEPT ![b] = "OPEN"]
    /\ UNCHANGED <<total, items>>

\* A line item and its share of the total appear together.
Charge(b, k, p) ==
    /\ status[b] = "OPEN"
    /\ items[b][k] = None
    /\ items' = [items EXCEPT ![b][k] = p]
    /\ total[b] + p.amount_minor <= MaxTotal
    /\ total' = [total EXCEPT ![b] = @ + p.amount_minor]
    /\ UNCHANGED status

Close(b) ==
    /\ status[b] = "OPEN"
    /\ status' = [status EXCEPT ![b] = "CLOSED"]
    /\ UNCHANGED <<total, items>>

Cancel(b) ==
    /\ status[b] = "OPEN"
    /\ status' = [status EXCEPT ![b] = "CANCELLED"]
    /\ UNCHANGED <<total, items>>

Next ==
    \E b \in Bills :
        \/ Create(b)
        \/ \E k \in Keys, p \in Payloads : Charge(b, k, p)
        \/ Close(b)
        \/ Cancel(b)

Spec == Init /\ [][Next]_vars

=============================================================================
