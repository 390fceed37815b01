------------------------------ MODULE BillData ------------------------------
(***************************************************************************)
(* The data the billing tables hold: bill statuses, line-item rows, the    *)
(* money they add up to, and the hash that tells payloads apart.           *)
(*                                                                         *)
(* A line_items row is identified by (bill_id, idempotency_key), which the *)
(* schema makes unique, so the rows of one bill are a function from keys   *)
(* to payloads, description and amount together.  A text is a sequence of  *)
(* tokens: words, single digits, and the separator of the hash.            *)
(***************************************************************************)
EXTENDS Naturals, FiniteSets, Sequences

CONSTANTS
    Keys,      \* idempotency keys callers may send
    Payloads,  \* line-item payloads
    None,      \* SQL NULL, Go nil: no row, no lock holder, no request
    MaxTotal,  \* the largest BIGINT, the type of amount_minor and total_minor
    Decimal    \* the digits that fmt writes for an amount

ASSUME KeysAssumption == IsFiniteSet(Keys)

ASSUME MaxTotalAssumption == MaxTotal \in Nat

\* amount_minor is a BIGINT with CHECK (amount_minor > 0), and the API rejects
\* anything else before it reaches the workflow.  A description is any text.
ASSUME PayloadsAssumption ==
    Payloads \subseteq [description: Seq(STRING), amount_minor: 1..MaxTotal]

\* What fmt's %d does: digits only, and no two amounts alike.
ASSUME DecimalAssumption ==
    /\ \A m \in 1..MaxTotal :
          /\ Decimal[m] \in Seq(STRING)
          /\ \A i \in DOMAIN Decimal[m] : Decimal[m][i] # "|"
    /\ \A m, n \in 1..MaxTotal : Decimal[m] = Decimal[n] => m = n

ASSUME NoneAssumption == None \notin Payloads

\* Status of a bill; "NONE" is a bill that has not been inserted yet.
BillStatus == {"NONE", "OPEN", "CLOSED", "CANCELLED"}

\* The line items of one bill.
Rows == [Keys -> Payloads \cup {None}]

NoRows == [k \in Keys |-> None]

\* Mutant: description and amount are joined without a separator.
HashUnseparated(p) == p.description \o Decimal[p.amount_minor]

\* The text that is hashed, fmt.Sprintf("%s|%d", description, amountMinor).  It
\* stands for its SHA-256, of which no two texts are known to have the same.
computeLineItemPayloadHash(p) ==
    p.description \o <<"|">> \o Decimal[p.amount_minor]

\* The hash of a request is the one stored with the row.
HashesAgree(p, q) == computeLineItemPayloadHash(p) = computeLineItemPayloadHash(q)

\* Every minor unit (cent, tetri) that the given rows charge, named by the row
\* it belongs to: the row with key k and amount a charges <<k, 1>> ... <<k, a>>.
ChargedUnits(rows) ==
    {u \in Keys \X (1..MaxTotal) :
        rows[u[1]] # None /\ u[2] <= rows[u[1]].amount_minor}

\* The sum of amount_minor over the rows.
ItemsTotal(rows) == Cardinality(ChargedUnits(rows))

=============================================================================
