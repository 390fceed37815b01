---------------------------- MODULE BillRequests ----------------------------
(***************************************************************************)
(* What the API makes of the requests it gets: which it accepts, and what  *)
(* it hands on.                                                            *)
(*                                                                         *)
(* A text is a sequence of tokens: words, digits, separators and Blank,    *)
(* which stands for any white space.  A request it rejects is answered     *)
(* with invalid_argument before anything else happens.  A period is given  *)
(* by its length, period_end minus the time of the call; the difference of *)
(* two Go times saturates far above MaxPeriod.                             *)
(***************************************************************************)
EXTENDS Integers, Sequences, FiniteSetsExt

CONSTANTS
    MaxLength,  \* of an account id or an idempotency key, 200 bytes in the code
    MaxPeriod   \* 365 days

Text == Seq(STRING)
Blank == " "

\* Capital letters of the words that occur in both cases.
Upper(word) ==
    CASE word = "open" -> "OPEN"
      [] word = "closed" -> "CLOSED"
      [] word = "cancelled" -> "CANCELLED"
      [] OTHER -> word

ToUpper(text) == [i \in DOMAIN text |-> Upper(text[i])]

TrimSpace(text) ==
    LET solid == {i \in DOMAIN text : text[i] # Blank}
    IN  IF solid = {} THEN <<>> ELSE SubSeq(text, Min(solid), Max(solid))

-----------------------------------------------------------------------------

\* Mutant: white space is trimmed after the check only.
AcceptsBillUntrimmed(req) ==
    /\ req.account_id # <<>> /\ Len(req.account_id) <= MaxLength
    /\ req.currency \in {"USD", "GEL"}
    /\ 0 < req.period /\ req.period <= MaxPeriod

\* parseCreateBillRequest: the request is accepted, and what it becomes.
AcceptsBill(req) ==
    LET account == TrimSpace(req.account_id)
    IN  /\ account # <<>> /\ Len(account) <= MaxLength
        /\ req.currency \in {"USD", "GEL"}
        /\ 0 < req.period /\ req.period <= MaxPeriod

parseCreateBillRequest(req) == [req EXCEPT !.account_id = TrimSpace(@)]

\* parseAddLineItemRequest: the request is accepted, and what it becomes.  A
\* description may have any length.
AcceptsLineItem(req) ==
    LET key == TrimSpace(req.idempotency_key)
    IN  /\ TrimSpace(req.description) # <<>>
        /\ req.amount_minor > 0
        /\ key # <<>> /\ Len(key) <= MaxLength

parseAddLineItemRequest(req) ==
    [key |-> TrimSpace(req.idempotency_key),
     payload |-> [description |-> TrimSpace(req.description),
                  amount_minor |-> req.amount_minor]]

\* UpdateBill accepts the status CLOSED only.
AcceptsStatus(text) == ToUpper(TrimSpace(text)) = <<"CLOSED">>

\* parseBillStatusFilter, given a text: the statuses it lets through.  None is the
\* answer to a text that is no status.
parseBillStatusFilter(text) ==
    {s \in {"OPEN", "CLOSED", "CANCELLED"} : <<s>> = ToUpper(TrimSpace(text))}

=============================================================================
