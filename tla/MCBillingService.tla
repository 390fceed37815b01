-------------------------- MODULE MCBillingService --------------------------
(***************************************************************************)
(* TLC instances of BillingService.                                        *)
(***************************************************************************)
EXTENDS BillingService, MCBillData, TLC

\* Line items and statuses with white space around, and requests that are rejected.
MCLineItemRequests ==
    LET good == [idempotency_key |-> <<"key">>, description |-> <<"fee">>, amount_minor |-> 1]
    IN  {good,
         [good EXCEPT !.idempotency_key = <<" ", "key">>, !.description = <<"fee", " ">>],
         [good EXCEPT !.idempotency_key = <<" ">>],
         [good EXCEPT !.idempotency_key = <<"key", "key", "key">>],
         [good EXCEPT !.description = <<" ", " ">>],
         [good EXCEPT !.amount_minor = 0]}

MCCloseTexts == {<<"CLOSED">>, <<" ", "closed">>, <<"OPEN">>, <<>>}

MCKeys == {<<"key">>}

\* The calls of UpdateBill and the fallback runs are interchangeable.
MCSymmetry == Permutations(Closers) \cup Permutations(Fallbacks)

=============================================================================
