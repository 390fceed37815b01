----------------------------- MODULE MCBillPages ----------------------------
(***************************************************************************)
(* TLC instance of BillPages.                                              *)
(***************************************************************************)
EXTENDS BillPages, TLC

\* Requests for two accounts, one of them with white space around, and requests
\* that are rejected.
MCCreateRequests ==
    LET good == [account_id |-> <<"acme">>, currency |-> "USD", period |-> 1]
    IN  {good,
         [good EXCEPT !.account_id = <<" ", "zeta", " ">>],
         [good EXCEPT !.account_id = <<" ">>],
         [good EXCEPT !.account_id = <<"acme", "zeta", "zeta">>],
         [good EXCEPT !.currency = "EUR"],
         [good EXCEPT !.period = 0],
         [good EXCEPT !.period = MaxPeriod + 1]}

\* Requests without filters, with a limit beyond the largest, with each filter, and
\* one for a status that does not exist.
MCListRequests ==
    LET all == [status |-> <<>>, account_id |-> <<" ">>, limit |-> 0, offset |-> -1]
    IN  {all,
         [all EXCEPT !.limit = 3],
         [all EXCEPT !.account_id = <<"zeta">>],
         [all EXCEPT !.status = <<" ", "closed">>],
         [all EXCEPT !.status = <<"paid">>],
         [all EXCEPT !.status = <<"OPEN">>, !.limit = 3]}

MCSymmetry == Permutations(Bills)

=============================================================================
