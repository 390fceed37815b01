------------------------------ MODULE MCBillData ----------------------------
(***************************************************************************)
(* Values for the constants of BillData in the TLC instances.              *)
(***************************************************************************)
EXTENDS BillData

\* Amounts of one and of two digits: "fee" for 11 and "fee1" for 1 read alike when
\* nothing separates description and amount.  With MaxTotal = 12 a bill can hold
\* both, and two of the larger one overflow BIGINT.
MCPayloads ==
    {[description |-> <<"fee">>, amount_minor |-> 11],
     [description |-> <<"fee", "1">>, amount_minor |-> 1]}

\* One payload, where only the order of events matters.
MCOnePayload == {[description |-> <<"fee">>, amount_minor |-> 1]}

\* Decimal digits of numbers below 100.
MCDecimal ==
    LET digits == <<"0", "1", "2", "3", "4", "5", "6", "7", "8", "9">>
    IN  [n \in 1..MaxTotal |->
            IF n < 10 THEN <<digits[n + 1]>>
            ELSE <<digits[(n \div 10) + 1], digits[(n % 10) + 1]>>]

=============================================================================
