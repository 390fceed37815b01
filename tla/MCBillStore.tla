----------------------------- MODULE MCBillStore ----------------------------
(***************************************************************************)
(* TLC instances of BillStore.                                             *)
(***************************************************************************)
EXTENDS BillStore, MCBillData, TLC, FiniteSetsExt

CONSTANTS k1, k2

\* The sessions and the keys are interchangeable.
MCSymmetry == Permutations(Tx) \cup Permutations(Keys)

\* ItemsTotal adds the amounts up.
ASSUME ItemsTotalIsSum ==
    \A rows \in Rows :
        ItemsTotal(rows) =
            MapThenSumSet(LAMBDA k : rows[k].amount_minor,
                          {k \in Keys : rows[k] # None})

=============================================================================
