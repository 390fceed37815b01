-------------------------- MODULE MCBillingWorkflow -------------------------
(***************************************************************************)
(* TLC instances of BillingWorkflow.                                       *)
(***************************************************************************)
EXTENDS BillingWorkflow, MCBillData, TLC

\* Updates and fallback runs are interchangeable.
MCSymmetry == Permutations(Updates) \cup Permutations(Fallbacks)

=============================================================================
