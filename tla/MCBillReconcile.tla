--------------------------- MODULE MCBillReconcile --------------------------
(***************************************************************************)
(* TLC instance of BillReconcile.                                          *)
(***************************************************************************)
EXTENDS BillReconcile

=============================================================================
