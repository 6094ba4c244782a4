------------------------------ MODULE MCNeonTx ------------------------------
(***************************************************************************)
(* NeonTx for TLC.  MCNeonTx.cfg lets the work callback issue up to three  *)
(* statements, so that a statement can fail first, in the middle or last,  *)
(* before or after others succeeded.                                       *)
(***************************************************************************)
EXTENDS NeonTx
=============================================================================
