---------------------------- MODULE MCOwnerList ----------------------------
(***************************************************************************)
(* OwnerList for TLC: two accounts of two pages each.                      *)
(***************************************************************************)
EXTENDS OwnerList, TLC

Symmetry == Permutations(Users)
=============================================================================
