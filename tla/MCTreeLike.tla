----------------------------- MODULE MCTreeLike -----------------------------
(***************************************************************************)
(* TreeLike for TLC: three requests, which may be retries of one another,  *)
(* by actors, on trees and with keys that are all interchangeable.         *)
(***************************************************************************)
EXTENDS TreeLike, TLC

Symmetry == Permutations(Actors) \cup Permutations(Trees)
            \cup Permutations(Keys) \cup Permutations(Requests)
=============================================================================
