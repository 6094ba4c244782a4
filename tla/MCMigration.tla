----------------------------- MODULE MCMigration -----------------------------
(***************************************************************************)
(* MigrationSystem for TLC: two runs of up to three deployments next to a  *)
(* bootstrap.  Ids are in order: 1 is the bootstrap migration.             *)
(***************************************************************************)
EXTENDS MigrationSystem, TLC

\* The second deployment has edited migration 2, the third has none.
Deploys == {<<"c", "c", "c">>, <<"c", "d", "none">>, <<"c", "none", "c">>}

MCInputs ==
  {[target |-> t, manifest |-> m, active |-> TRUE, approved |-> TRUE] :
     t \in {2, 3}, m \in Deploys}
  \cup {[target |-> 2, manifest |-> <<"c", "c", "c">>, active |-> a, approved |-> ~a] :
          a \in BOOLEAN}

Symmetry == Permutations(Runs) \cup Permutations(Boots) \cup Permutations(Sessions)
=============================================================================
