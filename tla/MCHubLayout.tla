---------------------------- MODULE MCHubLayout ----------------------------
(***************************************************************************)
(* HubLayout for TLC: three saves of one tree, based on the revisions 0 to *)
(* 2, so that a chain of three layouts, two rivals for one revision with a *)
(* third save behind them, and a stale base all occur.  The saves are      *)
(* ordered by their base, as renaming them can always make them.           *)
(***************************************************************************)
EXTENDS HubLayout

CONSTANTS s1, s2, s3

MCInit == Init /\ base[s1] <= base[s2] /\ base[s2] <= base[s3]

MCSpec == MCInit /\ [][Next]_vars /\ Fairness
=============================================================================
