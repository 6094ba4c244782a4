---------------------------- MODULE WriteOutcome ----------------------------
(***************************************************************************)
(* The abstract contract of one write transaction: its fate is decided at  *)
(* most once, its caller is told one truthful answer at most once, and a   *)
(* caller told "not_committed" never sees the write become durable later.  *)
(***************************************************************************)
EXTENDS CommitOutcome

VARIABLES fate, report

vars == <<fate, report>>

Init == fate = "undecided" /\ report = "none"

\* The database makes the write durable; after "not_committed" it no longer may.
Commit ==
  /\ fate = "undecided" /\ report # "not_committed"
  /\ fate' = "committed"
  /\ UNCHANGED report

\* The database discards the write.
Discard ==
  /\ fate = "undecided"
  /\ fate' = "discarded"
  /\ UNCHANGED report

\* The caller is answered, once.
Answer ==
  /\ report = "none"
  /\ report' \in Truthful(fate)
  /\ UNCHANGED fate

Next == Commit \/ Discard \/ Answer

Spec == Init /\ [][Next]_vars
=============================================================================
