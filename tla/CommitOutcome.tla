--------------------------- MODULE CommitOutcome ---------------------------
(***************************************************************************)
(* What a caller of a write may be told, given what became of the write in *)
(* the database.  A handler distinguishes three answers: the write is      *)
(* durable ("committed"), the write is not durable and never will be       *)
(* ("not_committed"), or the COMMIT was sent and its acknowledgement never *)
(* came ("unknown", HTTP 502 COMMIT_OUTCOME_UNKNOWN).                      *)
(***************************************************************************)

Fates   == {"undecided", "committed", "discarded"}
Reports == {"none", "committed", "not_committed", "unknown"}

\* The truthful answers for each fate.  "unknown" never lies; while the fate is
\* undecided "not_committed" is a promise that it will not become committed.
Truthful(fate) ==
  IF fate = "committed" THEN {"committed", "unknown"}
  ELSE {"not_committed", "unknown"}
=============================================================================
