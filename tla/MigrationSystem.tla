--------------------------- MODULE MigrationSystem ---------------------------
(***************************************************************************)
(* Bootstraps and migration runs of several deployments on one database,   *)
(* with lost connections and crashes.                                      *)
(***************************************************************************)
EXTENDS MigrationRunner, CleanBootstrap

vars == <<databaseVars, runVars, bootVars>>

TypeOK == DatabaseTypeOK /\ RunnerTypeOK /\ BootTypeOK

Init == DatabaseInit /\ RunnerInit /\ BootInit

RunNext(r) == (RunStep(r) \/ Crash(r)) /\ UNCHANGED bootVars

BootNext(b) == (BootStep(b) \/ CrashBoot(b)) /\ UNCHANGED runVars

ConnectionNext ==
  /\ \/ \E c \in Clients : Disconnect(c)
     \/ \E s \in Sessions : Reap(s)
  /\ UNCHANGED <<runVars, bootVars>>

Ended ==
  /\ \A r \in Runs : stage[r] \in {"COMPLETED", "crashed"}
  /\ \A b \in Boots : step[b] \in {"done", "crashed"}
  /\ UNCHANGED vars

Next ==
  \/ \E r \in Runs : RunNext(r)
  \/ \E b \in Boots : BootNext(b)
  \/ ConnectionNext
  \/ Ended

Spec == Init /\ [][Next]_vars

-----------------------------------------------------------------------------
(* Properties.                                                             *)

\* The manifest of the client that appended a row.
ManifestOf(c) ==
  IF c \in Runs THEN Manifest(c)
  ELSE [i \in Ids |-> IF i = 1 THEN BootChecksum ELSE "none"]

\* Whatever deployments run, fail and die, each ledger row was appended as the next
\* one of its writer's manifest: the rows up to it are exactly that manifest's up
\* to it, content included (the lock covers the read of the ledger to the append).
LedgerIsPrefix ==
  \A i \in Recorded :
    /\ ledger[i].checksum = ManifestOf(ledger[i].by)[i]
    /\ \A j \in 1..i :
         /\ ManifestOf(ledger[i].by)[j] # "none" <=> ledger[j] # NoRow
         /\ ledger[j] # NoRow => ledger[j].checksum = ManifestOf(ledger[i].by)[j]

\* The ledger never lists a migration that no run has applied
\* (evaluateMigrationCompletion).
RecordedWasApplied ==
  \A i \in Recorded :
    IF ledger[i].by \in Runs
    THEN Target(ledger[i].by) = i /\ effect[ledger[i].by] = "committed"
    ELSE i = 1 /\ committed[ledger[i].by]

\* A migration that the ledger lists is never executed again, by a run that read the
\* ledger before included.
NoReapply ==
  [][\A r \in Runs : effect[r] = "none" /\ effect'[r] # "none" =>
       ledger[Target(r)] = NoRow]_vars

\* Neither is one whose precondition tells that it is in effect, when the run that
\* applied it died, or failed to record it.
AppliedOnce ==
  \A r, q \in Runs :
    /\ r # q /\ Target(r) = Target(q) /\ Target(r) \in Guarded
    /\ effect[r] = "committed"
    => effect[q] # "committed"

RecordedBy(c) == \E i \in Ids : ledger[i].by = c

\* What a run reports is what it did, and a run that changed the database without
\* recording it never reports that nothing needs to be done.
RunsTellTruth ==
  \A r \in Runs : At(r, "COMPLETED") =>
    LET did == report[r].outcome IN
      /\ did = "EXECUTED_AND_RECORDED" => effect[r] = "committed"
      /\ report[r].appended => RecordedBy(r)
      /\ did = "NOOP_ALREADY_APPLIED" =>
           effect[r] = "none" /\ ledger[Target(r)].checksum = Row(r).checksum
      /\ did = "BLOCKED_BEFORE_EXECUTION" => effect[r] = "none"
      /\ did = "LEDGER_APPEND_FAILED" => effect[r] = "committed"
      /\ did = "COMPLETION_BLOCKED" => ~RecordedBy(r)
      /\ effect[r] # "none" /\ ~RecordedBy(r) => report[r].recovery # "NO_RECOVERY_ACTION"

\* "Any pre-commit failure rolls back so no ledger relation, ledger row, or partial
\* object remains" (src/scripts/migration-clean-bootstrap-orchestrator-core.cjs:21):
\* a bootstrap that reports BLOCKED_BEFORE_COMMIT, ledgerAppended false, has left
\* no row of its own.
BlockedLeavesNothing ==
  \A b \in Boots :
    Does(b, "done") /\ verdict[b].outcome = "BLOCKED_BEFORE_COMMIT" => ~RecordedBy(b)
=============================================================================
