--------------------------- MODULE MigrationRunner ---------------------------
(***************************************************************************)
(* runCanonicalMigration: each run applies one migration of the manifest   *)
(* it was deployed with and appends it to the ledger, one statement at a   *)
(* time, and reports what it did.  Any statement may throw and any run may *)
(* die.  The migration's own SQL (executeMigration) and its postcondition  *)
(* are injected: they are modelled by the outcomes they may report.        *)
(*                                                                         *)
(* Source: src/scripts/migration-runner-orchestrator-core.cjs and          *)
(* src/scripts/migration-runner-protocol-core.cjs.                         *)
(***************************************************************************)
EXTENDS MigrationDatabase

CONSTANTS
  Inputs,      \* what runs are asked to do
  Atomic,      \* ids with transaction_mode REQUIRED
  Destructive, \* ids that are destructive
  Guarded      \* ids whose precondition checks fail once they are applied

\* A manifest maps the ids it lists to their checksums.
Manifests == [Ids -> Checksums \cup {"none"}]

ASSUME MigrationRunnerAssumption ==
  /\ Inputs \subseteq [target : Ids, manifest : Manifests,
                       active : BOOLEAN, approved : BOOLEAN]
  /\ Atomic \cup Destructive \cup Guarded \subseteq Ids

VARIABLES
  input,    \* target and manifest; active: source PASS, manifest ACTIVE and action
            \* APPLY_FORWARD; approved: boundary approved and checks registered
  stage,    \* the step a run takes next
  seen,     \* the ledger it read
  effect,   \* what its executeMigration did to the database
  evidence, \* what executeMigration and evaluatePostcondition answered
  report    \* outcome, recoveryDecision and ledgerAppended

runVars == <<input, stage, seen, effect, evidence, report>>

Stages == {"SOURCE_VALIDATION", "LOCK_ACQUIRE", "LEDGER_READ", "PRECONDITION",
           "EXECUTION", "POSTCONDITION", "LOCK_RECHECK", "LEDGER_APPEND",
           "LOCK_RELEASE", "COMPLETED", "crashed"}

Outcomes == {"none", "EXECUTED_AND_RECORDED", "NOOP_ALREADY_APPLIED",
             "BLOCKED_BEFORE_EXECUTION", "COMPLETION_BLOCKED",
             "LEDGER_APPEND_FAILED", "LOCK_RELEASE_FAILED"}

Recoveries == {"NO_RECOVERY_ACTION", "RETRY_REQUIRES_FRESH_PREFLIGHT",
               "FORWARD_FIX_REQUIRED", "MANUAL_RECONCILIATION_REQUIRED",
               "SNAPSHOT_RESTORE_DECISION_REQUIRED"}

Evidence == [execution : {"none", "COMMITTED", "ROLLED_BACK", "PARTIAL", "UNKNOWN"},
             postcondition : {"none", "PASS", "FAIL", "UNAVAILABLE"}]

Reports == [outcome : Outcomes, recovery : Recoveries, appended : BOOLEAN]

RunnerTypeOK ==
  /\ input \in [Runs -> Inputs]
  /\ stage \in [Runs -> Stages]
  /\ seen \in [Runs -> [Ids -> Rows]]
  /\ effect \in [Runs -> {"none", "committed", "partial"}]
  /\ evidence \in [Runs -> Evidence]
  /\ report \in [Runs -> Reports]

RunnerInit ==
  /\ input \in [Runs -> Inputs]
  /\ stage = [r \in Runs |-> "SOURCE_VALIDATION"]
  /\ seen = [r \in Runs |-> [i \in Ids |-> NoRow]]
  /\ effect = [r \in Runs |-> "none"]
  /\ evidence = [r \in Runs |-> [execution |-> "none", postcondition |-> "none"]]
  /\ report = [r \in Runs |-> [outcome |-> "none", recovery |-> "NO_RECOVERY_ACTION",
                               appended |-> FALSE]]

-----------------------------------------------------------------------------
Target(r)   == input[r].target
Manifest(r) == input[r].manifest
Row(r)      == [checksum |-> Manifest(r)[Target(r)], by |-> r]

At(r, step) == stage[r] = step
Go(r, step) == stage' = [stage EXCEPT ![r] = step]

Report(r, outcome, recovery) ==
  report' = [report EXCEPT ![r] =
    [outcome |-> outcome, recovery |-> recovery, appended |-> @.appended]]

\* The pipeline returns early; the lock is released in `finally`.
Leave(r, outcome, recovery) ==
  /\ Report(r, outcome, recovery)
  /\ Go(r, "LOCK_RELEASE")

\* Some run has applied migration i.
Applied(i) == \E q \in Runs : Target(q) = i /\ effect[q] = "committed"

\* Mutant: the rows are looked up by id, and their positions are not compared.
IsPrefixByLookup(rows, manifest) ==
  \A i \in Ids : rows[i] # NoRow => rows[i].checksum = manifest[i]

\* The rows, in id order, are an exact prefix of the manifest: each is at the same
\* index in both and has the manifest's checksum.
IsPrefix(rows, manifest) ==
  \A i \in Ids : rows[i] # NoRow =>
    /\ rows[i].checksum = manifest[i]
    /\ \A j \in 1..(i - 1) : manifest[j] # "none" <=> rows[j] # NoRow

\* i is the first migration of the manifest that is not applied.
IsNext(i, rows, manifest) ==
  /\ manifest[i] # "none" /\ rows[i] = NoRow
  /\ \A j \in 1..(i - 1) : manifest[j] # "none" => rows[j] # NoRow

preflightRecovery(rows, manifest) ==
  IF \E i \in Ids : rows[i] # NoRow /\ manifest[i] \notin {"none", rows[i].checksum}
  THEN "FORWARD_FIX_REQUIRED"
  ELSE IF ~IsPrefix(rows, manifest) THEN "MANUAL_RECONCILIATION_REQUIRED"
  ELSE "RETRY_REQUIRES_FRESH_PREFLIGHT"

\* Mutant: a transactional migration that throws is taken to have rolled back.
executionRecoveryOptimistic(r) ==
  IF Target(r) \in Atomic THEN "NO_RECOVERY_ACTION" ELSE "MANUAL_RECONCILIATION_REQUIRED"

\* After a throw of executeMigration or of a later step.
executionRecovery(r) ==
  IF Target(r) \in Destructive THEN "SNAPSHOT_RESTORE_DECISION_REQUIRED"
  ELSE "MANUAL_RECONCILIATION_REQUIRED"

completionRecovery(r) ==
  IF evidence[r].execution \in {"PARTIAL", "UNKNOWN"} /\ Target(r) \in Atomic
  THEN executionRecovery(r)
  ELSE IF evidence[r].execution # "COMMITTED" /\ Target(r) \notin Atomic
  THEN "MANUAL_RECONCILIATION_REQUIRED"
  ELSE "RETRY_REQUIRES_FRESH_PREFLIGHT"

-----------------------------------------------------------------------------
BlockBeforeLock(r) ==
  /\ Report(r, "BLOCKED_BEFORE_EXECUTION", "NO_RECOVERY_ACTION")
  /\ Go(r, "COMPLETED")

\* Metadata, validateSource and loadManifest: local files.
ValidateSource(r) ==
  /\ At(r, "SOURCE_VALIDATION")
  /\ \/ Go(r, "LOCK_ACQUIRE") /\ UNCHANGED report
     \/ BlockBeforeLock(r)
  /\ UNCHANGED <<databaseVars, input, seen, effect, evidence>>

AcquireLock(r) ==
  /\ At(r, "LOCK_ACQUIRE")
  /\ \/ \E s \in Sessions : LockGranted(r, s) /\ Go(r, "LEDGER_READ") /\ UNCHANGED report
     \/ (LockRefused \/ LockLeaks) /\ BlockBeforeLock(r)
  /\ UNCHANGED <<tables, input, seen, effect, evidence>>

\* A missing table makes the statement throw.
ReadLedger(r) ==
  /\ At(r, "LEDGER_READ")
  /\ \/ /\ relation /\ Answered(r)
        /\ seen' = [seen EXCEPT ![r] = ledger]
        /\ Go(r, "PRECONDITION")
        /\ UNCHANGED report
     \/ /\ (~relation /\ Answered(r)) \/ Throws(r)
        /\ Leave(r, "BLOCKED_BEFORE_EXECUTION", "NO_RECOVERY_ACTION")
        /\ UNCHANGED seen
  /\ UNCHANGED <<tables, lockVars, input, effect, evidence>>

\* evaluateMigrationPreflight.
Preflight(r, precondition) ==
  LET rows == seen[r]
      man  == Manifest(r)
      open == input[r].active /\ IsPrefix(rows, man)
      FailClosed == Leave(r, "BLOCKED_BEFORE_EXECUTION", preflightRecovery(rows, man))
  IN IF open /\ rows[Target(r)] # NoRow
     THEN Leave(r, "NOOP_ALREADY_APPLIED", "NO_RECOVERY_ACTION")
     ELSE IF /\ open /\ IsNext(Target(r), rows, man)
             /\ input[r].approved /\ precondition = "PASS"
          THEN Go(r, "EXECUTION") /\ UNCHANGED report
          ELSE FailClosed

\* Mutant: the checks' answers are taken for passes.
EvaluatePreconditionLax(r) ==
  /\ At(r, "PRECONDITION")
  /\ \/ Answered(r) /\ Preflight(r, "PASS")
     \/ Throws(r) /\ Preflight(r, "UNAVAILABLE")
  /\ UNCHANGED <<tables, lockVars, input, seen, effect, evidence>>

\* evaluatePrecondition asks the pinned session; it never throws.
EvaluatePrecondition(r) ==
  /\ At(r, "PRECONDITION")
  /\ \/ /\ Answered(r)
        /\ Preflight(r, IF Target(r) \in Guarded /\ Applied(Target(r)) THEN "FAIL" ELSE "PASS")
     \/ Throws(r) /\ Preflight(r, "UNAVAILABLE")
  /\ UNCHANGED <<tables, lockVars, input, seen, effect, evidence>>

Effect(r, e) == effect' = [effect EXCEPT ![r] = e]

\* What a migration that fails leaves behind: nothing, unless it has no transaction.
Remainders(r) == IF Target(r) \in Atomic THEN {"none"} ELSE {"none", "partial"}

Answer(r, outcome) ==
  /\ evidence' = [evidence EXCEPT ![r] =
       [execution |-> outcome, postcondition |-> @.postcondition]]
  /\ Go(r, "POSTCONDITION")
  /\ UNCHANGED report

\* executeMigration runs on the pinned session and tells the truth, or does not know,
\* or throws.
ExecuteMigration(r) ==
  /\ At(r, "EXECUTION")
  /\ \/ Answered(r) /\ Effect(r, "committed") /\ Answer(r, "COMMITTED")
     \/ Answered(r) /\ Effect(r, "none") /\ Answer(r, "ROLLED_BACK")
     \/ Answered(r) /\ Target(r) \notin Atomic /\ Effect(r, "partial") /\ Answer(r, "PARTIAL")
     \/ /\ \/ Throws(r) /\ UNCHANGED effect
           \/ ThrowsAfterwards(r) /\ \E e \in Remainders(r) \cup {"committed"} : Effect(r, e)
        /\ \/ Answer(r, "UNKNOWN")
           \/ Leave(r, "COMPLETION_BLOCKED", executionRecovery(r)) /\ UNCHANGED evidence
  /\ UNCHANGED <<tables, lockVars, input, seen>>

\* evaluatePostcondition passes only where the migration is in effect.
EvaluatePostcondition(r) ==
  /\ At(r, "POSTCONDITION")
  /\ \/ /\ \E status \in {"PASS", "FAIL", "UNAVAILABLE"} :
             /\ IF status = "UNAVAILABLE" THEN Throws(r) ELSE Answered(r)
             /\ status = "PASS" => Applied(Target(r))
             /\ evidence' = [evidence EXCEPT ![r] =
                  [execution |-> @.execution, postcondition |-> status]]
        /\ Go(r, "LOCK_RECHECK")
        /\ UNCHANGED report
     \/ /\ Throws(r)
        /\ Leave(r, "COMPLETION_BLOCKED", executionRecovery(r))
        /\ UNCHANGED evidence
  /\ UNCHANGED <<tables, lockVars, input, seen, effect>>

\* Mutant: a successful execution alone authorizes the append.
CompleteOnSuccess(r, lock) ==
  IF evidence[r].postcondition = "PASS" /\ lock = "ACQUIRED"
  THEN Go(r, "LEDGER_APPEND") /\ UNCHANGED report
  ELSE Leave(r, "COMPLETION_BLOCKED", completionRecovery(r))

\* evaluateMigrationCompletion.  Its second preflight has the input of the first.
Complete(r, lock) ==
  IF /\ evidence[r].execution = "COMMITTED"
     /\ evidence[r].postcondition = "PASS"
     /\ lock = "ACQUIRED"
  THEN Go(r, "LEDGER_APPEND") /\ UNCHANGED report
  ELSE Leave(r, "COMPLETION_BLOCKED", completionRecovery(r))

\* checkAdvisoryLock: ACQUIRED or LOST when answered, UNAVAILABLE when it throws.
RecheckLock(r) ==
  /\ At(r, "LOCK_RECHECK")
  /\ \/ Answered(r) /\ Complete(r, IF LockHeld(r) THEN "ACQUIRED" ELSE "LOST")
     \/ Throws(r) /\ Complete(r, "UNAVAILABLE")
  /\ UNCHANGED <<tables, lockVars, input, seen, effect, evidence>>

\* APPENDED is claimed on exactly one returned row; no row is FAILED, a throw UNKNOWN;
\* an invalid clock fails before the statement is sent.
AppendLedger(r) ==
  /\ At(r, "LEDGER_APPEND")
  /\ \/ /\ Answered(r)
        /\ ledger[Target(r)] = NoRow
        /\ AppendRow(Target(r), Row(r))
        /\ report' = [report EXCEPT ![r] =
             [outcome |-> "EXECUTED_AND_RECORDED", recovery |-> "NO_RECOVERY_ACTION",
              appended |-> TRUE]]
        /\ Go(r, "LOCK_RELEASE")
     \/ /\ \/ Answered(r) /\ ledger[Target(r)] # NoRow /\ UNCHANGED ledger
           \/ Throws(r) /\ UNCHANGED ledger
           \/ ThrowsAfterwards(r) /\ AppendRow(Target(r), Row(r))
        /\ Leave(r, "LEDGER_APPEND_FAILED", "MANUAL_RECONCILIATION_REQUIRED")
  /\ UNCHANGED <<relation, lockVars, input, seen, effect, evidence>>

\* A release that is not confirmed overrides the outcome and asks for reconciliation.
ReleaseLock(r) ==
  /\ At(r, "LOCK_RELEASE")
  /\ \/ LockReleased(r) /\ UNCHANGED report
     \/ /\ ReleaseFails(r)
        /\ Report(r, "LOCK_RELEASE_FAILED",
             IF report[r].recovery = "NO_RECOVERY_ACTION"
             THEN "MANUAL_RECONCILIATION_REQUIRED" ELSE report[r].recovery)
  /\ Go(r, "COMPLETED")
  /\ UNCHANGED <<tables, input, seen, effect, evidence>>

\* The process dies between two statements: nothing is reported.
Crash(r) ==
  /\ stage[r] \notin {"SOURCE_VALIDATION", "LOCK_ACQUIRE", "COMPLETED", "crashed"}
  /\ Fault
  /\ Abandon(r, "none")
  /\ Go(r, "crashed")
  /\ UNCHANGED <<tables, holds, input, seen, effect, evidence, report>>

RunStep(r) ==
  \/ ValidateSource(r) \/ AcquireLock(r) \/ ReadLedger(r)
  \/ EvaluatePrecondition(r) \/ ExecuteMigration(r) \/ EvaluatePostcondition(r)
  \/ RecheckLock(r) \/ AppendLedger(r) \/ ReleaseLock(r)
=============================================================================
