----------------------- MODULE MigrationSystem_proofs -----------------------
(***************************************************************************)
(* Proofs about MigrationSystem, for any number of runs, bootstraps and    *)
(* sessions, any migrations, manifests and deployments, and any number of  *)
(* faults.  The argument: a live client between the grant of the lock and  *)
(* the append, or COMMIT, is the only one (LockInv); so what a run read is *)
(* the ledger as long as it can write (LedgerInv); and what it reports     *)
(* follows from the stage it has reached (RunInv).                         *)
(***************************************************************************)
EXTENDS MigrationSystem, TLAPS

-----------------------------------------------------------------------------
(* The inductive invariant.                                                *)

\* A run has the ledger it read from Informed stages on, and permission to execute
\* and record from Authorized ones on.
Authorized == {"EXECUTION", "POSTCONDITION", "LOCK_RECHECK", "LEDGER_APPEND"}
Informed   == {"PRECONDITION"} \cup Authorized
Unexecuted == {"SOURCE_VALIDATION", "LOCK_ACQUIRE", "LEDGER_READ", "PRECONDITION",
               "EXECUTION"}
Reported   == {"LOCK_RELEASE", "COMPLETED"}

\* Clients that were granted the lock and may still read or write the ledger.
Entitled(c) ==
  \/ c \in Runs /\ stage[c] \in {"LEDGER_READ"} \cup Informed
  \/ c \in Boots /\ step[c] \in {"write", "recheck", "commit"}

PinsAreDistinct == \A c, d \in Clients : Alive(c) /\ pin[c] = pin[d] => c = d

PinsAreLent == \A c \in Clients : Alive(c) => session[pin[c]] = "pinned"

OneHolder == \A s, q \in Sessions : holds[s] > 0 /\ holds[q] > 0 => s = q

EntitledHold == \A c \in Clients : Entitled(c) /\ Alive(c) => holds[pin[c]] > 0

LockInv == PinsAreDistinct /\ PinsAreLent /\ OneHolder /\ EntitledHold

\* Rows stay what they were when a run read them; while it lives, there are no more.
SeenStays == \A r \in Runs, i \in Ids : seen[r][i] # NoRow => ledger[i] = seen[r][i]

SeenIsLedger == \A r \in Runs : stage[r] \in Informed /\ Alive(r) => seen[r] = ledger

SeenAuthorizes ==
  \A r \in Runs : stage[r] \in Authorized =>
    IsPrefix(seen[r], Manifest(r)) /\ IsNext(Target(r), seen[r], Manifest(r))

BootIsFirst ==
  \A b \in Boots : step[b] \in {"recheck", "commit"} /\ Alive(b) => Recorded = {}

\* What a run has done by the stage it is at.
Executed ==
  \A r \in Runs :
    /\ stage[r] \in Unexecuted => effect[r] = "none" /\ evidence[r].execution = "none"
    /\ evidence[r].execution = "COMMITTED" => effect[r] = "committed"
    /\ stage[r] = "LEDGER_APPEND" => evidence[r].execution = "COMMITTED"

RecordedLate ==
  \A r \in Runs : stage[r] \in Unexecuted \cup Authorized => ~RecordedBy(r)

Unapplied ==
  \A r \in Runs :
    stage[r] = "EXECUTION" /\ Alive(r) /\ Target(r) \in Guarded => ~Applied(Target(r))

Truth(r) ==
  LET did == report[r].outcome IN
    /\ did = "EXECUTED_AND_RECORDED" => effect[r] = "committed"
    /\ did = "NOOP_ALREADY_APPLIED" =>
         /\ effect[r] = "none" /\ ledger[Target(r)] # NoRow
         /\ ledger[Target(r)].checksum = Row(r).checksum
    /\ did = "BLOCKED_BEFORE_EXECUTION" => effect[r] = "none"
    /\ did = "LEDGER_APPEND_FAILED" => effect[r] = "committed"
    /\ did = "COMPLETION_BLOCKED" => ~RecordedBy(r)
    /\ effect[r] # "none" /\ ~RecordedBy(r) => report[r].recovery # "NO_RECOVERY_ACTION"

ReportedTruth ==
  \A r \in Runs :
    /\ stage[r] \in Reported => Truth(r)
    /\ report[r].appended => RecordedBy(r)

LedgerInv == SeenStays /\ SeenIsLedger /\ SeenAuthorizes /\ BootIsFirst /\ LedgerIsPrefix
RunInv == Executed /\ RecordedLate /\ RecordedWasApplied /\ ReportedTruth
IInv == TypeOK /\ LockInv /\ LedgerInv /\ RunInv /\ Unapplied /\ AppliedOnce

-----------------------------------------------------------------------------
USE MigrationDatabaseAssumption
    DEF Clients, Alive, Fault, Answered, Throws, ThrowsAfterwards, At, Does,
        tables, lockVars, databaseVars, runVars, bootVars

\* What the helpers that runs and bootstraps share do to the types.
LEMMA GoType ==
  ASSUME RunnerTypeOK, NEW r \in Runs, NEW s \in Stages, Go(r, s)
  PROVE  stage' \in [Runs -> Stages]
  BY DEF RunnerTypeOK, Go

\* A report that Report makes is one.
LEMMA ReportType ==
  ASSUME RunnerTypeOK, NEW r \in Runs, NEW o \in Outcomes, NEW q \in Recoveries,
         Report(r, o, q)
  PROVE  report' \in [Runs -> Reports]
  BY DEF RunnerTypeOK, Report, Reports

\* So is evidence of an execution.
LEMMA EvidenceType ==
  ASSUME RunnerTypeOK, NEW r \in Runs,
         NEW o \in {"COMMITTED", "ROLLED_BACK", "PARTIAL", "UNKNOWN"}, Answer(r, o)
  PROVE  evidence' \in [Runs -> Evidence]
  BY DEF RunnerTypeOK, Answer, Evidence

\* A bootstrap's next step is one.
LEMMA ThenType ==
  ASSUME BootTypeOK, NEW b \in Boots, NEW s \in Steps, Then(b, s)
  PROVE  step' \in [Boots -> Steps]
  BY DEF BootTypeOK, Then
\* A bootstrap's verdict is one.
LEMMA ConcludeType ==
  ASSUME BootTypeOK, NEW b \in Boots, NEW appended \in BOOLEAN,
         NEW o \in {"BOOTSTRAPPED", "BLOCKED_BEFORE_COMMIT",
                    "COMMITTED_POST_VERIFICATION_FAILED"},
         Conclude(b, o, appended)
  PROVE  verdict' \in [Boots -> Verdicts]
  BY DEF BootTypeOK, Conclude, Verdicts

\* Types are preserved by the steps of a run: it records a checksum of its manifest.
LEMMA RunTypeOK ==
  ASSUME DatabaseTypeOK, RunnerTypeOK, SeenAuthorizes,
         NEW r \in Runs, RunStep(r) \/ Crash(r)
  PROVE  DatabaseTypeOK' /\ RunnerTypeOK'
  <1>1. DatabaseTypeOK'
    <2> USE DEF DatabaseTypeOK
    <2>1. CASE ValidateSource(r)
      BY <2>1 DEF ValidateSource, BlockBeforeLock
    <2>2. CASE AcquireLock(r)
      BY <2>2 DEF AcquireLock, BlockBeforeLock, LockGranted, LockRefused, LockLeaks, Lend, Grantable, Idle
    <2>3. CASE ReadLedger(r)
      BY <2>3 DEF ReadLedger, Leave
    <2>4. CASE EvaluatePrecondition(r)
      BY <2>4 DEF EvaluatePrecondition, Preflight, Leave
    <2>5. CASE ExecuteMigration(r)
      BY <2>5 DEF ExecuteMigration, Leave, Answer
    <2>6. CASE EvaluatePostcondition(r)
      BY <2>6 DEF EvaluatePostcondition, Leave
    <2>7. CASE RecheckLock(r)
      BY <2>7 DEF RecheckLock, Complete, Leave
    <2>8. CASE AppendLedger(r)
      <3>1. stage[r] = "LEDGER_APPEND"
        BY <2>8 DEF AppendLedger
      <3>2. Manifest(r)[Target(r)] # "none" /\ input[r] \in Inputs
        BY <3>1 DEF SeenAuthorizes, Authorized, IsNext, RunnerTypeOK
      <3>3. Row(r) \in Rows
        BY <3>2, MigrationRunnerAssumption DEF Row, Rows, Manifest, Target, Manifests
      <3>4. QED
        BY <2>8, <3>3 DEF AppendLedger, AppendRow
    <2>9. CASE ReleaseLock(r)
      BY <2>9 DEF ReleaseLock, LockReleased, ReleaseFails, Unlock, ReturnSession, LockHeld
    <2>10. CASE Crash(r)
      BY <2>10 DEF Crash, Abandon
    <2>11. QED
      BY <2>1, <2>2, <2>3, <2>4, <2>5, <2>6, <2>7, <2>8, <2>9, <2>10 DEF RunStep
  <1>2. RunnerTypeOK'
    <2> USE GoType, ReportType DEF RunnerTypeOK, Stages, Outcomes, Recoveries
    <2>1. CASE ValidateSource(r)
      BY <2>1 DEF ValidateSource, BlockBeforeLock
    <2>2. CASE AcquireLock(r)
      BY <2>2 DEF AcquireLock, BlockBeforeLock
    <2>3. CASE ReadLedger(r)
      BY <2>3 DEF ReadLedger, Leave, DatabaseTypeOK
    <2>4. CASE EvaluatePrecondition(r)
      BY <2>4 DEF EvaluatePrecondition, Preflight, Leave, preflightRecovery
    <2>5. CASE ExecuteMigration(r)
      BY <2>5, EvidenceType DEF ExecuteMigration, Leave, Answer, Effect, Remainders, executionRecovery
    <2>6. CASE EvaluatePostcondition(r)
      <3>1. stage' \in [Runs -> Stages]
        BY <2>6 DEF EvaluatePostcondition, Leave
      <3>2. report' \in [Runs -> Reports]
        BY <2>6 DEF EvaluatePostcondition, Leave, executionRecovery
      <3>3. ASSUME NEW status \in {"PASS", "FAIL", "UNAVAILABLE"},
                   evidence' = [evidence EXCEPT ![r] =
                     [execution |-> @.execution, postcondition |-> status]]
            PROVE  evidence' \in [Runs -> Evidence]
        BY <3>3 DEF Evidence
      <3>4. evidence' \in [Runs -> Evidence]
        BY <2>6, <3>3 DEF EvaluatePostcondition
      <3>5. QED
        BY <2>6, <3>1, <3>2, <3>4 DEF EvaluatePostcondition
    <2>7. CASE RecheckLock(r)
      BY <2>7 DEF RecheckLock, Complete, Leave, completionRecovery, executionRecovery
    <2>8. CASE AppendLedger(r)
      <3>1. CASE Report(r, "LEDGER_APPEND_FAILED", "MANUAL_RECONCILIATION_REQUIRED")
        <4>1. report' \in [Runs -> Reports]
          BY <3>1
        <4>2. QED
          BY <2>8, <4>1 DEF AppendLedger, Leave
      <3>2. CASE report' = [report EXCEPT ![r] =
                   [outcome |-> "EXECUTED_AND_RECORDED",
                    recovery |-> "NO_RECOVERY_ACTION", appended |-> TRUE]]
        <4>1. report' \in [Runs -> Reports]
          BY <3>2 DEF Reports
        <4>2. QED
          BY <2>8, <4>1 DEF AppendLedger, Leave
      <3>3. QED
        BY <2>8, <3>1, <3>2 DEF AppendLedger, Leave
    <2>9. CASE ReleaseLock(r)
      <3>1. report[r].recovery \in Recoveries
        BY DEF Reports
      <3>2. CASE UNCHANGED report
        BY <2>9, <3>2 DEF ReleaseLock
      <3>3. CASE Report(r, "LOCK_RELEASE_FAILED",
                   IF report[r].recovery = "NO_RECOVERY_ACTION"
                   THEN "MANUAL_RECONCILIATION_REQUIRED" ELSE report[r].recovery)
        <4>1. report' \in [Runs -> Reports]
          BY <3>1, <3>3
        <4>2. QED
          BY <2>9, <4>1 DEF ReleaseLock
      <3>4. QED
        BY <2>9, <3>2, <3>3 DEF ReleaseLock
    <2>10. CASE Crash(r)
      BY <2>10 DEF Crash
    <2>11. QED
      BY <2>1, <2>2, <2>3, <2>4, <2>5, <2>6, <2>7, <2>8, <2>9, <2>10 DEF RunStep
  <1>3. QED
    BY <1>1, <1>2

\* And by those of a bootstrap.
LEMMA BootStepTypeOK ==
  ASSUME DatabaseTypeOK, BootTypeOK, NEW b \in Boots, BootStep(b) \/ CrashBoot(b)
  PROVE  DatabaseTypeOK' /\ BootTypeOK'
  <1>1. DatabaseTypeOK'
    <2> USE DEF DatabaseTypeOK
    <2>1. CASE VerifyCleanTarget(b)
      BY <2>1 DEF VerifyCleanTarget, Lend, Idle
    <2>2. CASE AcquireBootLock(b)
      BY <2>2 DEF AcquireBootLock, ReturnSession
    <2>3. CASE Write(b)
      BY <2>3 DEF Write
    <2>4. CASE RecheckBootLock(b)
      BY <2>4 DEF RecheckBootLock
    <2>5. CASE Commit(b)
      <3>1. UNCHANGED lockVars /\ (UNCHANGED faults \/ Fault)
        BY <2>5 DEF Commit
      <3>2. CASE UNCHANGED tables
        BY <3>1, <3>2
      <3>3. CASE CommitBootstrap(b)
        <4>1. [checksum |-> BootChecksum, by |-> b] \in Rows
          BY CleanBootstrapAssumption DEF Rows
        <4>2. relation' = TRUE /\ ledger' \in [Ids -> Rows]
          BY <3>3, <4>1 DEF CommitBootstrap
        <4>3. faults' \in 0..MaxFaults
          BY <3>1
        <4>4. QED
          BY <3>1, <4>2, <4>3
      <3>4. QED
        BY <2>5, <3>2, <3>3 DEF Commit
    <2>6. CASE VerifyFingerprint(b)
      BY <2>6 DEF VerifyFingerprint
    <2>7. CASE ReleaseBootLock(b)
      BY <2>7 DEF ReleaseBootLock, LockReleased, ReleaseFails, Unlock, ReturnSession, LockHeld
    <2>8. CASE VerifyNoResidualState(b)
      BY <2>8 DEF VerifyNoResidualState, Conclude
    <2>9. CASE Cleanup(b)
      BY <2>9 DEF Cleanup, LockReleased, ReleaseFails, Unlock, ReturnSession, LockHeld
    <2>10. CASE CrashBoot(b)
      BY <2>10 DEF CrashBoot, Abandon
    <2>11. QED
      BY <2>1, <2>2, <2>3, <2>4, <2>5, <2>6, <2>7, <2>8, <2>9, <2>10 DEF BootStep
  <1>2. BootTypeOK'
    <2> USE ThenType, ConcludeType DEF BootTypeOK, Steps
    <2>1. CASE VerifyCleanTarget(b)
      BY <2>1 DEF VerifyCleanTarget, BlockAtOnce
    <2>2. CASE AcquireBootLock(b)
      BY <2>2 DEF AcquireBootLock, BlockAtOnce
    <2>3. CASE Write(b)
      BY <2>3 DEF Write, Block
    <2>4. CASE RecheckBootLock(b)
      BY <2>4 DEF RecheckBootLock, Block
    <2>5. CASE Commit(b)
      BY <2>5 DEF Commit, CommitBootstrap, Block
    <2>6. CASE VerifyFingerprint(b)
      BY <2>6 DEF VerifyFingerprint, Admit
    <2>7. CASE ReleaseBootLock(b)
      BY <2>7 DEF ReleaseBootLock, Admit
    <2>8. CASE VerifyNoResidualState(b)
      BY <2>8 DEF VerifyNoResidualState, Admit
    <2>9. CASE Cleanup(b)
      BY <2>9 DEF Cleanup
    <2>10. CASE CrashBoot(b)
      BY <2>10 DEF CrashBoot
    <2>11. QED
      BY <2>1, <2>2, <2>3, <2>4, <2>5, <2>6, <2>7, <2>8, <2>9, <2>10 DEF BootStep
  <1>3. QED
    BY <1>1, <1>2

\* Types are preserved by every step.
LEMMA NextTypeOK == TypeOK /\ SeenAuthorizes /\ [Next]_vars => TypeOK'
  <1> SUFFICES ASSUME TypeOK, SeenAuthorizes, [Next]_vars
               PROVE  TypeOK'
    OBVIOUS
  <1> USE DEF TypeOK
  <1>1. ASSUME NEW r \in Runs, RunNext(r)
        PROVE  TypeOK'
    BY <1>1, RunTypeOK DEF RunNext, BootTypeOK
  <1>2. ASSUME NEW b \in Boots, BootNext(b)
        PROVE  TypeOK'
    BY <1>2, BootStepTypeOK DEF BootNext, RunnerTypeOK
  <1>3. CASE ConnectionNext
    <2>1. DatabaseTypeOK'
      BY <1>3 DEF ConnectionNext, Disconnect, Reap, Abandon, DatabaseTypeOK
    <2>2. QED
      BY <1>3, <2>1 DEF ConnectionNext, RunnerTypeOK, BootTypeOK
  <1>4. CASE Ended \/ UNCHANGED vars
    BY <1>4 DEF Ended, vars, DatabaseTypeOK, RunnerTypeOK, BootTypeOK
  <1>5. QED
    BY <1>1, <1>2, <1>3, <1>4 DEF Next

-----------------------------------------------------------------------------
(* The lock.  Each lemma is a way in which statements change the sessions, *)
(* and says when LockInv survives it.                                      *)

\* The clients other than c that are entitled were before.
OthersAsBefore(c) == \A d \in Clients \ {c} : Entitled(d)' => Entitled(d)

\* Nothing changes, and nobody comes to be entitled.
LEMMA LockKept ==
  ASSUME LockInv, NEW c \in Clients, UNCHANGED lockVars,
         OthersAsBefore(c), Entitled(c)' => Entitled(c)
  PROVE  LockInv'
  BY DEF LockInv, PinsAreDistinct, PinsAreLent, OneHolder, EntitledHold, OthersAsBefore

\* A session is pinned, with or without a lock on it.
LEMMA LockLent ==
  ASSUME DatabaseTypeOK, LockInv, NEW c \in Clients, NEW s \in Idle, Lend(c, s),
         \/ UNCHANGED holds /\ ~Entitled(c)'
         \/ Grantable(s) /\ holds' = [holds EXCEPT ![s] = @ + 1],
         OthersAsBefore(c)
  PROVE  LockInv'
  <1> USE DEF DatabaseTypeOK, LockInv, Lend, Idle
  <1>1. \A d \in Clients : Alive(d) => pin[d] # s
    BY DEF PinsAreLent
  <1>2. PinsAreDistinct' /\ PinsAreLent'
    BY <1>1 DEF PinsAreDistinct, PinsAreLent
  <1>3. OneHolder'
    BY DEF OneHolder, Grantable
  <1>4. EntitledHold'
    BY <1>1 DEF EntitledHold, OthersAsBefore
  <1>5. QED
    BY <1>2, <1>3, <1>4

\* A session takes the lock where it is: an idle one, or the one c has pinned.
LEMMA LockTaken ==
  ASSUME DatabaseTypeOK, LockInv, NEW c \in Clients, NEW s \in Sessions, Grantable(s),
         holds' = [holds EXCEPT ![s] = @ + 1], UNCHANGED <<session, pin>>,
         OthersAsBefore(c), Entitled(c)' => Entitled(c) \/ pin[c] = s
  PROVE  LockInv'
  <1> USE DEF DatabaseTypeOK, LockInv
  <1>1. PinsAreDistinct' /\ PinsAreLent'
    BY DEF PinsAreDistinct, PinsAreLent
  <1>2. OneHolder'
    BY DEF OneHolder, Grantable
  <1>3. EntitledHold'
    BY DEF EntitledHold, OthersAsBefore
  <1>4. QED
    BY <1>1, <1>2, <1>3

\* c gives its session back: unlocked, as it is, or with a lock that it has not heard
\* of.
LEMMA LockReturned ==
  ASSUME DatabaseTypeOK, LockInv, NEW c \in Clients, ReturnSession(c),
         \/ UNCHANGED holds
         \/ Unlock(c)
         \/ Alive(c) /\ Grantable(pin[c]) /\ holds' = [holds EXCEPT ![pin[c]] = @ + 1],
         OthersAsBefore(c)
  PROVE  LockInv'
  <1> USE DEF DatabaseTypeOK, LockInv, ReturnSession
  <1>1. PinsAreDistinct' /\ PinsAreLent'
    BY DEF PinsAreDistinct, PinsAreLent
  <1>2. OneHolder'
    BY DEF OneHolder, Grantable, Unlock
  <1>3. EntitledHold'
    <2>1. \A d \in Clients \ {c} : Alive(d)' =>
             Alive(d) /\ pin'[d] = pin[d] /\ (holds[pin[d]] > 0 => holds'[pin[d]] > 0)
      BY DEF PinsAreDistinct, Unlock
    <2>2. ~Alive(c)'
      BY MigrationDatabaseAssumption
    <2>3. QED
      BY <2>1, <2>2 DEF EntitledHold, OthersAsBefore
  <1>4. QED
    BY <1>1, <1>2, <1>3

\* c's connection is lost, or c dies.
LEMMA LockAbandoned ==
  ASSUME DatabaseTypeOK, LockInv, NEW c \in Clients, NEW now \in {"none", "dead"},
         Abandon(c, now), UNCHANGED holds, OthersAsBefore(c)
  PROVE  LockInv'
  <1> USE DEF DatabaseTypeOK, LockInv, Abandon
  <1>1. PinsAreDistinct' /\ PinsAreLent'
    BY DEF PinsAreDistinct, PinsAreLent
  <1>2. OneHolder'
    BY DEF OneHolder
  <1>3. EntitledHold'
    BY DEF EntitledHold, OthersAsBefore
  <1>4. QED
    BY <1>1, <1>2, <1>3

\* An abandoned session ends.
LEMMA LockReaped ==
  ASSUME DatabaseTypeOK, LockInv, NEW s \in Sessions, Reap(s),
         \A d \in Clients : Entitled(d)' => Entitled(d)
  PROVE  LockInv'
  <1> USE DEF DatabaseTypeOK, LockInv, Reap
  <1>1. \A d \in Clients : Alive(d) => pin[d] # s
    BY DEF PinsAreLent
  <1>2. PinsAreDistinct' /\ PinsAreLent'
    BY <1>1 DEF PinsAreDistinct, PinsAreLent
  <1>3. OneHolder'
    BY DEF OneHolder
  <1>4. EntitledHold'
    BY <1>1 DEF EntitledHold
  <1>5. QED
    BY <1>2, <1>3, <1>4

\* A run's step entitles nobody else, and itself only when it is granted the lock.
LEMMA GoEntitles ==
  ASSUME RunnerTypeOK, NEW r \in Runs, NEW s \in Stages, Go(r, s), UNCHANGED step
  PROVE  /\ OthersAsBefore(r)
         /\ Entitled(r)' <=> s \in {"LEDGER_READ"} \cup Informed
  BY DEF RunnerTypeOK, Go, OthersAsBefore, Entitled

\* So does a bootstrap's.
LEMMA ThenEntitles ==
  ASSUME BootTypeOK, NEW b \in Boots, NEW s \in Steps, Then(b, s), UNCHANGED stage
  PROVE  /\ OthersAsBefore(b)
         /\ Entitled(b)' <=> s \in {"write", "recheck", "commit"}
  BY DEF BootTypeOK, Then, OthersAsBefore, Entitled

\* LockInv is preserved by the steps of a run.
LEMMA RunLockInv ==
  ASSUME DatabaseTypeOK, RunnerTypeOK, LockInv,
         NEW r \in Runs, RunStep(r) \/ Crash(r), UNCHANGED bootVars
  PROVE  LockInv'
  <1>1. r \in Clients
    OBVIOUS
  <1>2. ASSUME NEW s \in Stages, Go(r, s), UNCHANGED lockVars,
               s \in {"LEDGER_READ"} \cup Informed => Entitled(r)
        PROVE  LockInv'
    BY <1>1, <1>2, GoEntitles, LockKept
  <1> USE DEF Stages, Informed, Authorized
  <1>3. CASE ValidateSource(r)
    BY <1>2, <1>3 DEF ValidateSource, BlockBeforeLock
  <1>4. CASE AcquireLock(r)
    <2>1. ASSUME NEW s \in Sessions, LockGranted(r, s), Go(r, "LEDGER_READ")
          PROVE  LockInv'
      BY <1>1, <2>1, GoEntitles, LockLent DEF LockGranted
    <2>2. CASE LockRefused /\ BlockBeforeLock(r)
      BY <1>2, <2>2 DEF LockRefused, BlockBeforeLock
    <2>3. CASE LockLeaks /\ BlockBeforeLock(r)
      <3>1. PICK s \in Idle : Grantable(s) /\ holds' = [holds EXCEPT ![s] = @ + 1]
        BY <2>3 DEF LockLeaks
      <3>2. Go(r, "COMPLETED") /\ UNCHANGED <<session, pin>>
        BY <2>3 DEF LockLeaks, BlockBeforeLock
      <3>3. OthersAsBefore(r) /\ ~Entitled(r)'
        BY <3>2, GoEntitles
      <3>4. QED
        BY <1>1, <3>1, <3>2, <3>3, LockTaken DEF Idle
    <2>4. QED
      BY <1>4, <2>1, <2>2, <2>3 DEF AcquireLock
  <1>5. CASE ReadLedger(r)
    BY <1>2, <1>5 DEF ReadLedger, Leave, Entitled
  <1>6. CASE EvaluatePrecondition(r)
    BY <1>2, <1>6 DEF EvaluatePrecondition, Preflight, Leave, Entitled
  <1>7. CASE ExecuteMigration(r)
    BY <1>2, <1>7 DEF ExecuteMigration, Answer, Leave, Entitled
  <1>8. CASE EvaluatePostcondition(r)
    BY <1>2, <1>8 DEF EvaluatePostcondition, Leave, Entitled
  <1>9. CASE RecheckLock(r)
    BY <1>2, <1>9 DEF RecheckLock, Complete, Leave, Entitled
  <1>10. CASE AppendLedger(r)
    BY <1>2, <1>10 DEF AppendLedger, Leave
  <1>11. CASE ReleaseLock(r)
    <2>1. Go(r, "COMPLETED") /\ ReturnSession(r) /\ (UNCHANGED holds \/ Unlock(r))
      BY <1>11 DEF ReleaseLock, LockReleased, ReleaseFails
    <2>2. OthersAsBefore(r)
      BY <2>1, GoEntitles
    <2>3. QED
      BY <1>1, <2>1, <2>2, LockReturned
  <1>12. CASE Crash(r)
    <2>1. Go(r, "crashed") /\ Abandon(r, "none") /\ UNCHANGED holds
      BY <1>12 DEF Crash
    <2>2. OthersAsBefore(r)
      BY <2>1, GoEntitles
    <2>3. QED
      BY <1>1, <2>1, <2>2, LockAbandoned
  <1>13. QED
    BY <1>3, <1>4, <1>5, <1>6, <1>7, <1>8, <1>9, <1>10, <1>11, <1>12 DEF RunStep

\* And by those of a bootstrap.
LEMMA BootLockInv ==
  ASSUME DatabaseTypeOK, BootTypeOK, LockInv,
         NEW b \in Boots, BootStep(b) \/ CrashBoot(b), UNCHANGED runVars
  PROVE  LockInv'
  <1>1. b \in Clients
    OBVIOUS
  <1>2. ASSUME NEW s \in Steps, Then(b, s), UNCHANGED lockVars,
               s \in {"write", "recheck", "commit"} => Entitled(b)
        PROVE  LockInv'
    BY <1>1, <1>2, ThenEntitles, LockKept
  <1>3. ASSUME NEW s \in Steps, Then(b, s), ReturnSession(b),
               UNCHANGED holds \/ Unlock(b)
        PROVE  LockInv'
    BY <1>1, <1>3, ThenEntitles, LockReturned
  <1> USE DEF Steps
  <1>4. CASE VerifyCleanTarget(b)
    <2>1. ASSUME NEW s \in Idle, Lend(b, s), Then(b, "acquire"), UNCHANGED holds
          PROVE  LockInv'
      BY <1>1, <2>1, ThenEntitles, LockLent
    <2>2. CASE Then(b, "done") /\ UNCHANGED lockVars
      BY <1>2, <2>2
    <2>3. QED
      BY <1>4, <2>1, <2>2 DEF VerifyCleanTarget, BlockAtOnce
  <1>5. CASE AcquireBootLock(b)
    <2> DEFINE Take == /\ Alive(b) /\ Grantable(pin[b])
                       /\ holds' = [holds EXCEPT ![pin[b]] = @ + 1]
    <2>1. CASE Take /\ UNCHANGED <<session, pin>> /\ Then(b, "write")
      <3>1. OthersAsBefore(b)
        BY <2>1, ThenEntitles
      <3>2. QED
        BY <1>1, <2>1, <3>1, LockTaken
    <2>2. CASE Take /\ ReturnSession(b) /\ Then(b, "done")
      <3>1. OthersAsBefore(b)
        BY <2>2, ThenEntitles
      <3>2. QED
        BY <1>1, <2>2, <3>1, LockReturned
    <2>3. CASE UNCHANGED holds /\ ReturnSession(b) /\ Then(b, "done")
      BY <1>3, <2>3
    <2>4. QED
      BY <1>5, <2>1, <2>2, <2>3 DEF AcquireBootLock, BlockAtOnce
  <1>6. CASE Write(b)
    BY <1>2, <1>6 DEF Write, Block, Entitled
  <1>7. CASE RecheckBootLock(b)
    BY <1>2, <1>7 DEF RecheckBootLock, Block, Entitled
  <1>8. CASE Commit(b)
    BY <1>2, <1>8 DEF Commit, Block
  <1>9. CASE VerifyFingerprint(b)
    BY <1>2, <1>9 DEF VerifyFingerprint, Admit
  <1>10. CASE ReleaseBootLock(b)
    BY <1>3, <1>10 DEF ReleaseBootLock, LockReleased, ReleaseFails, Admit
  <1>11. CASE VerifyNoResidualState(b)
    BY <1>2, <1>11 DEF VerifyNoResidualState, Admit
  <1>12. CASE Cleanup(b)
    BY <1>3, <1>12 DEF Cleanup, LockReleased, ReleaseFails
  <1>13. CASE CrashBoot(b)
    <2>1. Then(b, "crashed") /\ Abandon(b, "none") /\ UNCHANGED holds
      BY <1>13 DEF CrashBoot
    <2>2. OthersAsBefore(b)
      BY <2>1, ThenEntitles
    <2>3. QED
      BY <1>1, <2>1, <2>2, LockAbandoned
  <1>14. QED
    BY <1>4, <1>5, <1>6, <1>7, <1>8, <1>9, <1>10, <1>11, <1>12, <1>13 DEF BootStep

\* By every step.
LEMMA NextLockInv == TypeOK /\ LockInv /\ [Next]_vars => LockInv'
  <1> SUFFICES ASSUME DatabaseTypeOK, RunnerTypeOK, BootTypeOK, LockInv, [Next]_vars
               PROVE  LockInv'
    BY DEF TypeOK
  <1>1. ASSUME NEW r \in Runs, RunNext(r)
        PROVE  LockInv'
    BY <1>1, RunLockInv DEF RunNext
  <1>2. ASSUME NEW b \in Boots, BootNext(b)
        PROVE  LockInv'
    BY <1>2, BootLockInv DEF BootNext
  <1>3. ASSUME NEW c \in Clients, Disconnect(c), UNCHANGED <<runVars, bootVars>>
        PROVE  LockInv'
    <2>1. OthersAsBefore(c) /\ Abandon(c, "dead") /\ UNCHANGED holds
      BY <1>3 DEF Disconnect, OthersAsBefore, Entitled
    <2>2. QED
      BY <2>1, LockAbandoned
  <1>4. ASSUME NEW s \in Sessions, Reap(s), UNCHANGED <<runVars, bootVars>>
        PROVE  LockInv'
    BY <1>4, LockReaped DEF Entitled
  <1>5. CASE Ended \/ UNCHANGED vars
    BY <1>5 DEF Ended, vars, LockInv, PinsAreDistinct, PinsAreLent, OneHolder, EntitledHold,
               Entitled
  <1>6. QED
    BY <1>1, <1>2, <1>3, <1>4, <1>5 DEF Next, ConnectionNext

\* What the lock is for: of the clients that may still write, one lives.
LEMMA OneEntitled ==
  ASSUME DatabaseTypeOK, LockInv,
         NEW c \in Clients, NEW d \in Clients,
         Entitled(c), Alive(c), Entitled(d), Alive(d)
  PROVE  c = d
  BY DEF LockInv, PinsAreDistinct, OneHolder, EntitledHold

-----------------------------------------------------------------------------
(* What a step leaves alone.                                               *)

\* Of run r's own state.
RunIsIdle(r) ==
  /\ stage'[r] = stage[r] /\ seen'[r] = seen[r] /\ effect'[r] = effect[r]
  /\ evidence'[r] = evidence[r] /\ report'[r] = report[r]

PinOnlyLost(c) == pin'[c] \in {pin[c], "dead"}

\* A run's step is its own.
LEMMA RunFrame ==
  ASSUME DatabaseTypeOK, RunnerTypeOK, NEW q \in Runs, RunStep(q) \/ Crash(q)
  PROVE  /\ input' = input
         /\ \A r \in Runs \ {q} : RunIsIdle(r)
         /\ \A c \in Clients \ {q} : pin'[c] = pin[c]
  <1> USE DEF DatabaseTypeOK, RunnerTypeOK, RunIsIdle, Go, Leave
  <1>1. CASE ValidateSource(q)
    BY <1>1 DEF ValidateSource, BlockBeforeLock, Report
  <1>2. CASE AcquireLock(q)
    BY <1>2 DEF AcquireLock, BlockBeforeLock, Report, LockGranted, LockRefused, LockLeaks, Lend
  <1>3. CASE ReadLedger(q)
    BY <1>3 DEF ReadLedger, Report
  <1>4. CASE EvaluatePrecondition(q)
    BY <1>4 DEF EvaluatePrecondition, Preflight, Report
  <1>5. CASE ExecuteMigration(q)
    BY <1>5 DEF ExecuteMigration, Answer, Effect, Report
  <1>6. CASE EvaluatePostcondition(q)
    BY <1>6 DEF EvaluatePostcondition, Report
  <1>7. CASE RecheckLock(q)
    BY <1>7 DEF RecheckLock, Complete, Report
  <1>8. CASE AppendLedger(q)
    BY <1>8 DEF AppendLedger, Report
  <1>9. CASE ReleaseLock(q)
    BY <1>9 DEF ReleaseLock, LockReleased, ReleaseFails, ReturnSession, Report
  <1>10. CASE Crash(q)
    BY <1>10 DEF Crash, Abandon
  <1>11. QED
    BY <1>1, <1>2, <1>3, <1>4, <1>5, <1>6, <1>7, <1>8, <1>9, <1>10 DEF RunStep

\* So is a bootstrap's.
LEMMA BootFrame ==
  ASSUME DatabaseTypeOK, BootTypeOK, NEW d \in Boots, BootStep(d) \/ CrashBoot(d)
  PROVE  /\ \A b \in Boots \ {d} : step'[b] = step[b] /\ committed'[b] = committed[b]
         /\ \A c \in Clients \ {d} : pin'[c] = pin[c]
         /\ committed[d] => committed'[d]
  <1> USE DEF DatabaseTypeOK, BootTypeOK, Then
  <1>1. CASE VerifyCleanTarget(d)
    BY <1>1 DEF VerifyCleanTarget, BlockAtOnce, Lend
  <1>2. CASE AcquireBootLock(d)
    BY <1>2 DEF AcquireBootLock, BlockAtOnce, ReturnSession
  <1>3. CASE Write(d)
    BY <1>3 DEF Write, Block
  <1>4. CASE RecheckBootLock(d)
    BY <1>4 DEF RecheckBootLock, Block
  <1>5. CASE Commit(d)
    BY <1>5 DEF Commit, CommitBootstrap, Block
  <1>6. CASE VerifyFingerprint(d)
    BY <1>6 DEF VerifyFingerprint, Admit
  <1>7. CASE ReleaseBootLock(d)
    BY <1>7 DEF ReleaseBootLock, LockReleased, ReleaseFails, ReturnSession, Admit
  <1>8. CASE VerifyNoResidualState(d)
    BY <1>8 DEF VerifyNoResidualState, Admit
  <1>9. CASE Cleanup(d)
    BY <1>9 DEF Cleanup, LockReleased, ReleaseFails, ReturnSession
  <1>10. CASE CrashBoot(d)
    BY <1>10 DEF CrashBoot, Abandon
  <1>11. QED
    BY <1>1, <1>2, <1>3, <1>4, <1>5, <1>6, <1>7, <1>8, <1>9, <1>10 DEF BootStep

\* Every step is r's or leaves r alone, but for the loss of its connection.
LEMMA RunBystander ==
  ASSUME TypeOK, [Next]_vars, NEW r \in Runs
  PROVE  RunNext(r) \/ (RunIsIdle(r) /\ PinOnlyLost(r))
  <1> USE DEF TypeOK
  <1>1. ASSUME NEW q \in Runs, RunNext(q)
        PROVE  RunNext(r) \/ (RunIsIdle(r) /\ PinOnlyLost(r))
    BY <1>1, RunFrame DEF RunNext, PinOnlyLost
  <1>2. ASSUME NEW b \in Boots, BootNext(b)
        PROVE  RunIsIdle(r) /\ PinOnlyLost(r)
    BY <1>2, BootFrame, MigrationDatabaseAssumption DEF BootNext, RunIsIdle, PinOnlyLost
  <1>3. CASE ConnectionNext
    BY <1>3 DEF ConnectionNext, Disconnect, Abandon, Reap, RunIsIdle, PinOnlyLost, DatabaseTypeOK
  <1>4. CASE Ended \/ UNCHANGED vars
    BY <1>4 DEF Ended, vars, RunIsIdle, PinOnlyLost
  <1>5. QED
    BY <1>1, <1>2, <1>3, <1>4 DEF Next

\* The same of a bootstrap.
LEMMA BootBystander ==
  ASSUME TypeOK, [Next]_vars, NEW b \in Boots
  PROVE  BootNext(b) \/ (step'[b] = step[b] /\ committed'[b] = committed[b] /\ PinOnlyLost(b))
  <1> USE DEF TypeOK
  <1>1. ASSUME NEW r \in Runs, RunNext(r)
        PROVE  step'[b] = step[b] /\ committed'[b] = committed[b] /\ PinOnlyLost(b)
    BY <1>1, RunFrame, MigrationDatabaseAssumption DEF RunNext, PinOnlyLost
  <1>2. ASSUME NEW d \in Boots, BootNext(d)
        PROVE  BootNext(b) \/ (step'[b] = step[b] /\ committed'[b] = committed[b] /\ PinOnlyLost(b))
    BY <1>2, BootFrame DEF BootNext, PinOnlyLost
  <1>3. CASE ConnectionNext
    BY <1>3 DEF ConnectionNext, Disconnect, Abandon, Reap, PinOnlyLost, DatabaseTypeOK
  <1>4. CASE Ended \/ UNCHANGED vars
    BY <1>4 DEF Ended, vars, PinOnlyLost
  <1>5. QED
    BY <1>1, <1>2, <1>3, <1>4 DEF Next

\* No step changes what a run is asked to do.
LEMMA InputStays == TypeOK /\ [Next]_vars => input' = input
  BY RunFrame DEF TypeOK, Next, RunNext, BootNext, ConnectionNext, Ended, vars

-----------------------------------------------------------------------------
(* The ledger.                                                             *)

Appends(r) ==
  /\ stage[r] = "LEDGER_APPEND" /\ Alive(r) /\ RunNext(r) /\ stage'[r] = "LOCK_RELEASE"
  /\ ledger[Target(r)] = NoRow
  /\ ledger' = [ledger EXCEPT ![Target(r)] = Row(r)]

Commits(b) ==
  /\ step[b] = "commit" /\ Alive(b) /\ BootNext(b)
  /\ Recorded = {}
  /\ CommitBootstrap(b)

\* The migration of a run that may still record it is the next one of its manifest,
\* and in no row.
LEMMA AuthorizedIsNext ==
  ASSUME LedgerInv, NEW r \in Runs, stage[r] \in Authorized, Alive(r)
  PROVE  /\ IsPrefix(ledger, Manifest(r))
         /\ IsNext(Target(r), ledger, Manifest(r))
         /\ ledger[Target(r)] = NoRow
  BY DEF LedgerInv, SeenIsLedger, SeenAuthorizes, Informed, IsNext

\* There are two ways to write the ledger.
LEMMA LedgerStep ==
  ASSUME TypeOK, LedgerInv, [Next]_vars
  PROVE  \/ UNCHANGED ledger
         \/ \E r \in Runs : Appends(r)
         \/ \E b \in Boots : Commits(b)
  <1>1. ASSUME NEW r \in Runs, RunNext(r)
        PROVE  UNCHANGED ledger \/ Appends(r)
    <2>1. CASE AppendLedger(r) /\ ~UNCHANGED ledger
      <3>1. stage[r] = "LEDGER_APPEND" /\ Alive(r) /\ AppendRow(Target(r), Row(r))
        BY <2>1 DEF AppendLedger
      <3>2. ledger[Target(r)] = NoRow
        BY <3>1, AuthorizedIsNext DEF Authorized
      <3>3. ledger' = [ledger EXCEPT ![Target(r)] = Row(r)]
        BY <3>1, <3>2 DEF AppendRow
      <3>4. stage'[r] = "LOCK_RELEASE"
        BY <2>1 DEF AppendLedger, Leave, Go, TypeOK, RunnerTypeOK
      <3>5. QED
        BY <1>1, <3>1, <3>2, <3>3, <3>4 DEF Appends
    <2>2. CASE ~AppendLedger(r)
      BY <1>1, <2>2 DEF RunNext, RunStep, ValidateSource, AcquireLock, ReadLedger,
           EvaluatePrecondition, ExecuteMigration, EvaluatePostcondition, RecheckLock,
           ReleaseLock, Crash
    <2>3. QED
      BY <2>1, <2>2
  <1>2. ASSUME NEW b \in Boots, BootNext(b)
        PROVE  UNCHANGED ledger \/ Commits(b)
    <2>1. CASE Commit(b) /\ ~UNCHANGED ledger
      <3>1. step[b] = "commit" /\ Alive(b) /\ CommitBootstrap(b)
        BY <2>1 DEF Commit
      <3>2. Recorded = {}
        BY <3>1 DEF LedgerInv, BootIsFirst
      <3>3. QED
        BY <1>2, <3>1, <3>2 DEF Commits
    <2>2. CASE ~Commit(b)
      BY <1>2, <2>2 DEF BootNext, BootStep, VerifyCleanTarget, AcquireBootLock, Write,
           RecheckBootLock, VerifyFingerprint, ReleaseBootLock, VerifyNoResidualState,
           Cleanup, CrashBoot
    <2>3. QED
      BY <2>1, <2>2
  <1>3. CASE ConnectionNext \/ Ended \/ UNCHANGED vars
    BY <1>3 DEF ConnectionNext, Disconnect, Reap, Ended, vars
  <1>4. QED
    BY <1>1, <1>2, <1>3 DEF Next

\* Rows are never changed.
LEMMA RowsStay ==
  ASSUME TypeOK, LedgerInv, [Next]_vars, NEW i \in Ids, ledger[i] # NoRow
  PROVE  ledger'[i] = ledger[i]
  <1>1. ASSUME NEW r \in Runs, Appends(r)
        PROVE  ledger'[i] = ledger[i]
    BY <1>1 DEF Appends, TypeOK, DatabaseTypeOK
  <1>2. ASSUME NEW b \in Boots, Commits(b)
        PROVE  ledger'[i] = ledger[i]
    BY <1>2 DEF Commits, Recorded
  <1>3. QED
    BY <1>1, <1>2, LedgerStep

\* Nobody writes next to an entitled client that lives.
LEMMA EntitledWritesAlone ==
  ASSUME TypeOK, LockInv, LedgerInv, [Next]_vars, NEW c \in Clients, Entitled(c), Alive(c),
         ~UNCHANGED ledger
  PROVE  (c \in Runs /\ Appends(c)) \/ (c \in Boots /\ Commits(c))
  <1>1. ASSUME NEW r \in Runs, Appends(r)
        PROVE  c = r
    BY <1>1, OneEntitled DEF Appends, Entitled, Informed, Authorized, TypeOK
  <1>2. ASSUME NEW b \in Boots, Commits(b)
        PROVE  c = b
    BY <1>2, OneEntitled DEF Commits, Entitled, TypeOK
  <1>3. QED
    BY <1>1, <1>2, LedgerStep

\* A step of a run at an entitled stage: on to the next stage, or out.
LEMMA RunAdvances ==
  ASSUME TypeOK, NEW r \in Runs, RunNext(r)
  PROVE  /\ stage'[r] = "PRECONDITION" =>
              stage[r] = "LEDGER_READ" /\ seen'[r] = ledger /\ UNCHANGED ledger
         /\ stage'[r] = "EXECUTION" =>
              stage[r] = "PRECONDITION" /\ seen'[r] = seen[r]
         /\ stage'[r] \in Authorized \ {"EXECUTION"} =>
              stage[r] \in Authorized /\ seen'[r] = seen[r]
         /\ stage'[r] \in Informed => pin'[r] = pin[r]
  <1> USE DEF Informed, Authorized, RunNext, Go, Leave
  <1>0. stage \in [Runs -> Stages] /\ seen \in [Runs -> [Ids -> Rows]]
    BY DEF TypeOK, RunnerTypeOK
  <1>1. CASE ValidateSource(r)
    BY <1>0, <1>1 DEF ValidateSource, BlockBeforeLock
  <1>2. CASE AcquireLock(r)
    BY <1>0, <1>2 DEF AcquireLock, BlockBeforeLock
  <1>3. CASE ReadLedger(r)
    BY <1>0, <1>3 DEF ReadLedger
  <1>4. CASE EvaluatePrecondition(r)
    BY <1>0, <1>4 DEF EvaluatePrecondition, Preflight
  <1>5. CASE ExecuteMigration(r)
    BY <1>0, <1>5 DEF ExecuteMigration, Answer
  <1>6. CASE EvaluatePostcondition(r)
    BY <1>0, <1>6 DEF EvaluatePostcondition
  <1>7. CASE RecheckLock(r)
    BY <1>0, <1>7 DEF RecheckLock, Complete
  <1>8. CASE AppendLedger(r)
    BY <1>0, <1>8 DEF AppendLedger
  <1>9. CASE ReleaseLock(r) \/ Crash(r)
    BY <1>0, <1>9 DEF ReleaseLock, Crash
  <1>10. QED
    BY <1>1, <1>2, <1>3, <1>4, <1>5, <1>6, <1>7, <1>8, <1>9 DEF RunStep

\* What a run has read stays in the ledger.
LEMMA NextSeenStays ==
  ASSUME TypeOK, LedgerInv, [Next]_vars
  PROVE  SeenStays'
  <1> SUFFICES ASSUME NEW r \in Runs, NEW i \in Ids, seen'[r][i] # NoRow
               PROVE  ledger'[i] = seen'[r][i]
    BY DEF SeenStays
  <1>1. seen'[r] = seen[r] \/ (seen'[r] = ledger /\ UNCHANGED ledger)
    <2>1. CASE RunNext(r)
      <3>1. CASE ReadLedger(r)
        BY <3>1 DEF ReadLedger, TypeOK, RunnerTypeOK
      <3>2. CASE ~ReadLedger(r)
        BY <2>1, <3>2 DEF RunNext, RunStep, ValidateSource, AcquireLock,
             EvaluatePrecondition, ExecuteMigration, EvaluatePostcondition, RecheckLock,
             AppendLedger, ReleaseLock, Crash
      <3>3. QED
        BY <3>1, <3>2
    <2>2. CASE RunIsIdle(r)
      BY <2>2 DEF RunIsIdle
    <2>3. QED
      BY <2>1, <2>2, RunBystander
  <1>2. CASE seen'[r] = seen[r]
    BY <1>2, RowsStay DEF LedgerInv, SeenStays
  <1>3. CASE seen'[r] = ledger /\ UNCHANGED ledger
    BY <1>3
  <1>4. QED
    BY <1>1, <1>2, <1>3

\* It is all there is while the run may write.
LEMMA NextSeenIsLedger ==
  ASSUME TypeOK, LockInv, LedgerInv, [Next]_vars
  PROVE  SeenIsLedger'
  <1> SUFFICES ASSUME NEW r \in Runs, stage'[r] \in Informed, Alive(r)'
               PROVE  seen'[r] = ledger'
    BY DEF SeenIsLedger
  <1>1. CASE stage[r] \in Informed /\ seen'[r] = seen[r] /\ PinOnlyLost(r)
    <2>1. Alive(r) /\ Entitled(r)
      BY <1>1, MigrationDatabaseAssumption DEF PinOnlyLost, Entitled
    <2>2. ~Appends(r)
      BY DEF Appends, Informed, Authorized
    <2>3. UNCHANGED ledger
      BY <2>1, <2>2, EntitledWritesAlone, MigrationDatabaseAssumption
    <2>4. QED
      BY <1>1, <2>1, <2>3 DEF LedgerInv, SeenIsLedger
  <1>2. CASE RunNext(r)
    BY <1>1, <1>2, RunAdvances DEF Informed, Authorized, PinOnlyLost
  <1>3. CASE RunIsIdle(r) /\ PinOnlyLost(r)
    BY <1>1, <1>3 DEF RunIsIdle
  <1>4. QED
    BY <1>2, <1>3, RunBystander

\* Only the next migration of the manifest is let through.
LEMMA NextSeenAuthorizes ==
  ASSUME TypeOK, LedgerInv, [Next]_vars
  PROVE  SeenAuthorizes'
  <1> SUFFICES ASSUME NEW r \in Runs, stage'[r] \in Authorized
               PROVE  /\ IsPrefix(seen'[r], Manifest(r)')
                      /\ IsNext(Target(r)', seen'[r], Manifest(r)')
    BY DEF SeenAuthorizes
  <1>1. Manifest(r)' = Manifest(r) /\ Target(r)' = Target(r)
    BY InputStays DEF Manifest, Target
  <1>2. CASE stage[r] \in Authorized /\ seen'[r] = seen[r]
    BY <1>1, <1>2 DEF LedgerInv, SeenAuthorizes
  <1>3. CASE RunNext(r)
    <2>1. CASE stage'[r] = "EXECUTION"
      <3>1. stage[r] = "PRECONDITION" /\ seen'[r] = seen[r]
        BY <1>3, <2>1, RunAdvances
      <3>2. EvaluatePrecondition(r) \/ Crash(r)
        BY <1>3, <3>1 DEF RunNext, RunStep, ValidateSource, AcquireLock, ReadLedger,
             ExecuteMigration, EvaluatePostcondition, RecheckLock, AppendLedger, ReleaseLock
      <3>3. EvaluatePrecondition(r)
        BY <2>1, <3>2 DEF Crash, Go, TypeOK, RunnerTypeOK
      <3>4. PICK precondition \in {"PASS", "FAIL", "UNAVAILABLE"} : Preflight(r, precondition)
        BY <3>3 DEF EvaluatePrecondition
      <3>5. IsPrefix(seen[r], Manifest(r)) /\ IsNext(Target(r), seen[r], Manifest(r))
        BY <2>1, <3>4 DEF Preflight, Leave, Go, TypeOK, RunnerTypeOK
      <3>6. QED
        BY <1>1, <3>1, <3>5
    <2>2. CASE stage'[r] # "EXECUTION"
      BY <1>2, <1>3, <2>2, RunAdvances
    <2>3. QED
      BY <2>1, <2>2
  <1>4. CASE RunIsIdle(r)
    BY <1>2, <1>4 DEF RunIsIdle
  <1>5. QED
    BY <1>3, <1>4, RunBystander

\* A bootstrap has found the ledger empty, and it stays so until COMMIT.
LEMMA NextBootIsFirst ==
  ASSUME TypeOK, LockInv, LedgerInv, [Next]_vars
  PROVE  BootIsFirst'
  <1> SUFFICES ASSUME NEW b \in Boots, step'[b] \in {"recheck", "commit"}, Alive(b)'
               PROVE  Recorded' = {}
    BY DEF BootIsFirst
  <1>1. CASE UNCHANGED ledger /\ Recorded = {}
    BY <1>1 DEF Recorded
  <1>2. CASE step[b] \in {"recheck", "commit"} /\ PinOnlyLost(b)
    <2>1. Alive(b) /\ Entitled(b)
      BY <1>2, MigrationDatabaseAssumption DEF PinOnlyLost, Entitled
    <2>2. ~Commits(b)
      <3>1. ASSUME Commits(b)
            PROVE  FALSE
        <4>1. step[b] = "commit" /\ CommitBootstrap(b) /\ BootNext(b)
          BY <3>1 DEF Commits
        <4>2. Commit(b) \/ CrashBoot(b)
          BY <4>1 DEF BootNext, BootStep, VerifyCleanTarget, AcquireBootLock, Write,
               RecheckBootLock, VerifyFingerprint, ReleaseBootLock,
               VerifyNoResidualState, Cleanup
        <4>3. QED
          BY <4>1, <4>2 DEF Commit, CrashBoot, Block, Then, TypeOK, BootTypeOK
      <3>2. QED
        BY <3>1
    <2>3. UNCHANGED ledger
      BY <2>1, <2>2, EntitledWritesAlone, MigrationDatabaseAssumption
    <2>4. QED
      BY <1>1, <1>2, <2>1, <2>3 DEF LedgerInv, BootIsFirst
  <1>3. CASE BootNext(b)
    <2> USE DEF Then, TypeOK, BootTypeOK
    <2>1. CASE Write(b)
      BY <1>1, <1>3, <2>1 DEF Write, Block
    <2>2. CASE RecheckBootLock(b)
      BY <1>2, <2>2 DEF RecheckBootLock, PinOnlyLost
    <2>3. CASE ~Write(b) /\ ~RecheckBootLock(b)
      BY <1>3, <2>3 DEF BootNext, BootStep, VerifyCleanTarget, AcquireBootLock, Commit,
           VerifyFingerprint, ReleaseBootLock, VerifyNoResidualState, Cleanup, CrashBoot,
           Block, BlockAtOnce, Admit
    <2>4. QED
      BY <2>1, <2>2, <2>3
  <1>4. CASE step'[b] = step[b] /\ PinOnlyLost(b)
    BY <1>2, <1>4
  <1>5. QED
    BY <1>3, <1>4, BootBystander

\* Every row has a checksum.
LEMMA RowHasChecksum ==
  ASSUME DatabaseTypeOK, NEW i \in Ids, ledger[i] # NoRow
  PROVE  ledger[i].checksum \in Checksums
  BY DEF DatabaseTypeOK, Rows

\* Each row is the next of its writer's manifest.
LEMMA NextLedgerIsPrefix ==
  ASSUME TypeOK, LockInv, LedgerInv, [Next]_vars
  PROVE  LedgerIsPrefix'
  <1>1. \A c : ManifestOf(c)' = ManifestOf(c)
    BY InputStays DEF ManifestOf, Manifest
  <1> SUFFICES ASSUME NEW i \in Ids, ledger'[i] # NoRow
               PROVE  LET man == ManifestOf(ledger'[i].by) IN
                      /\ ledger'[i].checksum = man[i]
                      /\ \A j \in 1..i :
                           /\ man[j] # "none" <=> ledger'[j] # NoRow
                           /\ ledger'[j] # NoRow => ledger'[j].checksum = man[j]
    BY <1>1 DEF LedgerIsPrefix, Recorded
  <1>2. CASE /\ ledger[i] # NoRow
             /\ \A j \in 1..i : ledger'[j] = ledger[j]
    BY <1>2 DEF LedgerInv, LedgerIsPrefix, Recorded, Ids
  <1>3. ASSUME NEW r \in Runs, Appends(r)
        PROVE  LET man == ManifestOf(ledger'[i].by) IN
               /\ ledger'[i].checksum = man[i]
               /\ \A j \in 1..i :
                    /\ man[j] # "none" <=> ledger'[j] # NoRow
                    /\ ledger'[j] # NoRow => ledger'[j].checksum = man[j]
    <2>1. ledger \in [Ids -> Rows] /\ Ids = 1..MaxId /\ MaxId \in Nat
      BY DEF TypeOK, DatabaseTypeOK, Ids
    <2>2. Target(r) \in Ids
      BY MigrationRunnerAssumption DEF TypeOK, RunnerTypeOK, Target
    <2>3. \A j \in Ids : ledger'[j] = IF j = Target(r) THEN Row(r) ELSE ledger[j]
      BY <1>3, <2>1, <2>2 DEF Appends
    <2>4. IsPrefix(ledger, Manifest(r)) /\ IsNext(Target(r), ledger, Manifest(r))
      BY <1>3, AuthorizedIsNext DEF Appends, Authorized
    <2>5. \A j \in Ids : ledger[j] # NoRow =>
             ledger[j].checksum = Manifest(r)[j] /\ Manifest(r)[j] # "none"
      BY <2>4, RowHasChecksum, MigrationDatabaseAssumption DEF IsPrefix, TypeOK
    <2>6. CASE i = Target(r)
      <3>1. ledger'[i].by = r /\ ledger'[i].checksum = Manifest(r)[i]
        BY <2>3, <2>6 DEF Row
      <3>2. Manifest(r)[i] # "none" /\ \A j \in 1..(i - 1) : Manifest(r)[j] # "none" => ledger[j] # NoRow
        BY <2>4, <2>6 DEF IsNext
      <3>3. \A j \in 1..i : j \in Ids /\ (j = i \/ j \in 1..(i - 1))
        BY <2>1
      <3>4. ManifestOf(r) = Manifest(r)
        BY DEF ManifestOf
      <3>5. QED
        BY <2>3, <2>5, <2>6, <3>1, <3>2, <3>3, <3>4
    <2>7. CASE i # Target(r)
      <3>1. ledger[i] # NoRow
        BY <2>3, <2>7
      <3>2. ~(Target(r) \in 1..(i - 1))
        BY <2>4, <3>1 DEF IsPrefix, IsNext
      <3>3. \A j \in 1..i : j \in Ids /\ j # Target(r)
        BY <2>1, <2>2, <2>7, <3>2
      <3>4. QED
        BY <1>2, <2>3, <3>1, <3>3
    <2>8. QED
      BY <2>6, <2>7
  <1>4. ASSUME NEW b \in Boots, Commits(b)
        PROVE  LET man == ManifestOf(ledger'[i].by) IN
               /\ ledger'[i].checksum = man[i]
               /\ \A j \in 1..i :
                    /\ man[j] # "none" <=> ledger'[j] # NoRow
                    /\ ledger'[j] # NoRow => ledger'[j].checksum = man[j]
    <2>1. ledger'[i] = [checksum |-> BootChecksum, by |-> b] /\ i = 1
      BY <1>4 DEF Commits, CommitBootstrap, Recorded, TypeOK, DatabaseTypeOK
    <2>2. ManifestOf(b)[1] = BootChecksum
      BY <2>1, MigrationDatabaseAssumption DEF ManifestOf
    <2>3. BootChecksum # "none"
      BY MigrationDatabaseAssumption, CleanBootstrapAssumption
    <2>4. QED
      BY <2>1, <2>2, <2>3
  <1>5. CASE UNCHANGED ledger
    BY <1>2, <1>5
  <1>6. QED
    BY <1>3, <1>4, <1>5, LedgerStep

-----------------------------------------------------------------------------
(* What runs do and report.                                                *)

\* Only an execution on a live session has an effect.
LEMMA OnlyExecutions ==
  ASSUME TypeOK, [Next]_vars, NEW r \in Runs, effect'[r] # effect[r]
  PROVE  RunNext(r) /\ stage[r] = "EXECUTION" /\ Alive(r)
  <1>1. RunNext(r)
    BY RunBystander DEF RunIsIdle
  <1>2. ExecuteMigration(r)
    BY <1>1 DEF RunNext, RunStep, ValidateSource, AcquireLock, ReadLedger,
         EvaluatePrecondition, EvaluatePostcondition, RecheckLock, AppendLedger,
         ReleaseLock, Crash
  <1>3. QED
    BY <1>1, <1>2 DEF ExecuteMigration

\* A run does not come back to a stage before the end.
LEMMA EndIsEnd ==
  ASSUME TypeOK, [Next]_vars, NEW r \in Runs,
         stage'[r] \in Unexecuted \cup Authorized
  PROVE  stage[r] \in Unexecuted \cup Authorized
  <1> USE DEF Unexecuted, Authorized
  <1>1. CASE RunNext(r)
    <2> USE DEF TypeOK, RunnerTypeOK, Stages
    <2>1. CASE ReleaseLock(r)
      BY <2>1 DEF ReleaseLock, Go
    <2>2. CASE Crash(r)
      BY <2>2 DEF Crash, Go
    <2>3. CASE ~ReleaseLock(r) /\ ~Crash(r)
      BY <1>1, <2>3 DEF RunNext, RunStep, ValidateSource, AcquireLock, ReadLedger,
           EvaluatePrecondition, ExecuteMigration, EvaluatePostcondition, RecheckLock,
           AppendLedger
    <2>4. QED
      BY <2>1, <2>2, <2>3
  <1>2. CASE RunIsIdle(r)
    BY <1>2 DEF RunIsIdle
  <1>3. QED
    BY <1>1, <1>2, RunBystander

\* Rows of a run: it has them for ever, and has one only by an append.
LEMMA RecordedByStep ==
  ASSUME TypeOK, LedgerInv, [Next]_vars, NEW r \in Runs
  PROVE  /\ RecordedBy(r) => RecordedBy(r)'
         /\ RecordedBy(r)' => RecordedBy(r) \/ Appends(r)
  <1>1. ASSUME NEW i \in Ids, ledger[i].by = r
        PROVE  ledger'[i].by = r
    BY <1>1, RowsStay, MigrationDatabaseAssumption DEF NoRow
  <1>2. ASSUME NEW i \in Ids, ledger'[i].by = r, ~(ledger[i].by = r)
        PROVE  Appends(r)
    <2>1. ASSUME NEW q \in Runs, Appends(q)
          PROVE  q = r
      BY <1>2, <2>1 DEF Appends, Row, TypeOK, DatabaseTypeOK
    <2>2. ASSUME NEW b \in Boots, Commits(b)
          PROVE  FALSE
      BY <1>2, <2>2, MigrationDatabaseAssumption
         DEF Commits, CommitBootstrap, TypeOK, DatabaseTypeOK
    <2>3. QED
      BY <1>2, <2>1, <2>2, LedgerStep
  <1>3. QED
    BY <1>1, <1>2 DEF RecordedBy

\* Evidence of success comes from a committed execution.
LEMMA NextExecuted == TypeOK /\ Executed /\ [Next]_vars => Executed'
  <1> DEFINE Done(r) ==
        /\ stage[r] \in Unexecuted => effect[r] = "none" /\ evidence[r].execution = "none"
        /\ evidence[r].execution = "COMMITTED" => effect[r] = "committed"
        /\ stage[r] = "LEDGER_APPEND" => evidence[r].execution = "COMMITTED"
  <1> SUFFICES ASSUME TypeOK, Executed, [Next]_vars, NEW r \in Runs
               PROVE  Done(r)'
    BY DEF Executed
  <1>0. Done(r)
    BY DEF Executed
  <1>1. /\ stage \in [Runs -> Stages] /\ effect \in [Runs -> {"none", "committed", "partial"}]
        /\ evidence \in [Runs -> Evidence]
    BY DEF TypeOK, RunnerTypeOK
  <1>2. CASE RunIsIdle(r)
    BY <1>0, <1>2 DEF RunIsIdle
  <1>3. CASE RunNext(r)
    <2> USE DEF Unexecuted, Go
    <2>1. CASE ValidateSource(r)
      BY <1>0, <1>1, <2>1 DEF ValidateSource, BlockBeforeLock
    <2>2. CASE AcquireLock(r)
      BY <1>0, <1>1, <2>2 DEF AcquireLock, BlockBeforeLock
    <2>3. CASE ReadLedger(r)
      BY <1>0, <1>1, <2>3 DEF ReadLedger, Leave
    <2>4. CASE EvaluatePrecondition(r)
      BY <1>0, <1>1, <2>4 DEF EvaluatePrecondition, Preflight, Leave
    <2>5. CASE ExecuteMigration(r)
      <3>1. stage[r] = "EXECUTION" /\ evidence[r].execution = "none"
        BY <1>0, <2>5 DEF ExecuteMigration
      <3>2. ASSUME NEW o, Answer(r, o)
            PROVE  stage'[r] = "POSTCONDITION" /\ evidence'[r].execution = o
        BY <1>1, <3>2 DEF Answer
      <3>3. CASE Effect(r, "committed") /\ Answer(r, "COMMITTED")
        BY <1>1, <3>2, <3>3 DEF Effect
      <3>4. CASE \E o \in {"ROLLED_BACK", "PARTIAL", "UNKNOWN"} : Answer(r, o)
        BY <3>2, <3>4
      <3>5. CASE Leave(r, "COMPLETION_BLOCKED", executionRecovery(r)) /\ UNCHANGED evidence
        BY <1>1, <3>1, <3>5 DEF Leave
      <3>6. QED
        BY <2>5, <3>3, <3>4, <3>5 DEF ExecuteMigration
    <2>6. CASE EvaluatePostcondition(r)
      <3>1. evidence'[r].execution = evidence[r].execution
        BY <1>1, <2>6 DEF EvaluatePostcondition
      <3>2. effect'[r] = effect[r] /\ stage'[r] \in {"LOCK_RECHECK", "LOCK_RELEASE"}
        BY <1>1, <2>6 DEF EvaluatePostcondition, Leave
      <3>3. QED
        BY <1>0, <3>1, <3>2
    <2>7. CASE RecheckLock(r)
      BY <1>0, <1>1, <2>7 DEF RecheckLock, Complete, Leave
    <2>8. CASE AppendLedger(r)
      BY <1>0, <1>1, <2>8 DEF AppendLedger, Leave
    <2>9. CASE ReleaseLock(r)
      BY <1>0, <1>1, <2>9 DEF ReleaseLock
    <2>10. CASE Crash(r)
      BY <1>0, <1>1, <2>10 DEF Crash
    <2>11. QED
      BY <1>3, <2>1, <2>2, <2>3, <2>4, <2>5, <2>6, <2>7, <2>8, <2>9, <2>10
         DEF RunNext, RunStep
  <1>4. QED
    BY <1>2, <1>3, RunBystander

\* A run has no row before it appends one.
LEMMA NextRecordedLate ==
  ASSUME TypeOK, LedgerInv, RecordedLate, [Next]_vars
  PROVE  RecordedLate'
  <1> SUFFICES ASSUME NEW r \in Runs, stage'[r] \in Unexecuted \cup Authorized
               PROVE  ~RecordedBy(r)'
    BY DEF RecordedLate
  <1>1. ~RecordedBy(r)
    BY EndIsEnd DEF RecordedLate
  <1>2. ~Appends(r)
    BY DEF Appends, Unexecuted, Authorized
  <1>3. QED
    BY <1>1, <1>2, RecordedByStep

\* Who has a row has committed, and does not execute again.
LEMMA NextRecordedWasApplied ==
  ASSUME TypeOK, LedgerInv, Executed, RecordedLate, RecordedWasApplied, [Next]_vars
  PROVE  RecordedWasApplied'
  <1> SUFFICES ASSUME NEW i \in Ids, ledger'[i] # NoRow
               PROVE  IF ledger'[i].by \in Runs
                      THEN /\ Target(ledger'[i].by) = i
                           /\ effect'[ledger'[i].by] = "committed"
                      ELSE i = 1 /\ committed'[ledger'[i].by]
    BY InputStays DEF RecordedWasApplied, Recorded, Target
  <1>2. CASE ledger[i] # NoRow
    <2>1. ledger'[i] = ledger[i] /\ ledger[i].by \in Clients
      BY <1>2, RowsStay DEF TypeOK, DatabaseTypeOK, Rows
    <2>2. CASE ledger[i].by \in Runs
      <3>1. PICK r \in Runs : ledger[i].by = r
        BY <2>2
      <3>2. Target(r) = i /\ effect[r] = "committed"
        BY <1>2, <3>1 DEF RecordedWasApplied, Recorded
      <3>3. stage[r] # "EXECUTION"
        BY <3>1 DEF RecordedLate, RecordedBy, Unexecuted
      <3>4. effect'[r] = "committed"
        BY <3>2, <3>3, OnlyExecutions
      <3>5. QED
        BY <2>1, <3>1, <3>2, <3>4
    <2>3. CASE ledger[i].by \notin Runs
      <3>1. PICK b \in Boots : ledger[i].by = b
        BY <2>1, <2>3
      <3>2. i = 1 /\ committed[b]
        BY <1>2, <2>3, <3>1 DEF RecordedWasApplied, Recorded
      <3>3. committed'[b]
        BY <3>2, BootBystander, BootFrame DEF BootNext, TypeOK
      <3>4. QED
        BY <2>1, <2>3, <3>1, <3>2, <3>3
    <2>4. QED
      BY <2>2, <2>3
  <1>3. CASE ledger[i] = NoRow
    <2>1. ASSUME NEW r \in Runs, Appends(r)
          PROVE  ledger'[i].by = r /\ Target(r) = i /\ effect'[r] = "committed"
      <3>1. ledger'[i].by = r /\ Target(r) = i
        BY <1>3, <2>1 DEF Appends, Row, TypeOK, DatabaseTypeOK
      <3>2. effect[r] = "committed" /\ stage[r] = "LEDGER_APPEND"
        BY <2>1 DEF Appends, Executed
      <3>3. QED
        BY <3>1, <3>2, OnlyExecutions
    <2>2. ASSUME NEW b \in Boots, Commits(b)
          PROVE  ledger'[i].by = b /\ b \notin Runs /\ i = 1 /\ committed'[b]
      <3>1. ledger'[i].by = b /\ i = 1
        BY <1>3, <2>2 DEF Commits, CommitBootstrap, TypeOK, DatabaseTypeOK
      <3>2. committed'[b]
        BY <2>2 DEF Commits, CommitBootstrap, TypeOK, BootTypeOK
      <3>3. QED
        BY <3>1, <3>2, MigrationDatabaseAssumption
    <2>3. QED
      BY <1>3, <2>1, <2>2, LedgerStep
  <1>4. QED
    BY <1>2, <1>3

\* A run that is not at its end tells the truth by reporting a block before its
\* migration, a completion that failed after it, or its row.
LEMMA RunReports ==
  ASSUME TypeOK, SeenStays, Executed, RecordedLate, NEW r \in Runs, RunNext(r),
         stage'[r] \in Reported, stage[r] # "LOCK_RELEASE"
  PROVE  LET did == report'[r].outcome IN
         \/ did = "BLOCKED_BEFORE_EXECUTION" /\ stage[r] \in Unexecuted \ {"EXECUTION"}
         \/ /\ did = "NOOP_ALREADY_APPLIED" /\ stage[r] = "PRECONDITION"
            /\ ledger[Target(r)] # NoRow
            /\ ledger[Target(r)].checksum = Row(r).checksum
         \/ /\ did = "COMPLETION_BLOCKED" /\ report'[r].recovery # "NO_RECOVERY_ACTION"
            /\ stage[r] \in Authorized \ {"LEDGER_APPEND"}
         \/ did = "EXECUTED_AND_RECORDED" /\ Appends(r)
         \/ /\ did = "LEDGER_APPEND_FAILED" /\ report'[r].recovery # "NO_RECOVERY_ACTION"
            /\ stage[r] = "LEDGER_APPEND"
  <1> USE DEF Reported, Unexecuted, Authorized
  <1>1. stage \in [Runs -> Stages] /\ report \in [Runs -> Reports]
    BY DEF TypeOK, RunnerTypeOK
  <1>2. ASSUME NEW o, NEW q, Report(r, o, q)
        PROVE  report'[r].outcome = o /\ report'[r].recovery = q
    BY <1>1, <1>2 DEF Report
  <1>3. ASSUME NEW o, NEW q, Leave(r, o, q)
        PROVE  report'[r].outcome = o /\ report'[r].recovery = q
    BY <1>2, <1>3 DEF Leave
  <1>4. ASSUME NEW s \in Stages, Go(r, s)
        PROVE  stage'[r] = s
    BY <1>1, <1>4 DEF Go
  <1>5. CASE ValidateSource(r) \/ AcquireLock(r)
    <2>1. stage'[r] # "LOCK_ACQUIRE" /\ stage'[r] # "LEDGER_READ"
      OBVIOUS
    <2>2. BlockBeforeLock(r) /\ stage[r] \in {"SOURCE_VALIDATION", "LOCK_ACQUIRE"}
      BY <1>4, <1>5, <2>1 DEF ValidateSource, AcquireLock, Stages
    <2>3. QED
      BY <1>2, <2>2 DEF BlockBeforeLock
  <1>6. CASE ReadLedger(r)
    <2>1. Leave(r, "BLOCKED_BEFORE_EXECUTION", "NO_RECOVERY_ACTION") /\ stage[r] = "LEDGER_READ"
      BY <1>4, <1>6 DEF ReadLedger, Stages
    <2>2. QED
      BY <1>3, <2>1
  <1>7. CASE EvaluatePrecondition(r)
    <2>1. PICK precondition : Preflight(r, precondition)
      BY <1>7 DEF EvaluatePrecondition
    <2>2. stage[r] = "PRECONDITION" /\ ~Go(r, "EXECUTION")
      BY <1>4, <1>7 DEF EvaluatePrecondition, Stages
    <2>3. CASE IsPrefix(seen[r], Manifest(r)) /\ seen[r][Target(r)] # NoRow
               /\ Leave(r, "NOOP_ALREADY_APPLIED", "NO_RECOVERY_ACTION")
      <3>1. Target(r) \in Ids
        BY MigrationRunnerAssumption DEF TypeOK, RunnerTypeOK, Target
      <3>2. seen[r][Target(r)].checksum = Row(r).checksum
        BY <2>3, <3>1 DEF IsPrefix, Row
      <3>3. ledger[Target(r)] = seen[r][Target(r)]
        BY <2>3, <3>1 DEF SeenStays
      <3>4. QED
        BY <1>3, <2>2, <2>3, <3>2, <3>3
    <2>4. CASE \E q : Leave(r, "BLOCKED_BEFORE_EXECUTION", q)
      BY <1>3, <2>2, <2>4
    <2>5. QED
      BY <2>1, <2>2, <2>3, <2>4 DEF Preflight
  <1>8. CASE ExecuteMigration(r) \/ EvaluatePostcondition(r)
    <2>1. executionRecovery(r) # "NO_RECOVERY_ACTION"
      BY DEF executionRecovery
    <2>2. ~Go(r, "LOCK_RECHECK") /\ \A o : ~Answer(r, o)
      BY <1>4 DEF Answer, Stages
    <2>3. stage[r] \in {"EXECUTION", "POSTCONDITION"}
          /\ Leave(r, "COMPLETION_BLOCKED", executionRecovery(r))
      BY <1>8, <2>2 DEF ExecuteMigration, EvaluatePostcondition
    <2>4. QED
      BY <1>3, <2>1, <2>3
  <1>9. CASE RecheckLock(r)
    <2>1. completionRecovery(r) # "NO_RECOVERY_ACTION"
      BY DEF completionRecovery, executionRecovery
    <2>2. ~Go(r, "LEDGER_APPEND")
      BY <1>4 DEF Stages
    <2>3. stage[r] = "LOCK_RECHECK" /\ Leave(r, "COMPLETION_BLOCKED", completionRecovery(r))
      BY <1>9, <2>2 DEF RecheckLock, Complete
    <2>4. QED
      BY <1>3, <2>1, <2>3
  <1>10. CASE AppendLedger(r)
    <2>1. stage[r] = "LEDGER_APPEND"
      BY <1>10 DEF AppendLedger
    <2>2. CASE Leave(r, "LEDGER_APPEND_FAILED", "MANUAL_RECONCILIATION_REQUIRED")
      BY <1>3, <2>1, <2>2
    <2>3. CASE /\ Alive(r) /\ ledger[Target(r)] = NoRow /\ AppendRow(Target(r), Row(r))
               /\ report' = [report EXCEPT ![r] =
                    [outcome |-> "EXECUTED_AND_RECORDED",
                     recovery |-> "NO_RECOVERY_ACTION", appended |-> TRUE]]
               /\ Go(r, "LOCK_RELEASE")
      <3>1. report'[r].outcome = "EXECUTED_AND_RECORDED"
        BY <1>1, <2>3
      <3>2. ledger' = [ledger EXCEPT ![Target(r)] = Row(r)] /\ stage'[r] = "LOCK_RELEASE"
        BY <1>4, <2>3 DEF AppendRow, Stages
      <3>3. QED
        BY <2>1, <2>3, <3>1, <3>2 DEF Appends
    <2>4. QED
      BY <1>10, <2>2, <2>3 DEF AppendLedger
  <1>11. CASE ReleaseLock(r)
    BY <1>11 DEF ReleaseLock
  <1>12. CASE Crash(r)
    BY <1>4, <1>12 DEF Crash, Stages
  <1>13. QED
    BY <1>5, <1>6, <1>7, <1>8, <1>9, <1>10, <1>11, <1>12 DEF RunNext, RunStep

\* The release of the lock leaves the report as it is, or makes it a failed release
\* that asks for reconciliation.
LEMMA ReleaseReports ==
  ASSUME TypeOK, NEW r \in Runs, RunNext(r), stage[r] = "LOCK_RELEASE",
         stage'[r] \in Reported
  PROVE  \/ report'[r] = report[r]
         \/ /\ report'[r].outcome = "LOCK_RELEASE_FAILED"
            /\ report'[r].recovery # "NO_RECOVERY_ACTION"
  <1>1. report \in [Runs -> Reports]
    BY DEF TypeOK, RunnerTypeOK
  <1>2. ReleaseLock(r) \/ Crash(r)
    BY DEF RunNext, RunStep, ValidateSource, AcquireLock, ReadLedger,
       EvaluatePrecondition, ExecuteMigration, EvaluatePostcondition, RecheckLock, AppendLedger
  <1>3. QED
    BY <1>1, <1>2 DEF ReleaseLock, Crash, Report

\* An append is claimed where one was made.
LEMMA AppendedStep ==
  ASSUME TypeOK, NEW r \in Runs, RunNext(r), report'[r].appended
  PROVE  report[r].appended \/ Appends(r)
  <1>1. stage \in [Runs -> Stages] /\ report \in [Runs -> Reports]
    BY DEF TypeOK, RunnerTypeOK
  <1>2. ASSUME NEW o, NEW q, Report(r, o, q)
        PROVE  report'[r].appended = report[r].appended
    BY <1>1, <1>2 DEF Report
  <1>3. CASE AppendLedger(r)
    <2>1. CASE Leave(r, "LEDGER_APPEND_FAILED", "MANUAL_RECONCILIATION_REQUIRED")
      BY <1>2, <2>1 DEF Leave
    <2>2. CASE /\ Alive(r) /\ ledger[Target(r)] = NoRow /\ AppendRow(Target(r), Row(r))
               /\ Go(r, "LOCK_RELEASE")
      <3>1. ledger' = [ledger EXCEPT ![Target(r)] = Row(r)] /\ stage'[r] = "LOCK_RELEASE"
        BY <1>1, <2>2 DEF AppendRow, Go
      <3>2. QED
        BY <1>3, <2>2, <3>1 DEF Appends, AppendLedger
    <2>3. QED
      BY <1>3, <2>1, <2>2 DEF AppendLedger
  <1>4. CASE UNCHANGED report \/ \E o, q : Report(r, o, q)
    BY <1>2, <1>4
  <1>5. CASE ~AppendLedger(r)
    BY <1>4, <1>5 DEF RunNext, RunStep, ValidateSource, BlockBeforeLock, AcquireLock,
         ReadLedger, EvaluatePrecondition, Preflight, ExecuteMigration, Answer,
         EvaluatePostcondition, RecheckLock, Complete, ReleaseLock, Crash, Leave
  <1>6. QED
    BY <1>3, <1>5

\* Reports stay true: of rows that stay, and of a run that does nothing after them.
LEMMA NextReportedTruth ==
  ASSUME TypeOK, LedgerInv, RunInv, [Next]_vars
  PROVE  ReportedTruth'
  <1> USE DEF RunInv
  <1> SUFFICES ASSUME NEW r \in Runs
               PROVE  /\ stage'[r] \in Reported => Truth(r)'
                      /\ report'[r].appended => RecordedBy(r)'
    BY DEF ReportedTruth
  <1>1. Target(r)' = Target(r) /\ Row(r)' = Row(r) /\ Target(r) \in Ids
    BY InputStays, MigrationRunnerAssumption
       DEF Target, Row, Manifest, TypeOK, RunnerTypeOK
  <1>2. ASSUME Appends(r)
        PROVE  RecordedBy(r)'
    <2>1. ledger'[Target(r)] = Row(r)
      BY <1>1, <1>2 DEF Appends, TypeOK, DatabaseTypeOK
    <2>2. QED
      BY <1>1, <2>1 DEF RecordedBy, Row
  <1>3. ASSUME report'[r].appended
        PROVE  RecordedBy(r)'
    BY <1>2, <1>3, AppendedStep, RunBystander, RecordedByStep DEF ReportedTruth, RunIsIdle
  <1>4. ASSUME ledger[Target(r)] # NoRow
        PROVE  ledger'[Target(r)] = ledger[Target(r)]
    BY <1>1, <1>4, RowsStay
  <1>5. ASSUME stage[r] \in Reported, report'[r] = report[r]
        PROVE  Truth(r)'
    <2>1. Truth(r) /\ stage[r] # "EXECUTION" /\ ~Appends(r)
      BY <1>5 DEF ReportedTruth, Reported, Appends
    <2>2. effect'[r] = effect[r]
      BY <2>1, OnlyExecutions
    <2>3. RecordedBy(r)' <=> RecordedBy(r)
      BY <2>1, RecordedByStep
    <2>4. QED
      BY <1>1, <1>4, <1>5, <2>1, <2>2, <2>3 DEF Truth
  <1>6. ASSUME stage'[r] \in Reported, RunNext(r)
        PROVE  Truth(r)'
    <2>1. CASE stage[r] = "LOCK_RELEASE"
      <3>1. CASE report'[r] = report[r]
        BY <1>5, <2>1, <3>1 DEF Reported
      <3>2. CASE /\ report'[r].outcome = "LOCK_RELEASE_FAILED"
                 /\ report'[r].recovery # "NO_RECOVERY_ACTION"
        BY <3>2 DEF Truth
      <3>3. QED
        BY <1>6, <2>1, <3>1, <3>2, ReleaseReports
    <2>2. CASE stage[r] # "LOCK_RELEASE"
      <3>1. CASE /\ report'[r].outcome = "BLOCKED_BEFORE_EXECUTION"
                 /\ stage[r] \in Unexecuted \ {"EXECUTION"}
        <4>1. effect'[r] = "none"
          BY <3>1, OnlyExecutions DEF Executed
        <4>2. QED
          BY <3>1, <4>1 DEF Truth
      <3>2. CASE /\ report'[r].outcome = "NOOP_ALREADY_APPLIED"
                 /\ stage[r] = "PRECONDITION"
                 /\ ledger[Target(r)] # NoRow
                 /\ ledger[Target(r)].checksum = Row(r).checksum
        <4>1. effect'[r] = "none"
          BY <3>2, OnlyExecutions DEF Executed, Unexecuted
        <4>2. QED
          BY <1>1, <1>4, <3>2, <4>1 DEF Truth
      <3>3. CASE /\ report'[r].outcome = "COMPLETION_BLOCKED"
                 /\ report'[r].recovery # "NO_RECOVERY_ACTION"
                 /\ stage[r] \in Authorized \ {"LEDGER_APPEND"}
        <4>1. ~RecordedBy(r)'
          BY <3>3, RecordedByStep DEF RecordedLate, Authorized, Appends
        <4>2. QED
          BY <3>3, <4>1 DEF Truth
      <3>4. CASE report'[r].outcome = "EXECUTED_AND_RECORDED" /\ Appends(r)
        <4>1. effect'[r] = "committed"
          BY <3>4, OnlyExecutions DEF Appends, Executed
        <4>2. QED
          BY <1>2, <3>4, <4>1 DEF Truth
      <3>5. CASE /\ report'[r].outcome = "LEDGER_APPEND_FAILED"
                 /\ report'[r].recovery # "NO_RECOVERY_ACTION"
                 /\ stage[r] = "LEDGER_APPEND"
        <4>1. effect'[r] = "committed"
          BY <3>5, OnlyExecutions DEF Executed
        <4>2. QED
          BY <3>5, <4>1 DEF Truth
      <3>6. QED
        BY <1>6, <2>2, <3>1, <3>2, <3>3, <3>4, <3>5, RunReports DEF LedgerInv
    <2>3. QED
      BY <2>1, <2>2
  <1>7. ASSUME stage'[r] \in Reported
        PROVE  Truth(r)'
    <2>1. CASE RunIsIdle(r)
      BY <1>5, <1>7, <2>1 DEF RunIsIdle
    <2>2. QED
      BY <1>6, <1>7, <2>1, RunBystander
  <1>8. QED
    BY <1>3, <1>7

-----------------------------------------------------------------------------
(* Migrations that tell whether they are in effect.                        *)

\* What a run that may execute found not to be in effect is not: nobody else executes.
LEMMA NextUnapplied ==
  ASSUME TypeOK, LockInv, Unapplied, [Next]_vars
  PROVE  Unapplied'
  <1> SUFFICES ASSUME NEW r \in Runs, stage'[r] = "EXECUTION", Alive(r)',
                      Target(r) \in Guarded,
                      NEW q \in Runs, Target(q) = Target(r)
               PROVE  effect'[q] # "committed"
    BY InputStays DEF Unapplied, Applied, Target
  <1>1. CASE RunNext(r)
    <2>1. stage[r] = "PRECONDITION"
      BY <1>1, RunAdvances
    <2>2. EvaluatePrecondition(r) \/ Crash(r)
      BY <1>1, <2>1 DEF RunNext, RunStep, ValidateSource, AcquireLock, ReadLedger,
           ExecuteMigration, EvaluatePostcondition, RecheckLock, AppendLedger, ReleaseLock
    <2>3. EvaluatePrecondition(r)
      BY <2>2 DEF Crash, Go, TypeOK, RunnerTypeOK
    <2>4. ASSUME NEW precondition, Preflight(r, precondition)
          PROVE  precondition = "PASS"
      BY <2>4 DEF Preflight, Leave, Go, TypeOK, RunnerTypeOK
    <2>5. ~Applied(Target(r)) /\ effect' = effect
      BY <2>3, <2>4 DEF EvaluatePrecondition
    <2>6. QED
      BY <2>5 DEF Applied
  <1>2. CASE RunIsIdle(r) /\ PinOnlyLost(r)
    <2>1. stage[r] = "EXECUTION" /\ Alive(r)
      BY <1>2, MigrationDatabaseAssumption DEF RunIsIdle, PinOnlyLost
    <2>2. effect[q] # "committed" /\ effect[r] # "committed"
      BY <2>1 DEF Unapplied, Applied
    <2>3. CASE effect'[q] = effect[q]
      BY <2>2, <2>3
    <2>4. CASE effect'[q] # effect[q]
      <3>1. stage[q] = "EXECUTION" /\ Alive(q)
        BY <2>4, OnlyExecutions
      <3>2. q = r
        BY <2>1, <3>1, OneEntitled DEF Entitled, Informed, Authorized, TypeOK
      <3>3. QED
        BY <1>2, <2>4, <3>2 DEF RunIsIdle
    <2>5. QED
      BY <2>3, <2>4
  <1>3. QED
    BY <1>1, <1>2, RunBystander

\* Two runs never both apply such a migration.
LEMMA NextAppliedOnce ==
  ASSUME TypeOK, LockInv, Unapplied, AppliedOnce, [Next]_vars
  PROVE  AppliedOnce'
  <1> SUFFICES ASSUME NEW r \in Runs, NEW q \in Runs, r # q, Target(r) = Target(q),
                      Target(r) \in Guarded,
                      effect'[r] = "committed", effect'[q] = "committed"
               PROVE  FALSE
    BY InputStays DEF AppliedOnce, Target
  <1>1. ASSUME NEW x \in Runs, effect'[x] = "committed", effect[x] # "committed",
               Target(x) \in Guarded
        PROVE  stage[x] = "EXECUTION" /\ Alive(x) /\ ~Applied(Target(x))
    BY <1>1, OnlyExecutions DEF Unapplied
  <1>2. CASE effect[r] = "committed" /\ effect[q] = "committed"
    BY <1>2 DEF AppliedOnce
  <1>3. CASE effect[r] = "committed" /\ effect[q] # "committed"
    BY <1>1, <1>3 DEF Applied
  <1>4. CASE effect[r] # "committed" /\ effect[q] = "committed"
    BY <1>1, <1>4 DEF Applied
  <1>5. CASE effect[r] # "committed" /\ effect[q] # "committed"
    BY <1>1, <1>5, OneEntitled DEF Entitled, Informed, Authorized, TypeOK
  <1>6. QED
    BY <1>2, <1>3, <1>4, <1>5

-----------------------------------------------------------------------------
(* The theorems.                                                           *)

\* The invariant holds at the start.
LEMMA InitIInv == Init => IInv
  <1> SUFFICES ASSUME Init
               PROVE  IInv
    OBVIOUS
  <1> USE DEF Init, DatabaseInit, RunnerInit, BootInit
  <1>1. TypeOK
    <2>1. DatabaseTypeOK
      <3>1. 0 \in 0..MaxFaults
        BY MigrationDatabaseAssumption
      <3>2. ledger \in [Ids -> Rows]
        BY DEF Rows
      <3>3. relation \in BOOLEAN /\ session \in [Sessions -> {"idle", "pinned", "orphan"}]
        OBVIOUS
      <3>4. holds \in [Sessions -> Nat] /\ pin \in [Clients -> Sessions \cup {"none", "dead"}]
        OBVIOUS
      <3>5. QED
        BY <3>1, <3>2, <3>3, <3>4 DEF DatabaseTypeOK
    <2>2. RunnerTypeOK
      BY DEF RunnerTypeOK, Stages, Evidence, Reports, Outcomes, Recoveries, Rows
    <2>3. BootTypeOK
      BY DEF BootTypeOK, Steps, Verdicts
    <2>4. QED
      BY <2>1, <2>2, <2>3 DEF TypeOK
  <1>2. LockInv
    BY DEF LockInv, PinsAreDistinct, PinsAreLent, OneHolder, EntitledHold
  <1>3. LedgerInv
    BY DEF LedgerInv, SeenStays, SeenIsLedger, SeenAuthorizes, BootIsFirst,
       LedgerIsPrefix, Recorded, Informed, Authorized
  <1>4. Recorded = {} /\ \A r \in Runs : ~RecordedBy(r)
    BY DEF Recorded, RecordedBy, NoRow
  <1>5. RunInv
    BY <1>4 DEF RunInv, Executed, RecordedLate, RecordedWasApplied, ReportedTruth, Reported
  <1>6. Unapplied /\ AppliedOnce
    BY DEF Unapplied, AppliedOnce
  <1>7. QED
    BY <1>1, <1>2, <1>3, <1>5, <1>6 DEF IInv

\* And every step preserves it.
LEMMA NextIInv == IInv /\ [Next]_vars => IInv'
  <1> SUFFICES ASSUME IInv, [Next]_vars
               PROVE  IInv'
    OBVIOUS
  <1> USE DEF IInv
  <1>1. TypeOK' /\ LockInv'
    BY NextTypeOK, NextLockInv DEF LedgerInv
  <1>2. LedgerInv'
    BY NextSeenStays, NextSeenIsLedger, NextSeenAuthorizes, NextBootIsFirst,
       NextLedgerIsPrefix DEF LedgerInv
  <1>3. RunInv'
    BY NextExecuted, NextRecordedLate, NextRecordedWasApplied, NextReportedTruth DEF RunInv
  <1>4. Unapplied' /\ AppliedOnce'
    BY NextUnapplied, NextAppliedOnce
  <1>5. QED
    BY <1>1, <1>2, <1>3, <1>4

\* The inductive invariant of the specification.
THEOREM MigrationInvariant == Spec => []IInv
  BY InitIInv, NextIInv, PTL DEF Spec

\* Type correctness.
THEOREM MigrationTypeCorrect == Spec => []TypeOK
  <1>1. IInv => TypeOK
    BY DEF IInv
  <1>2. QED
    BY <1>1, MigrationInvariant, PTL

\* Runs of any deployments, and bootstraps, with lost connections, lost answers and
\* crashes, append to the ledger in the order of their manifests and with the
\* contents they list: the lock is held from the read of the ledger to the append.
THEOREM LedgersArePrefixes == Spec => []LedgerIsPrefix
  <1>1. IInv => LedgerIsPrefix
    BY DEF IInv, LedgerInv
  <1>2. QED
    BY <1>1, MigrationInvariant, PTL

\* The ledger lists no migration that its writer has not applied.
THEOREM RecordsAreApplied == Spec => []RecordedWasApplied
  <1>1. IInv => RecordedWasApplied
    BY DEF IInv, RunInv
  <1>2. QED
    BY <1>1, MigrationInvariant, PTL

\* A migration whose precondition tells that it is in effect is applied once, though
\* its first run died before it recorded it.
THEOREM GuardedAreAppliedOnce == Spec => []AppliedOnce
  <1>1. IInv => AppliedOnce
    BY DEF IInv
  <1>2. QED
    BY <1>1, MigrationInvariant, PTL

\* A run that ends reports what it did.
THEOREM ReportsAreTrue == Spec => []RunsTellTruth
  <1>1. IInv => RunsTellTruth
    <2>1. ASSUME IInv, NEW r \in Runs, stage[r] = "COMPLETED"
          PROVE  Truth(r) /\ (report[r].appended => RecordedBy(r))
      BY <2>1 DEF IInv, RunInv, ReportedTruth, Reported
    <2>2. QED
      BY <2>1, ZenonT(30) DEF RunsTellTruth, Truth
  <1>2. QED
    BY <1>1, MigrationInvariant, PTL

\* No run executes a migration that the ledger lists.
THEOREM RecordedAreNotReapplied == Spec => NoReapply
  <1> DEFINE Fresh == \A r \in Runs : effect[r] = "none" /\ effect'[r] # "none" =>
                        ledger[Target(r)] = NoRow
  <1>1. IInv /\ [Next]_vars => [Fresh]_vars
    <2> SUFFICES ASSUME IInv, [Next]_vars, NEW r \in Runs, effect'[r] # effect[r]
                 PROVE  ledger[Target(r)] = NoRow
      OBVIOUS
    <2> QED
      BY OnlyExecutions, AuthorizedIsNext DEF IInv, Authorized
  <1>2. QED
    BY <1>1, MigrationInvariant, PTL DEF Spec, NoReapply
=============================================================================
