--------------------------- MODULE CleanBootstrap ---------------------------
(***************************************************************************)
(* runBootstrap: creates the ledger table and its first row in one         *)
(* transaction under the migration lock, verifies what it committed, and   *)
(* reports.  The dependencies that verify are injected and tell the truth  *)
(* or throw.                                                               *)
(*                                                                         *)
(* Source: src/scripts/migration-clean-bootstrap-orchestrator-core.cjs.    *)
(***************************************************************************)
EXTENDS MigrationDatabase

CONSTANT BootChecksum \* of the committed bootstrap migration, whose id is 1

ASSUME CleanBootstrapAssumption == BootChecksum \in Checksums /\ MaxId > 0

VARIABLES
  step,      \* what a bootstrap does next
  committed, \* its COMMIT took effect
  verdict    \* outcome and ledgerAppended

bootVars == <<step, committed, verdict>>

Steps == {"verifyCleanTarget", "acquire", "write", "recheck", "commit",
          "fingerprint", "release", "residual", "cleanup", "done", "crashed"}

Verdicts == [outcome : {"none", "BOOTSTRAPPED", "BLOCKED_BEFORE_COMMIT",
                        "COMMITTED_POST_VERIFICATION_FAILED"},
             ledgerAppended : BOOLEAN]

BootTypeOK ==
  /\ step \in [Boots -> Steps]
  /\ committed \in [Boots -> BOOLEAN]
  /\ verdict \in [Boots -> Verdicts]

BootInit ==
  /\ step = [b \in Boots |-> "verifyCleanTarget"]
  /\ committed = [b \in Boots |-> FALSE]
  /\ verdict = [b \in Boots |-> [outcome |-> "none", ledgerAppended |-> FALSE]]

-----------------------------------------------------------------------------
Does(b, s) == step[b] = s
Then(b, s) == step' = [step EXCEPT ![b] = s]

Conclude(b, outcome, appended) ==
  verdict' = [verdict EXCEPT ![b] = [outcome |-> outcome, ledgerAppended |-> appended]]

\* `catch` before COMMIT has returned, then `finally`.
Block(b) == Conclude(b, "BLOCKED_BEFORE_COMMIT", FALSE) /\ Then(b, "cleanup")

\* ... when there is no lock to release.
BlockAtOnce(b) == Conclude(b, "BLOCKED_BEFORE_COMMIT", FALSE) /\ Then(b, "done")

\* `catch` after COMMIT has returned.
Admit(b, next) == Conclude(b, "COMMITTED_POST_VERIFICATION_FAILED", TRUE) /\ Then(b, next)

\* The target is clean while no ledger table exists.  This is asked before the lock
\* is taken, on the session that will take it.
VerifyCleanTarget(b) ==
  /\ Does(b, "verifyCleanTarget")
  /\ \/ /\ \E s \in Idle : Lend(b, s)
        /\ ~relation
        /\ Then(b, "acquire")
        /\ UNCHANGED <<faults, verdict>>
     \/ /\ ((relation \/ Idle = {}) /\ UNCHANGED faults) \/ Fault
        /\ BlockAtOnce(b)
        /\ UNCHANGED <<session, pin>>
  /\ UNCHANGED <<tables, holds, committed>>

AcquireBootLock(b) ==
  /\ Does(b, "acquire")
  /\ \/ /\ Answered(b) /\ Grantable(pin[b])
        /\ holds' = [holds EXCEPT ![pin[b]] = @ + 1]
        /\ Then(b, "write")
        /\ UNCHANGED <<session, pin, verdict>>
     \/ /\ \/ Answered(b) /\ ~Grantable(pin[b]) /\ UNCHANGED holds
           \/ Throws(b) /\ UNCHANGED holds
           \/ /\ ThrowsAfterwards(b) /\ Grantable(pin[b])
              /\ holds' = [holds EXCEPT ![pin[b]] = @ + 1]
        /\ ReturnSession(b)
        /\ BlockAtOnce(b)
  /\ UNCHANGED <<tables, committed>>

InTransaction(b) == Alive(b) /\ step[b] \in {"recheck", "commit"}

\* BEGIN, the committed SQL, the ledger row and the checks on it: the row must be
\* new and the only one.  An open transaction of another bootstrap is waited for.
Write(b) ==
  /\ Does(b, "write")
  /\ \/ /\ Answered(b)
        /\ \A d \in Boots \ {b} : ~InTransaction(d)
        /\ IF Recorded = {} THEN Then(b, "recheck") /\ UNCHANGED verdict ELSE Block(b)
     \/ Throws(b) /\ Block(b)
  /\ UNCHANGED <<tables, lockVars, committed>>

RecheckBootLock(b) ==
  /\ Does(b, "recheck")
  /\ \/ /\ Answered(b)
        /\ IF LockHeld(b) THEN Then(b, "commit") /\ UNCHANGED verdict ELSE Block(b)
     \/ Throws(b) /\ Block(b)
  /\ UNCHANGED <<tables, lockVars, committed>>

CommitBootstrap(b) ==
  /\ relation' = TRUE
  /\ ledger' = [ledger EXCEPT ![1] = [checksum |-> BootChecksum, by |-> b]]
  /\ committed' = [committed EXCEPT ![b] = TRUE]

\* A COMMIT that throws counts as not committed, whatever the server has done.
Commit(b) ==
  /\ Does(b, "commit")
  /\ \/ Answered(b) /\ CommitBootstrap(b) /\ Then(b, "fingerprint") /\ UNCHANGED verdict
     \/ Throws(b) /\ Block(b) /\ UNCHANGED <<tables, committed>>
     \/ ThrowsAfterwards(b) /\ CommitBootstrap(b) /\ Block(b)
  /\ UNCHANGED lockVars

\* verifyCatalogFingerprint has a connection of its own.
VerifyFingerprint(b) ==
  /\ Does(b, "fingerprint")
  /\ \/ Then(b, "release") /\ UNCHANGED <<faults, verdict>>
     \/ Fault /\ Admit(b, "cleanup")
  /\ UNCHANGED <<tables, lockVars, committed>>

ReleaseBootLock(b) ==
  /\ Does(b, "release")
  /\ \/ LockReleased(b) /\ Then(b, "residual") /\ UNCHANGED verdict
     \/ ReleaseFails(b) /\ Admit(b, "done")
  /\ UNCHANGED <<tables, committed>>

VerifyNoResidualState(b) ==
  /\ Does(b, "residual")
  /\ \/ Conclude(b, "BOOTSTRAPPED", TRUE) /\ Then(b, "done") /\ UNCHANGED faults
     \/ Fault /\ Admit(b, "done")
  /\ UNCHANGED <<tables, lockVars, committed>>

\* ROLLBACK of what is uncommitted, and the release in `finally`, whose result is
\* ignored.
Cleanup(b) ==
  /\ Does(b, "cleanup")
  /\ LockReleased(b) \/ ReleaseFails(b)
  /\ Then(b, "done")
  /\ UNCHANGED <<tables, committed, verdict>>

\* The process dies between two statements.
CrashBoot(b) ==
  /\ step[b] \notin {"verifyCleanTarget", "done", "crashed"}
  /\ Fault
  /\ Abandon(b, "none")
  /\ Then(b, "crashed")
  /\ UNCHANGED <<tables, holds, committed, verdict>>

BootStep(b) ==
  \/ VerifyCleanTarget(b) \/ AcquireBootLock(b) \/ Write(b) \/ RecheckBootLock(b)
  \/ Commit(b) \/ VerifyFingerprint(b) \/ ReleaseBootLock(b)
  \/ VerifyNoResidualState(b) \/ Cleanup(b)
=============================================================================
