-------------------------- MODULE MigrationDatabase --------------------------
(***************************************************************************)
(* What migration runs and bootstraps share: the database's ledger of      *)
(* applied migrations, the pool of PostgreSQL sessions, and the one        *)
(* session-level advisory lock that serialises them.  A client pins a      *)
(* session from the acquisition of the lock to its release and sends every *)
(* statement on it.  A statement may throw without having had an effect,   *)
(* or after it; a connection may be lost, and the session that is left     *)
(* behind keeps its locks until the server notices.                        *)
(*                                                                         *)
(* Source: src/scripts/migration-postgres-session-lock-adapter-core.cjs    *)
(* and src/scripts/migration-postgres-ledger-adapter-core.cjs.             *)
(***************************************************************************)
EXTENDS Integers, FiniteSets

CONSTANTS
  Runs,      \* calls of runCanonicalMigration
  Boots,     \* calls of runBootstrap
  Sessions,  \* connections of the pool
  MaxId,     \* migration ids are 1..MaxId, ordered as the ids in the code are
  Checksums, \* contents a migration file may have
  MaxFaults  \* bound: thrown statements, lost connections and crashes

Clients == Runs \cup Boots

ASSUME MigrationDatabaseAssumption ==
  /\ Runs \cap Boots = {}
  /\ "none" \notin Checksums \cup Clients \cup Sessions
  /\ "dead" \notin Sessions
  /\ {MaxId, MaxFaults} \subseteq Nat

VARIABLES
  relation, \* the ledger table exists
  ledger,   \* the row of each migration id
  session,  \* "idle" in the pool, "pinned" by a client, or an "orphan" of one
  holds,    \* how often a session holds the advisory lock, which is reentrant
  pin,      \* the session a client has pinned: "dead" when its connection is lost
  faults    \* faults so far

tables == <<relation, ledger>>
lockVars == <<session, holds, pin>>
databaseVars == <<relation, ledger, session, holds, pin, faults>>

Ids == 1..MaxId

NoRow == [checksum |-> "none", by |-> "none"]

\* The columns that decide: migration_id, content_checksum, and who appended the
\* row (applied_at, runner_version, deployed_commit).
Rows == {NoRow} \cup [checksum : Checksums, by : Clients]

Recorded == {i \in Ids : ledger[i] # NoRow}

DatabaseTypeOK ==
  /\ relation \in BOOLEAN
  /\ ledger \in [Ids -> Rows]
  /\ session \in [Sessions -> {"idle", "pinned", "orphan"}]
  /\ holds \in [Sessions -> Nat]
  /\ pin \in [Clients -> Sessions \cup {"none", "dead"}]
  /\ faults \in 0..MaxFaults

DatabaseInit ==
  /\ relation = FALSE
  /\ ledger = [i \in Ids |-> NoRow]
  /\ session = [s \in Sessions |-> "idle"]
  /\ holds = [s \in Sessions |-> 0]
  /\ pin = [c \in Clients |-> "none"]
  /\ faults = 0

-----------------------------------------------------------------------------
Alive(c) == pin[c] \in Sessions

Fault == faults < MaxFaults /\ faults' = faults + 1

\* A statement on the pinned session is answered, or throws: on a lost connection,
\* or on a live one after an error or a client-side timeout.
Answered(c) == Alive(c) /\ UNCHANGED faults
Throws(c)   == IF Alive(c) THEN Fault ELSE UNCHANGED faults

\* Throws although the server has executed the statement.
ThrowsAfterwards(c) == Alive(c) /\ Fault

Idle == {s \in Sessions : session[s] = "idle"}

\* Mutant: the lock's keys are taken from the migration, so that two runs may hold
\* a lock each.
GrantableToAll(s) == s \in Sessions

\* pg_try_advisory_lock on session s: its own earlier locks do not matter.
Grantable(s) == \A q \in Sessions \ {s} : holds[q] = 0

Lend(c, s) ==
  /\ session' = [session EXCEPT ![s] = "pinned"]
  /\ pin' = [pin EXCEPT ![c] = s]

\* session.release(): a lost connection is not returned to the pool.
ReturnSession(c) ==
  /\ session' = [s \in Sessions |-> IF s = pin[c] THEN "idle" ELSE session[s]]
  /\ pin' = [pin EXCEPT ![c] = "none"]

Unlock(c) == holds' = [s \in Sessions |-> IF s = pin[c] THEN holds[s] - 1 ELSE holds[s]]

\* acquireAdvisoryLock: openSession and pg_try_advisory_lock, which is granted.
LockGranted(c, s) ==
  /\ s \in Idle /\ Grantable(s)
  /\ Lend(c, s)
  /\ holds' = [holds EXCEPT ![s] = @ + 1]
  /\ UNCHANGED faults

\* Somebody else holds it, no session can be had, or the statement throws first:
\* FAILED or UNAVAILABLE, and the session is back in the pool.
LockRefused ==
  /\ \/ (Idle = {} \/ \E s \in Idle : ~Grantable(s)) /\ UNCHANGED faults
     \/ Fault
  /\ UNCHANGED lockVars

\* The answer is lost after the grant: the session goes back to the pool with the
\* lock.
LockLeaks ==
  /\ Fault
  /\ \E s \in Idle : Grantable(s) /\ holds' = [holds EXCEPT ![s] = @ + 1]
  /\ UNCHANGED <<session, pin>>

\* checkAdvisoryLock: pg_locks of the pinned session.
LockHeld(c) == Alive(c) /\ holds[pin[c]] > 0

\* releaseAdvisoryLock: pg_advisory_unlock, then session.release() in any case.
LockReleased(c) ==
  /\ LockHeld(c)
  /\ Answered(c)
  /\ Unlock(c)
  /\ ReturnSession(c)

ReleaseFails(c) ==
  /\ \/ Throws(c) /\ UNCHANGED holds
     \/ ThrowsAfterwards(c) /\ LockHeld(c) /\ Unlock(c)
  /\ ReturnSession(c)

\* appendLedgerRecord: INSERT ... ON CONFLICT (migration_id) DO NOTHING, committed
\* on its own.
AppendRow(i, row) == ledger' = [ledger EXCEPT ![i] = IF @ = NoRow THEN row ELSE @]

-----------------------------------------------------------------------------
(* The rest of the database.                                               *)

\* c's connection is lost, or c dies: the server still runs its session.
Abandon(c, now) ==
  /\ session' = [s \in Sessions |-> IF s = pin[c] THEN "orphan" ELSE session[s]]
  /\ pin' = [pin EXCEPT ![c] = now]

Disconnect(c) ==
  /\ Alive(c)
  /\ Fault
  /\ Abandon(c, "dead")
  /\ UNCHANGED <<relation, ledger, holds>>

\* The server ends an abandoned session: its locks are free, its transaction is
\* rolled back, and the pool opens another in its place.
Reap(s) ==
  /\ session[s] = "orphan"
  /\ session' = [session EXCEPT ![s] = "idle"]
  /\ holds' = [holds EXCEPT ![s] = 0]
  /\ UNCHANGED <<relation, ledger, pin, faults>>
=============================================================================
