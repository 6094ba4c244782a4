------------------------------ MODULE HubLayout ------------------------------
(***************************************************************************)
(* Concurrent PUT /api/trees/:id/hub-layout requests for one tree, while   *)
(* its owner may delete the tree.  tree_hub_layouts has no UNIQUE          *)
(* constraint on (tree_id, revision): the optimistic revision check and    *)
(* the INSERT are serialized by a transaction-scoped advisory lock alone,  *)
(* whose key the Cloudflare and the Modal runtime must compute alike.      *)
(*                                                                         *)
(* Source: src/functions/_shared/hub-layout-direct-neon.js; the other      *)
(* runtime is src/modal_compute/hub_layouts.py.                            *)
(***************************************************************************)
EXTENDS Integers

CONSTANTS
  Saves,    \* HTTP requests, retries of one another included
  MaxBase   \* bound: the largest baseRevision a request carries

ASSUME HubLayoutAssumption == MaxBase \in Nat

VARIABLES
  caller,   \* who sends a save and which runtime serves it
  base,     \* validated.baseRevision
  pc,       \* the statement a save executes next
  revision, \* committed tree_hub_layouts row of a save: its revision, or 0
  tree,     \* the trees row; an owner tries to delete it at most once
  locks,    \* advisory lock keys held by the transaction of a save
  keyShare, \* saves whose INSERT holds FOR KEY SHARE on the trees row
  answer    \* the HTTP answer

vars == <<caller, base, pc, revision, tree, locks, keyShare, answer>>

-----------------------------------------------------------------------------
Callers == {"direct", "modal", "stranger"}

Statements == {"owner", "lock", "latest", "insert"}

Answers == {"none", "success", "conflict", "not_found", "forbidden", "failed",
            "unknown"}

LockKeys == {"sha256", "hashtext"}

TypeOK ==
  /\ caller \in [Saves -> Callers]
  /\ base \in [Saves -> 0..MaxBase]
  /\ pc \in [Saves -> Statements \cup {"committing", "committed", "aborting",
                                       "closed"}]
  /\ revision \in [Saves -> 0..(MaxBase + 1)]
  /\ tree \in {"present", "deleting", "deleted", "kept"}
  /\ locks \in [Saves -> SUBSET LockKeys]
  /\ keyShare \subseteq Saves
  /\ answer \in [Saves -> Answers]

Init ==
  /\ caller \in [Saves -> Callers]
  /\ base \in [Saves -> 0..MaxBase]
  /\ pc = [s \in Saves |-> "owner"]
  /\ revision = [s \in Saves |-> 0]
  /\ tree = "present"
  /\ locks = [s \in Saves |-> {}]
  /\ keyShare = {}
  /\ answer = [s \in Saves |-> "none"]

Exists == tree # "deleted"

-----------------------------------------------------------------------------
Go(s, statement) == pc' = [pc EXCEPT ![s] = statement]

\* work() throws: after ROLLBACK the outcome of workSignal becomes the answer,
\* unless ROLLBACK fails, which the handler answers 502 ROLLBACK_FAILURE.
Refuse(s, code) ==
  /\ Go(s, "aborting")
  /\ \E c \in {code, "failed"} : answer' = [answer EXCEPT ![s] = c]

\* OWNER_TREE_SQL reads without locking the row.
CheckOwner(s) ==
  /\ pc[s] = "owner"
  /\ IF Exists /\ caller[s] # "stranger"
     THEN Go(s, "lock") /\ UNCHANGED answer
     ELSE Refuse(s, IF Exists THEN "forbidden" ELSE "not_found")
  /\ UNCHANGED <<caller, base, revision, tree, locks, keyShare>>

\* Mutant: one runtime hashes the tree with the generic hashtext helper.
LockKeyByRuntime(s) == IF caller[s] = "modal" THEN "hashtext" ELSE "sha256"

\* computeHubLayoutLockKey: both runtimes hash "hub-layout:" + treeId alike.
LockKey(s) == "sha256"

\* pg_advisory_xact_lock waits until no other transaction holds the key.
Lock(s) ==
  /\ pc[s] = "lock"
  /\ \A q \in Saves \ {s} : LockKey(s) \notin locks[q]
  /\ locks' = [locks EXCEPT ![s] = @ \cup {LockKey(s)}]
  /\ Go(s, "latest")
  /\ UNCHANGED <<caller, base, revision, tree, keyShare, answer>>

IsLatest(n) ==
  /\ \A s \in Saves : revision[s] <= n
  /\ n # 0 => \E s \in Saves : revision[s] = n

\* Mutant: a base newer than the latest revision is accepted as well.
CompareRevisionAtLeast(s) ==
  /\ pc[s] = "latest"
  /\ IF \A q \in Saves : revision[q] <= base[s] THEN Go(s, "insert") /\ UNCHANGED answer
     ELSE Refuse(s, "conflict")
  /\ UNCHANGED <<caller, base, revision, tree, locks, keyShare>>

\* LATEST_REVISION_SQL, then baseRevision is compared with what it returned.
CompareRevision(s) ==
  /\ pc[s] = "latest"
  /\ IF IsLatest(base[s]) THEN Go(s, "insert") /\ UNCHANGED answer
     ELSE Refuse(s, "conflict")
  /\ UNCHANGED <<caller, base, revision, tree, locks, keyShare>>

\* Mutant: no foreign key ties a layout to its tree.
InsertUnchecked(s) ==
  /\ pc[s] = "insert"
  /\ Go(s, "committing")
  /\ UNCHANGED <<caller, base, revision, tree, locks, keyShare, answer>>

\* INSERT_LAYOUT_SQL: the foreign key takes FOR KEY SHARE on the trees row, waits
\* for a deletion in progress and rejects a row without its tree.
Insert(s) ==
  /\ pc[s] = "insert"
  /\ tree # "deleting"
  /\ IF Exists
     THEN /\ keyShare' = keyShare \cup {s}
          /\ Go(s, "committing")
          /\ UNCHANGED answer
     ELSE Refuse(s, "failed") /\ UNCHANGED keyShare
  /\ UNCHANGED <<caller, base, revision, tree, locks>>

Release(s) ==
  /\ locks' = [locks EXCEPT ![s] = {}]
  /\ keyShare' = keyShare \ {s}

\* Mutant: baseRevision + 2 is stored, the new revision being computed twice.
CommitDurableSkips(s) ==
  /\ pc[s] = "committing"
  /\ revision' = [revision EXCEPT ![s] = base[s] + 2]
  /\ Release(s)
  /\ Go(s, IF answer[s] = "none" THEN "committed" ELSE "closed")
  /\ UNCHANGED <<caller, base, tree, answer>>

\* The server makes the row durable and releases the transaction's locks.
CommitDurable(s) ==
  /\ pc[s] = "committing"
  /\ revision' = [revision EXCEPT ![s] = base[s] + 1]
  /\ Release(s)
  /\ Go(s, IF answer[s] = "none" THEN "committed" ELSE "closed")
  /\ UNCHANGED <<caller, base, tree, answer>>

\* Mutant: a rejected COMMIT is answered like any other failure, at once.
AnswerFailedEarly(s) ==
  /\ pc[s] = "committing" /\ answer[s] = "none"
  /\ answer' = [answer EXCEPT ![s] = "failed"]
  /\ UNCHANGED <<caller, base, pc, revision, tree, locks, keyShare>>

\* What a COMMIT without acknowledgement is answered: 502 COMMIT_OUTCOME_UNKNOWN,
\* or the plain 500 of the Modal handler, whose conn.commit() just raises.
LostCommit(s) == IF caller[s] = "modal" THEN "failed" ELSE "unknown"

\* COMMIT never reaches the server, or is refused: nothing becomes durable.
CommitLost(s) ==
  /\ pc[s] = "committing"
  /\ Release(s)
  /\ Go(s, "closed")
  /\ answer' = [answer EXCEPT ![s] = LostCommit(s)]
  /\ UNCHANGED <<caller, base, revision, tree>>

\* The socket dies while COMMIT is in flight: the server decides after the answer.
AnswerUnknown(s) ==
  /\ pc[s] = "committing" /\ answer[s] = "none"
  /\ answer' = [answer EXCEPT ![s] = LostCommit(s)]
  /\ UNCHANGED <<caller, base, pc, revision, tree, locks, keyShare>>

\* The acknowledgement of a durable COMMIT arrives, or the socket died first.
Acknowledge(s) ==
  /\ pc[s] = "committed"
  /\ \E code \in {"success", LostCommit(s)} : answer' = [answer EXCEPT ![s] = code]
  /\ Go(s, "closed")
  /\ UNCHANGED <<caller, base, revision, tree, locks, keyShare>>

\* A statement rejects: connection lost, statement timeout, server error.
Fail(s) ==
  /\ pc[s] \in Statements
  /\ Refuse(s, "failed")
  /\ UNCHANGED <<caller, base, revision, tree, locks, keyShare>>

\* Mutant: the session of a failed save is never ended.
DiscardKeepsLocks(s) ==
  /\ pc[s] = "aborting"
  /\ Go(s, "closed")
  /\ UNCHANGED <<caller, base, revision, tree, locks, keyShare, answer>>

\* The server rolls the transaction back and releases its locks.
Discard(s) ==
  /\ pc[s] = "aborting"
  /\ Release(s)
  /\ Go(s, "closed")
  /\ UNCHANGED <<caller, base, revision, tree, answer>>

-----------------------------------------------------------------------------
(* Deletion of the tree: DELETE_TREE_SQL of tree-delete-direct-neon.js.    *)

\* DELETE FROM trees waits for every FOR KEY SHARE holder and locks the row.
StartDelete ==
  /\ tree = "present" /\ keyShare = {}
  /\ tree' = "deleting"
  /\ UNCHANGED <<caller, base, pc, revision, locks, keyShare, answer>>

\* ON DELETE CASCADE removes the layouts with the tree.
CommitDelete ==
  /\ tree = "deleting"
  /\ tree' = "deleted"
  /\ revision' = [s \in Saves |-> 0]
  /\ UNCHANGED <<caller, base, pc, locks, keyShare, answer>>

RollBackDelete ==
  /\ tree = "deleting"
  /\ tree' = "kept"
  /\ UNCHANGED <<caller, base, pc, revision, locks, keyShare, answer>>

-----------------------------------------------------------------------------
Progress(s) ==
  \/ CheckOwner(s) \/ Lock(s) \/ CompareRevision(s) \/ Insert(s)
  \/ CommitDurable(s) \/ CommitLost(s) \/ Acknowledge(s) \/ Discard(s)

Finished ==
  /\ \A s \in Saves : pc[s] = "closed"
  /\ UNCHANGED vars

Next ==
  \/ \E s \in Saves : Progress(s) \/ AnswerUnknown(s) \/ Fail(s)
  \/ StartDelete \/ CommitDelete \/ RollBackDelete
  \/ Finished

Spec == Init /\ [][Next]_vars

\* Statements that are not blocked are executed and transactions end; nothing
\* obliges a statement to fail or the owner to delete the tree.
Fairness ==
  /\ \A s \in Saves : WF_vars(Progress(s))
  /\ WF_vars(CommitDelete \/ RollBackDelete)

FairSpec == Spec /\ Fairness

-----------------------------------------------------------------------------
(* Properties.                                                             *)

\* No lost update: no two saves produce the same revision and no revision is
\* skipped, so each layout replaces the one its author saw.  No database
\* constraint backs this; of two saves with one base at most one takes effect,
\* a retry after an unknown outcome included.
LinearHistory ==
  /\ \A s, q \in Saves : revision[s] = revision[q] /\ revision[s] # 0 => s = q
  /\ \A s \in Saves : revision[s] > 1 =>
       \E q \in Saves : revision[q] = revision[s] - 1

\* A refusal means that the save never takes effect: every 409, 403 and 404, and a
\* 500 of the direct route (not of Modal).  A 200 means that it did, unless the
\* layouts went with their tree.
AnswersAreTrue ==
  \A s \in Saves :
    /\ answer[s] \notin {"none", "success", LostCommit(s)} =>
         revision[s] = 0 /\ pc[s] \notin {"committing", "committed"}
    /\ answer[s] = "success" /\ Exists => revision[s] = base[s] + 1

\* A save racing with the deletion of its tree leaves no layout behind, also when
\* its owner check and revision check came before the deletion.
NoOrphanLayouts ==
  ~Exists => \A s \in Saves : revision[s] = 0 /\ pc[s] # "committing"

Register == INSTANCE LayoutRegister WITH
  present <- IF Exists THEN "yes" ELSE "no",
  told <- {s \in Saves : answer[s] = "success"}

\* Saves served by either runtime implement an atomic compare-and-set register.
ImplementsRegister == Register!Spec

\* No save waits forever for the lock or for the deletion.
EverySaveEnds ==
  <>(\A s \in Saves : pc[s] = "closed" /\ answer[s] # "none")

-----------------------------------------------------------------------------
(* The inductive invariant behind LinearHistory and ImplementsRegister.    *)

\* The advisory lock is held by one transaction at a time, and from the read of
\* the latest revision until COMMIT.
LockProtects ==
  /\ \A s \in Saves : locks[s] \subseteq {LockKey(s)}
  /\ \A s, q \in Saves : locks[s] # {} /\ locks[q] # {} => s = q
  /\ \A s \in Saves : pc[s] \in {"latest", "insert", "committing"} =>
       locks[s] # {}

\* What was compared stays true until COMMIT: baseRevision is the latest one.
BaseStaysLatest ==
  \A s \in Saves :
    /\ pc[s] = "insert" /\ Exists => IsLatest(base[s])
    /\ pc[s] = "committing" => IsLatest(base[s])

\* An uncommitted row pins its tree, and a deletion waits for it.
RowPinsTree ==
  /\ \A s \in Saves : pc[s] = "committing" => s \in keyShare
  /\ keyShare # {} => tree \in {"present", "kept"}

\* A row belongs to a save whose transaction ended with COMMIT.
RowsAreCommitted ==
  \A s \in Saves : revision[s] # 0 =>
    pc[s] \in {"committed", "closed"} /\ revision[s] = base[s] + 1

\* Only a COMMIT that took effect is acknowledged; refusals end in a rollback.
AnswersFollow ==
  \A s \in Saves :
    /\ pc[s] = "committed" => answer[s] = "none" /\ (Exists => revision[s] # 0)
    /\ answer[s] = "success" => pc[s] = "closed" /\ (Exists => revision[s] # 0)
    /\ answer[s] \notin {"none", "success", LostCommit(s)} =>
         pc[s] \in {"aborting", "closed"} /\ revision[s] = 0
    /\ pc[s] \in Statements => answer[s] = "none"
    /\ pc[s] = "committing" => answer[s] \in {"none", LostCommit(s)}

IInv ==
  /\ TypeOK
  /\ LockProtects
  /\ BaseStaysLatest
  /\ RowPinsTree
  /\ RowsAreCommitted
  /\ AnswersFollow
  /\ NoOrphanLayouts
  /\ LinearHistory
=============================================================================
