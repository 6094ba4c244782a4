---------------------------- MODULE TreeCreation ----------------------------
(***************************************************************************)
(* The two ways a tree comes into being: POST /api/trees, public or        *)
(* private, and POST /api/trees/:id/fork of one public source tree.  Each  *)
(* request is one READ COMMITTED transaction, interleaved statement by     *)
(* statement with the others and with what the owner of the source does to *)
(* it: change its visibility, delete it, show, hide, move or delete its    *)
(* memories.  The users row of the requesting owner carries the private    *)
(* storage entitlement, which may change as well.                          *)
(*                                                                         *)
(* Source: tree-create-direct-neon.js, tree-fork-direct-neon.js and        *)
(* private-storage-entitlement-neon.js in src/functions/_shared; the       *)
(* foreign keys are those of                                               *)
(* src/scripts/migration-add-reactions-comments.sql.                       *)
(***************************************************************************)
EXTENDS Integers, FiniteSets

CONSTANTS
  Owners,     \* verified principals who create and fork trees
  Size,       \* memories of the source tree, in the order of (created_at, id)
  MaxCopied,  \* TREE_FORK_PUBLIC_MAX, 200 in the code
  Requests,   \* HTTP requests; the tree that request r creates is named r
  MaxEdits    \* bound: changes made by anyone else

ASSUME TreeCreationAssumption ==
  /\ {Size, MaxCopied, MaxEdits} \subseteq Nat
  /\ "none" \notin Requests

VARIABLES
  stamped,   \* users has the column updated_at: the bootstrap touches the row
  users,     \* committed users rows
  entitled,  \* users rows with private_storage_enabled
  source,    \* the source tree: "public", "private" or "absent"
  shown,     \* its committed public memories
  parent,    \* their parent_id, private memories included
  trees,     \* committed trees, named after the request that created them
  edits,     \* changes by others so far
  pc,        \* the statement a request executes next
  call,      \* what a request asks for, and who
  held,      \* row and advisory locks of the request's transaction
  todo,      \* snapshot of FETCH_SOURCE_MEMORIES: rows not yet locked
  taken,     \* rows locked and returned
  read,      \* parent_id of the rows returned
  result,    \* the tree a request returns
  answer,    \* the HTTP answer
  lasting    \* history: memories public ever since the snapshot of a request

database == <<stamped, users, entitled, source, shown, parent, trees, edits>>
copying  == <<todo, taken, read, lasting>>
vars == <<database, pc, call, held, copying, result, answer>>

-----------------------------------------------------------------------------
Memories == 1..Size
Root     == 0
Parents  == Memories \cup {Root}

Calls == [op : {"fork", "public", "private"}, owner : Owners]

UserRow(o)      == <<"user", o>>       \* INSERT or UPDATE of the users row
UserShare(o)    == <<"user share", o>> \* FOR SHARE
ForkLock(o)     == <<"fork", o>>       \* advisory, of the source and the owner
SourceShare     == <<"source">>        \* FOR SHARE
MemoryShare(m)  == <<"memory", m>>     \* FOR SHARE

Locks == {UserRow(o) : o \in Owners} \cup {UserShare(o) : o \in Owners}
         \cup {ForkLock(o) : o \in Owners} \cup {SourceShare}
         \cup {MemoryShare(m) : m \in Memories}

Statements == {"entitlement", "bootstrap", "forkLock", "source", "existing",
               "rereadExisting", "snapshot", "locking", "insert"}

Answers == {"none", "success", "refused", "missing", "too_large", "violated",
            "failed", "unknown"}

TypeOK ==
  /\ stamped \in BOOLEAN
  /\ users \subseteq Owners
  /\ entitled \subseteq users
  /\ source \in {"public", "private", "absent"}
  /\ shown \subseteq Memories
  /\ parent \in [Memories -> Parents]
  /\ trees \subseteq Requests
  /\ edits \in 0..MaxEdits
  /\ pc \in [Requests -> Statements \cup {"committing", "committed", "aborting",
                                          "closed"}]
  /\ call \in [Requests -> Calls]
  /\ held \in [Requests -> SUBSET Locks]
  /\ todo \in [Requests -> SUBSET Memories]
  /\ taken \in [Requests -> SUBSET Memories]
  /\ read \in [Requests -> [Memories -> Parents]]
  /\ lasting \in [Requests -> SUBSET Memories]
  /\ result \in [Requests -> Requests \cup {"none"}]
  /\ answer \in [Requests -> Answers]

\* A forest, in any order: a parent may be newer than its child, because memories
\* are moved and because the copies of a fork all have one created_at.
Forest(f) == \A M \in SUBSET Memories \ {{}} : \E m \in M : f[m] \notin M

Init ==
  /\ stamped \in BOOLEAN
  /\ users \in SUBSET Owners
  /\ entitled \in SUBSET users
  /\ source = "public"
  /\ shown \in SUBSET Memories
  /\ parent \in {f \in [Memories -> Parents] : Forest(f)}
  /\ trees = {}
  /\ edits = 0
  /\ call \in [Requests -> Calls]
  /\ pc = [r \in Requests |-> IF call[r].op = "private" THEN "entitlement"
                              ELSE "bootstrap"]
  /\ held = [r \in Requests |-> {}]
  /\ todo = [r \in Requests |-> {}]
  /\ taken = [r \in Requests |-> {}]
  /\ read = [r \in Requests |-> [m \in Memories |-> Root]]
  /\ lasting = [r \in Requests |-> {}]
  /\ result = [r \in Requests |-> "none"]
  /\ answer = [r \in Requests |-> "none"]

-----------------------------------------------------------------------------
Op(r)    == call[r].op
owner(r) == call[r].owner

Free(r, lock) == \A q \in Requests \ {r} : lock \notin held[q]
Unlocked(lock) == \A r \in Requests : lock \notin held[r]

Hold(r, locks) == held' = [held EXCEPT ![r] = @ \cup locks]

At(r, statement) == pc[r] = statement
Go(r, statement) == pc' = [pc EXCEPT ![r] = statement]

\* What the request read goes with it.
Forget(r) ==
  /\ todo' = [todo EXCEPT ![r] = {}]
  /\ taken' = [taken EXCEPT ![r] = {}]
  /\ read' = [read EXCEPT ![r] = [m \in Memories |-> Root]]
  /\ lasting' = [lasting EXCEPT ![r] = {}]

\* Mutant: the work error is thrown before its outcome is recorded.
RefuseUnrecorded(r, code) ==
  /\ Go(r, "aborting")
  /\ answer' = [answer EXCEPT ![r] = "undefined"]

\* work() throws with workSignal.outcome set: ROLLBACK, and this answer.
Refuse(r, code) ==
  /\ Go(r, "aborting")
  /\ answer' = [answer EXCEPT ![r] = code]

-----------------------------------------------------------------------------
(* Both: the entitlement of a private tree, the users row of the owner.    *)

\* Mutant: the entitlement is read without a lock.
RequireEntitlementUnlocked(r) ==
  /\ At(r, "entitlement")
  /\ IF owner(r) \in entitled THEN Go(r, "bootstrap") /\ UNCHANGED answer
     ELSE Refuse(r, "refused")
  /\ UNCHANGED <<database, call, held, copying, result>>

\* requirePrivateStorageEntitlement: SELECT ... FOR SHARE of the users row.
RequireEntitlement(r) ==
  /\ At(r, "entitlement")
  /\ Free(r, UserRow(owner(r)))
  /\ Hold(r, IF owner(r) \in users THEN {UserShare(owner(r))} ELSE {})
  /\ IF owner(r) \in entitled THEN Go(r, "bootstrap") /\ UNCHANGED answer
     ELSE Refuse(r, "refused")
  /\ UNCHANGED <<database, call, copying, result>>

\* ensureOwnerUserExists: INSERT ... ON CONFLICT DO UPDATE SET updated_at, or DO
\* NOTHING in a schema without that column.  Either waits for an uncommitted
\* insert; only an UPDATE locks a row that is there, and waits for its sharers.
EnsureOwner(r) ==
  /\ At(r, "bootstrap")
  /\ IF owner(r) \in users /\ ~stamped THEN UNCHANGED held
     ELSE /\ Free(r, UserRow(owner(r))) /\ Free(r, UserShare(owner(r)))
          /\ Hold(r, {UserRow(owner(r))})
  /\ Go(r, IF Op(r) = "fork" THEN "forkLock" ELSE "insert")
  /\ UNCHANGED <<database, call, copying, result, answer>>

-----------------------------------------------------------------------------
(* Fork: runForkWork.                                                      *)

\* Mutant: the advisory lock is not taken.
TakeForkLockNever(r) ==
  /\ At(r, "forkLock")
  /\ Go(r, "source")
  /\ UNCHANGED <<database, call, held, copying, result, answer>>

\* pg_advisory_xact_lock of the key of (source, owner).
TakeForkLock(r) ==
  /\ At(r, "forkLock")
  /\ Free(r, ForkLock(owner(r)))
  /\ Hold(r, {ForkLock(owner(r))})
  /\ Go(r, "source")
  /\ UNCHANGED <<database, call, copying, result, answer>>

\* SELECT ... FOR SHARE of the source; 404 when absent, 403 when not public.
ReadSource(r) ==
  /\ At(r, "source")
  /\ Hold(r, IF source = "absent" THEN {} ELSE {SourceShare})
  /\ IF source = "public" THEN Go(r, "existing") /\ UNCHANGED answer
     ELSE Refuse(r, "refused")
  /\ UNCHANGED <<database, call, copying, result>>

ForksOf(o) == {q \in trees : Op(q) = "fork" /\ owner(q) = o}

\* EXISTING_FORK_SQL: a committed fork of this source by this owner.
FindExisting(r) ==
  /\ At(r, "existing")
  /\ IF ForksOf(owner(r)) = {} THEN Go(r, "snapshot") /\ UNCHANGED result
     ELSE /\ \E q \in ForksOf(owner(r)) : result' = [result EXCEPT ![r] = q]
          /\ Go(r, "rereadExisting")
  /\ UNCHANGED <<database, call, held, copying, answer>>

\* The canonical reread takes no lock: the fork may have been deleted (404).
RereadExisting(r) ==
  /\ At(r, "rereadExisting")
  /\ IF result[r] \in trees THEN Go(r, "committing") /\ UNCHANGED answer
     ELSE Refuse(r, "missing")
  /\ UNCHANGED <<database, call, held, copying, result>>

\* FETCH_SOURCE_MEMORIES_FOR_SHARE_SQL reads its snapshot: later commits add no row.
Snapshot(r) ==
  /\ At(r, "snapshot")
  /\ todo' = [todo EXCEPT ![r] = shown]
  /\ lasting' = [lasting EXCEPT ![r] = shown]
  /\ Go(r, "locking")
  /\ UNCHANGED <<database, call, held, taken, read, result, answer>>

\* Mutant: the rows are returned without FOR SHARE.
LockMemoryUnlocked(r) ==
  /\ At(r, "locking") /\ Cardinality(taken[r]) <= MaxCopied
  /\ \E m \in todo[r] :
       /\ \A n \in todo[r] : m <= n
       /\ todo' = [todo EXCEPT ![r] = @ \ {m}]
       /\ IF m \in shown
          THEN /\ taken' = [taken EXCEPT ![r] = @ \cup {m}]
               /\ read' = [read EXCEPT ![r][m] = parent[m]]
          ELSE UNCHANGED <<taken, read>>
  /\ UNCHANGED <<database, pc, call, held, lasting, result, answer>>

\* The statement locks its rows one at a time, in their order, tests visibility
\* again and returns the newest version, up to LIMIT MaxCopied + 1.
LockMemory(r) ==
  /\ At(r, "locking") /\ Cardinality(taken[r]) <= MaxCopied
  /\ \E m \in todo[r] :
       /\ \A n \in todo[r] : m <= n
       /\ todo' = [todo EXCEPT ![r] = @ \ {m}]
       /\ IF m \in shown
          THEN /\ Hold(r, {MemoryShare(m)})
               /\ taken' = [taken EXCEPT ![r] = @ \cup {m}]
               /\ read' = [read EXCEPT ![r][m] = parent[m]]
          ELSE UNCHANGED <<held, taken, read>>
  /\ UNCHANGED <<database, pc, call, lasting, result, answer>>

\* More rows than MaxCopied: 409, before anything is inserted.
CheckSize(r) ==
  /\ At(r, "locking")
  /\ todo[r] = {} \/ Cardinality(taken[r]) > MaxCopied
  /\ IF Cardinality(taken[r]) > MaxCopied THEN Refuse(r, "too_large")
     ELSE Go(r, "insert") /\ UNCHANGED answer
  /\ UNCHANGED <<database, call, held, copying, result>>

\* idMap: a parent that is not copied too becomes null.
Copied(r, m) == IF read[r][m] \in taken[r] THEN read[r][m] ELSE Root

-----------------------------------------------------------------------------
(* Both: the INSERTs and the end of the transaction.                       *)

\* The tree is inserted, and the copies one by one in the order of the snapshot: a
\* parent must have been inserted before its child, or the foreign key of parent_id
\* rejects the child.  The rows are new, so nobody else sees or locks them, and the
\* canonical reread always finds them.
InsertTree(r) ==
  /\ At(r, "insert")
  /\ IF \A m \in taken[r] : Copied(r, m) < m
     THEN /\ result' = [result EXCEPT ![r] = r]
          /\ Go(r, "committing")
          /\ UNCHANGED answer
     ELSE Refuse(r, "violated") /\ UNCHANGED result
  /\ UNCHANGED <<database, call, held, copying>>

\* The server makes r's writes durable and releases its locks.
CommitDurable(r) ==
  /\ At(r, "committing")
  /\ users' = users \cup {owner(r)}
  /\ trees' = IF result[r] = r THEN trees \cup {r} ELSE trees
  /\ held' = [held EXCEPT ![r] = {}]
  /\ Go(r, IF answer[r] = "none" THEN "committed" ELSE "closed")
  /\ Forget(r)
  /\ UNCHANGED <<stamped, entitled, source, shown, parent, edits, call, result, answer>>

\* COMMIT never reaches the server, or is refused: nothing becomes durable.
CommitLost(r) ==
  /\ At(r, "committing")
  /\ held' = [held EXCEPT ![r] = {}]
  /\ Go(r, "closed")
  /\ answer' = [answer EXCEPT ![r] = "unknown"]
  /\ Forget(r)
  /\ UNCHANGED <<database, call, result>>

\* The socket dies while COMMIT is in flight: the server decides after the answer.
AnswerUnknown(r) ==
  /\ At(r, "committing") /\ answer[r] = "none"
  /\ answer' = [answer EXCEPT ![r] = "unknown"]
  /\ UNCHANGED <<database, pc, call, held, copying, result>>

\* The acknowledgement of a durable COMMIT arrives, or the socket died first.
Acknowledge(r) ==
  /\ At(r, "committed")
  /\ \E code \in {"success", "unknown"} : answer' = [answer EXCEPT ![r] = code]
  /\ Go(r, "closed")
  /\ UNCHANGED <<database, call, held, copying, result>>

\* A statement rejects: timeout, lost connection, server error, a deadlock of two
\* private creations, both with the users row shared, that the server breaks.
Fail(r) ==
  /\ pc[r] \in Statements
  /\ Refuse(r, "failed")
  /\ Forget(r)
  /\ UNCHANGED <<database, call, held, result>>

\* The server rolls the transaction back.
Discard(r) ==
  /\ At(r, "aborting")
  /\ held' = [held EXCEPT ![r] = {}]
  /\ Go(r, "closed")
  /\ Forget(r)
  /\ UNCHANGED <<database, call, result, answer>>

-----------------------------------------------------------------------------
(* Everyone else.  An UPDATE or DELETE of a row waits for its sharers.     *)

requesting == <<pc, call, held, todo, taken, read, result, answer>>

Edit == edits < MaxEdits /\ edits' = edits + 1

\* The owner of the source publishes it, makes it private or deletes it.
ChangeSource(v) ==
  /\ Edit
  /\ source # "absent" /\ Unlocked(SourceShare)
  /\ source' = v
  /\ shown' = IF v = "absent" THEN {} ELSE shown
  /\ lasting' = IF v = "absent" THEN [r \in Requests |-> {}] ELSE lasting
  /\ UNCHANGED <<stamped, users, entitled, parent, trees, requesting>>

\* A memory is made public, or created.
Show(m) ==
  /\ Edit
  /\ source # "absent" /\ m \notin shown
  /\ shown' = shown \cup {m}
  /\ UNCHANGED <<stamped, users, entitled, source, parent, trees, requesting, lasting>>

\* A memory is made private, or is deleted after its children were let go.
Hide(m) ==
  /\ Edit
  /\ m \in shown /\ Unlocked(MemoryShare(m))
  /\ shown' = shown \ {m}
  /\ lasting' = [r \in Requests |-> lasting[r] \ {m}]
  /\ UNCHANGED <<stamped, users, entitled, source, parent, trees, requesting>>

\* A memory is moved to the root or to any other that is not its descendant.
Move(m, p) ==
  /\ Edit
  /\ source # "absent" /\ Unlocked(MemoryShare(m))
  /\ parent' = [parent EXCEPT ![m] = p]
  /\ Forest(parent')
  /\ UNCHANGED <<stamped, users, entitled, source, shown, trees, requesting, lasting>>

\* The entitlement is granted or withdrawn: an UPDATE of the users row.
ChangeEntitlement(o) ==
  /\ Edit
  /\ o \in users /\ Unlocked(UserRow(o)) /\ Unlocked(UserShare(o))
  /\ entitled' = IF o \in entitled THEN entitled \ {o} ELSE entitled \cup {o}
  /\ UNCHANGED <<stamped, users, source, shown, parent, trees, requesting, lasting>>

\* An owner deletes a tree of theirs.
DeleteTree(q) ==
  /\ Edit
  /\ q \in trees
  /\ trees' = trees \ {q}
  /\ UNCHANGED <<stamped, users, entitled, source, shown, parent, requesting, lasting>>

-----------------------------------------------------------------------------
Finished ==
  /\ \A r \in Requests : At(r, "closed")
  /\ UNCHANGED vars

Transaction(r) ==
  \/ RequireEntitlement(r) \/ EnsureOwner(r)
  \/ TakeForkLock(r) \/ ReadSource(r) \/ FindExisting(r) \/ RereadExisting(r)
  \/ Snapshot(r) \/ LockMemory(r) \/ CheckSize(r)
  \/ InsertTree(r)
  \/ CommitDurable(r) \/ CommitLost(r) \/ AnswerUnknown(r) \/ Acknowledge(r)
  \/ Fail(r) \/ Discard(r)

Others ==
  \/ \E v \in {"public", "private", "absent"} : ChangeSource(v)
  \/ \E m \in Memories : Show(m) \/ Hide(m) \/ \E p \in Parents : Move(m, p)
  \/ \E o \in Owners : ChangeEntitlement(o)
  \/ \E q \in Requests : DeleteTree(q)

Next ==
  \/ \E r \in Requests : Transaction(r)
  \/ Others
  \/ Finished

Spec == Init /\ [][Next]_vars

-----------------------------------------------------------------------------
(* Properties.                                                             *)

Created(r) == r \notin trees /\ r \in trees'

\* However its owner retries, and whatever COMMITs are in doubt, an owner has at
\* most one fork of the source.
OneForkPerOwner ==
  \A p, q \in trees :
    Op(p) = "fork" /\ Op(q) = "fork" /\ owner(p) = owner(q) => p = q

\* A fork becomes durable only while its source is public, and it is the source as
\* it is then: it holds no memory that is private by now, every memory that was
\* public since the snapshot, and the parents of now where those are copied too.
ForkIsTheSource ==
  [][\A r \in Requests : Created(r) /\ Op(r) = "fork" =>
       /\ source = "public"
       /\ taken[r] \subseteq shown
       /\ lasting[r] \subseteq taken[r]
       /\ \A m \in taken[r] :
            Copied(r, m) = IF parent[m] \in taken[r] THEN parent[m] ELSE Root]_vars

\* A private tree becomes durable only while its owner is entitled to one, however
\* late the COMMIT takes effect.
PrivateIsEntitled ==
  [][\A r \in Requests :
       Created(r) /\ Op(r) = "private" => owner(r) \in entitled]_vars

\* "Copy ALL bounded public Memories with fresh IDs and parent remap"
\* (src/functions/_shared/tree-fork-direct-neon.js:568): no fork is rejected by the
\* foreign key of the parents it copies.
ForksAreAccepted == \A r \in Requests : answer[r] # "violated"
=============================================================================
