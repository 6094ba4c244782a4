---------------------------- MODULE MemoryForest ----------------------------
(***************************************************************************)
(* The memories of a tree form a forest: parent_id names another memory of *)
(* the same tree.  Four writers reshape it concurrently: memory creation   *)
(* (with or without a client key), reparenting, memory deletion and tree   *)
(* deletion.  Each request is one READ COMMITTED transaction.  A SELECT is *)
(* one step; an UPDATE or DELETE of several rows reads its snapshot in one *)
(* step and then takes the rows one at a time, waiting for their lockers   *)
(* and testing its WHERE clause again, as PostgreSQL does; a foreign-key   *)
(* check and an ON DELETE action are steps of the statement that fires     *)
(* them.  Any statement may fail: a timeout, a lost connection, a deadlock *)
(* that the server breaks.                                                 *)
(*                                                                         *)
(* Source: memory-create-, memory-update-, memory-delete- and              *)
(* tree-delete-direct-neon.js in src/functions/_shared; the schema is      *)
(* src/scripts/migration-add-reactions-comments.sql.                       *)
(***************************************************************************)
EXTENDS Integers, FiniteSets

CONSTANTS
  Trees,
  Actors,
  Owner,     \* Owner[t]: the actor who owns tree t
  Seeds,     \* memories that exist at the start
  Keys,      \* client keys
  Requests,  \* HTTP requests; the memory that request r creates is named r
  Forests,   \* the rows the seeds may have at the start
  Scenarios  \* what the requests may be: functions from Requests to Calls

Memories == Seeds \cup Requests
Objects  == Memories \cup Trees

\* Trees and memories as rows; a tree's own row has neither parent nor key.
Rows == [tree : Trees, parent : Memories \cup {"none"}, key : Keys \cup {"none"}]

Absent    == [tree |-> "absent", parent |-> "none", key |-> "none"]
Untouched == [tree |-> "untouched", parent |-> "none", key |-> "none"]

\* "create": of is the tree, parent and key are those of the new memory;
\* "update": of is a memory, parent its new parent; "delete": of is a memory;
\* "drop": of is a tree.
Calls == [op : {"create"}, actor : Actors, of : Trees,
          parent : Memories \cup {"none"}, key : Keys \cup {"none"}]
   \cup  [op : {"update"}, actor : Actors, of : Memories,
          parent : Memories \cup {"none"}, key : {"none"}]
   \cup  [op : {"delete"}, actor : Actors, of : Memories,
          parent : {"none"}, key : {"none"}]
   \cup  [op : {"drop"}, actor : Actors, of : Trees,
          parent : {"none"}, key : {"none"}]

\* Every starting forest is one: parents are seeds of the same tree, following
\* them ends, and a client key names one memory of its tree.
ASSUME MemoryForestAssumption ==
  /\ IsFiniteSet(Requests) /\ IsFiniteSet(Seeds)
  /\ Owner \in [Trees -> Actors]
  /\ Seeds \cap Requests = {} /\ Memories \cap Trees = {}
  /\ "none" \notin Objects \cup Keys /\ {"absent", "untouched"} \cap Trees = {}
  /\ Scenarios \subseteq [Requests -> Calls]
  /\ Forests \subseteq [Seeds -> Rows]
  /\ \A forest \in Forests :
       /\ \A m \in Seeds : forest[m].parent # "none" =>
            forest[m].parent \in Seeds /\ forest[forest[m].parent].tree = forest[m].tree
       /\ \A M \in SUBSET Seeds : M # {} => \E m \in M : forest[m].parent \notin M
       /\ \A m, n \in Seeds :
            forest[m].key # "none" /\ forest[m].key = forest[n].key
            /\ forest[m].tree = forest[n].tree => m = n

VARIABLES
  rows,    \* committed rows of trees and memories
  writes,  \* uncommitted rows a request wrote: it holds these rows exclusively
  shared,  \* rows a request holds FOR KEY SHARE
  graph,   \* advisory lock on the parent graph of a tree: its holder
  pc,      \* the statement a request executes next
  call,    \* what a request asks for
  home,    \* tree_id that the owner check of a request returned
  todo,    \* rows the running multi-row statement has yet to take
  walk,    \* ancestor walk of a reparenting: where it is, where it has been
  result,  \* the memory a creation returns
  answer   \* the HTTP answer

locks == <<writes, shared, graph>>
vars == <<rows, writes, shared, graph, pc, call, home, todo, walk, result, answer>>

-----------------------------------------------------------------------------
\* Multi-row statements, and their names once they have read their snapshot.
Sweeps == {"clear", "erase", "orphan", "cascade"}
Taking == [clear |-> "clearing", erase |-> "erasing",
           orphan |-> "orphaning", cascade |-> "cascading"]
Takings == {Taking[s] : s \in Sweeps}

Rereads == {"rereadExisting", "rereadConflict", "rereadInserted"}

Statements == Sweeps \cup Takings \cup Rereads \cup
  {"owner", "parent", "existing", "insert", "reference", "graphLock", "source",
   "target", "ancestors", "update", "remove", "dropTree"}

Answers == {"none", "success", "refused", "conflict", "missing", "failed", "unknown"}

Nobody == "none"
Idle == [at |-> "none", seen |-> {}]
Nothing == [o \in Objects |-> Untouched]

TypeOK ==
  /\ rows \in [Objects -> Rows \cup {Absent}]
  /\ writes \in [Requests -> [Objects -> Rows \cup {Absent, Untouched}]]
  /\ shared \in [Requests -> SUBSET Objects]
  /\ graph \in [Trees -> Requests \cup {Nobody}]
  /\ pc \in [Requests -> Statements \cup {"committing", "committed", "aborting",
                                          "closed"}]
  /\ call \in [Requests -> Calls]
  /\ home \in [Requests -> Trees \cup {"none"}]
  /\ todo \in [Requests -> SUBSET Memories]
  /\ walk \in [Requests -> [at : Memories \cup {"none"}, seen : SUBSET Memories]]
  /\ result \in [Requests -> Memories \cup {"none"}]
  /\ answer \in [Requests -> Answers]

TreeRow(t) == [tree |-> t, parent |-> "none", key |-> "none"]

Init ==
  /\ \E forest \in Forests :
       rows = [o \in Objects |-> IF o \in Trees THEN TreeRow(o)
                                 ELSE IF o \in Seeds THEN forest[o] ELSE Absent]
  /\ writes = [r \in Requests |-> Nothing]
  /\ shared = [r \in Requests |-> {}]
  /\ graph = [t \in Trees |-> Nobody]
  /\ pc = [r \in Requests |-> "owner"]
  /\ call \in Scenarios
  /\ home = [r \in Requests |-> "none"]
  /\ todo = [r \in Requests |-> {}]
  /\ walk = [r \in Requests |-> Idle]
  /\ result = [r \in Requests |-> "none"]
  /\ answer = [r \in Requests |-> "none"]

-----------------------------------------------------------------------------
Op(r)     == call[r].op
parent(r) == call[r].parent

\* What a statement of r sees: committed rows, and what r itself wrote.
Seen(r, o) == IF writes[r][o] = Untouched THEN rows[o] ELSE writes[r][o]

\* FOR KEY SHARE waits for a deleter of the row, UPDATE for every writer, DELETE
\* for every locker.
NoDeleter(r, o) == \A q \in Requests \ {r} : writes[q][o] # Absent
NoWriter(r, o)  == \A q \in Requests \ {r} : writes[q][o] = Untouched
NoSharer(r, o)  == \A q \in Requests \ {r} : o \notin shared[q]

At(r, statement) == pc[r] = statement
Go(r, statement) == pc' = [pc EXCEPT ![r] = statement]

Write(r, o, row) == writes' = [writes EXCEPT ![r][o] = row]
Share(r, os)     == shared' = [shared EXCEPT ![r] = @ \cup os]

\* work() throws: ROLLBACK, and this answer.
Refuse(r, code) ==
  /\ Go(r, "aborting")
  /\ answer' = [answer EXCEPT ![r] = code]

\* The first statement of every writer: the row exists and its tree is the actor's.
Owned(r) == rows[call[r].of] # Absent
            /\ Owner[rows[call[r].of].tree] = call[r].actor

AfterOwner(r) ==
  CASE Op(r) = "create" -> IF parent(r) # "none" THEN "parent"
                           ELSE IF call[r].key # "none" THEN "existing" ELSE "insert"
    [] Op(r) = "update" -> IF parent(r) # "none" THEN "graphLock" ELSE "update"
    [] OTHER            -> "clear"

\* Mutant: the id of the memory is taken for the id of its tree.
ReadOwnerWrongId(r) ==
  /\ At(r, "owner")
  /\ IF Owned(r)
     THEN /\ home' = [home EXCEPT ![r] = call[r].of]
          /\ Go(r, AfterOwner(r))
          /\ UNCHANGED answer
     ELSE Refuse(r, "refused") /\ UNCHANGED home
  /\ UNCHANGED <<rows, locks, call, todo, walk, result>>

ReadOwner(r) ==
  /\ At(r, "owner")
  /\ IF Owned(r)
     THEN /\ home' = [home EXCEPT ![r] = rows[call[r].of].tree]
          /\ Go(r, AfterOwner(r))
          /\ UNCHANGED answer
     ELSE Refuse(r, "refused") /\ UNCHANGED home
  /\ UNCHANGED <<rows, locks, call, todo, walk, result>>

-----------------------------------------------------------------------------
(* Creation: persistMemoryCreate.                                          *)

\* Mutant: the parent's tree is not compared.
LockParentAnyTree(r) ==
  /\ At(r, "parent")
  /\ NoDeleter(r, parent(r))
  /\ IF rows[parent(r)] # Absent
     THEN /\ Share(r, {parent(r)})
          /\ Go(r, IF call[r].key # "none" THEN "existing" ELSE "insert")
          /\ UNCHANGED answer
     ELSE Refuse(r, "refused") /\ UNCHANGED shared
  /\ UNCHANGED <<rows, writes, graph, call, home, todo, walk, result>>

\* SELECT ... FOR KEY SHARE of the parent, which must belong to the tree.
LockParent(r) ==
  /\ At(r, "parent")
  /\ NoDeleter(r, parent(r))
  /\ IF rows[parent(r)] # Absent
     THEN Share(r, {parent(r)})
          /\ IF rows[parent(r)].tree = home[r]
             THEN Go(r, IF call[r].key # "none" THEN "existing" ELSE "insert")
                  /\ UNCHANGED answer
             ELSE Refuse(r, "refused")
     ELSE Refuse(r, "refused") /\ UNCHANGED shared
  /\ UNCHANGED <<rows, writes, graph, call, home, todo, walk, result>>

\* The row holds the client key of r in its tree.
Bound(r, row) == row.tree = home[r] /\ row.key = call[r].key

\* Mutant: the pre-check does not lock the row it found.
FindExistingUnlocked(r) ==
  /\ At(r, "existing")
  /\ Go(r, IF \E m \in Memories : Bound(r, rows[m]) THEN "rereadExisting" ELSE "insert")
  /\ UNCHANGED <<rows, locks, call, home, todo, walk, result, answer>>

\* SELECT ... FOR KEY SHARE by (tree_id, client_key): committed rows only.
FindExisting(r) ==
  /\ At(r, "existing")
  /\ LET found == {m \in Memories : Bound(r, rows[m])} IN
       /\ \A m \in found : NoDeleter(r, m)
       /\ Share(r, found)
       /\ Go(r, IF found # {} THEN "rereadExisting" ELSE "insert")
  /\ UNCHANGED <<rows, writes, graph, call, home, todo, walk, result, answer>>

NewRow(r) == [tree |-> home[r], parent |-> parent(r), key |-> call[r].key]

\* Mutant: a SELECT for the key and a plain INSERT.
InsertUnwaited(r) ==
  /\ At(r, "insert")
  /\ IF call[r].key # "none" /\ \E m \in Memories : Bound(r, rows[m])
     THEN Go(r, "rereadConflict") /\ UNCHANGED writes
     ELSE Write(r, r, NewRow(r)) /\ Go(r, "reference")
  /\ UNCHANGED <<rows, shared, graph, call, home, todo, walk, result, answer>>

\* INSERT ... ON CONFLICT (tree_id, client_key) DO NOTHING waits for every other
\* writer of the key; without a key nothing conflicts.
Insert(r) ==
  /\ At(r, "insert")
  /\ IF call[r].key = "none"
     THEN Write(r, r, NewRow(r)) /\ Go(r, "reference")
     ELSE /\ \A q \in Requests \ {r}, m \in Memories :
               writes[q][m] # Untouched =>
                 ~Bound(r, writes[q][m]) /\ ~Bound(r, rows[m])
          /\ IF \E m \in Memories : Bound(r, rows[m])
             THEN Go(r, "rereadConflict") /\ UNCHANGED writes
             ELSE Write(r, r, NewRow(r)) /\ Go(r, "reference")
  /\ UNCHANGED <<rows, shared, graph, call, home, todo, walk, result, answer>>

\* Rows whose existence the statement's foreign keys demand.
Referenced(r) ==
  (IF Op(r) = "create" THEN {home[r]} ELSE {})
    \cup (IF parent(r) # "none" THEN {parent(r)} ELSE {})

\* The foreign-key checks of INSERT and UPDATE lock the rows FOR KEY SHARE; a
\* violation fails the statement.
CheckReferences(r) ==
  /\ At(r, "reference")
  /\ \A o \in Referenced(r) : NoDeleter(r, o)
  /\ IF \A o \in Referenced(r) : rows[o] # Absent
     THEN /\ Share(r, Referenced(r))
          /\ Go(r, IF Op(r) = "create" THEN "rereadInserted" ELSE "committing")
          /\ UNCHANGED answer
     ELSE Refuse(r, "failed") /\ UNCHANGED shared
  /\ UNCHANGED <<rows, writes, graph, call, home, todo, walk, result>>

\* canonicalRereadAndVerify: by id after an insert, else by client key.
Reread(r) ==
  /\ pc[r] \in Rereads
  /\ LET found == IF At(r, "rereadInserted") THEN {r}
                  ELSE {m \in Memories : Bound(r, Seen(r, m))}
     IN IF found # {}
        THEN /\ \E m \in found : result' = [result EXCEPT ![r] = m]
             /\ Go(r, "committing")
             /\ UNCHANGED answer
        ELSE /\ Refuse(r, IF At(r, "rereadConflict") THEN "conflict" ELSE "missing")
             /\ UNCHANGED result
  /\ UNCHANGED <<rows, locks, call, home, todo, walk>>

-----------------------------------------------------------------------------
(* Reparenting: runUpdateWork, validateReparentLocked.                     *)

\* Mutant: no advisory lock.
TakeGraphLockNever(r) ==
  /\ At(r, "graphLock")
  /\ IF parent(r) = call[r].of THEN Refuse(r, "refused")
     ELSE Go(r, "source") /\ UNCHANGED answer
  /\ UNCHANGED <<rows, locks, call, home, todo, walk, result>>

\* pg_advisory_xact_lock of the tree's key; then a memory may not be its own parent.
TakeGraphLock(r) ==
  /\ At(r, "graphLock")
  /\ graph[home[r]] = Nobody
  /\ graph' = [graph EXCEPT ![home[r]] = r]
  /\ IF parent(r) = call[r].of THEN Refuse(r, "refused")
     ELSE Go(r, "source") /\ UNCHANGED answer
  /\ UNCHANGED <<rows, writes, shared, call, home, todo, walk, result>>

ReadSource(r) ==
  /\ At(r, "source")
  /\ IF Owned(r) THEN Go(r, "target") /\ UNCHANGED answer ELSE Refuse(r, "refused")
  /\ UNCHANGED <<rows, locks, call, home, todo, walk, result>>

\* The new parent exists, in the same tree.
ReadTarget(r) ==
  /\ At(r, "target")
  /\ IF rows[parent(r)].tree = home[r]
     THEN /\ Go(r, "ancestors")
          /\ walk' = [walk EXCEPT ![r].at = parent(r)]
          /\ UNCHANGED answer
     ELSE Refuse(r, "refused") /\ UNCHANGED walk
  /\ UNCHANGED <<rows, locks, call, home, todo, result>>

\* One turn of the ancestor walk, a statement of its own.
ReadAncestor(r) ==
  /\ At(r, "ancestors")
  /\ LET at == walk[r].at IN
       IF at \in walk[r].seen \cup {call[r].of}
       THEN Refuse(r, "refused") /\ walk' = [walk EXCEPT ![r] = Idle]
       ELSE IF rows[at].parent = "none"
       THEN Go(r, "update") /\ walk' = [walk EXCEPT ![r] = Idle] /\ UNCHANGED answer
       ELSE /\ walk' = [walk EXCEPT ![r] =
                          [at |-> rows[at].parent, seen |-> @.seen \cup {at}]]
            /\ UNCHANGED <<pc, answer>>
  /\ UNCHANGED <<rows, locks, call, home, todo, result>>

\* UPDATE memories SET parent_id: no foreign-key check when it stays the same.
Update(r) ==
  LET m == call[r].of IN
  /\ At(r, "update")
  /\ NoWriter(r, m)
  /\ IF rows[m] = Absent THEN Refuse(r, "refused") /\ UNCHANGED writes
     ELSE /\ Write(r, m, [rows[m] EXCEPT !.parent = parent(r)])
          /\ Go(r, IF parent(r) \in {"none", rows[m].parent} THEN "committing"
                   ELSE "reference")
          /\ UNCHANGED answer
  /\ UNCHANGED <<rows, shared, graph, call, home, todo, walk, result>>

-----------------------------------------------------------------------------
(* Deletion of a memory, and of a tree with its memories.                  *)

\* WHERE clauses: children of the memory, or memories of the tree with a parent
\* ("clear"); memories of the tree ("erase", and the cascade of trees(id)); rows
\* whose parent the request deleted (ON DELETE SET NULL of parent_id).
Qualifies(r, sweep, m) ==
  LET row == Seen(r, m) IN
  /\ row # Absent
  /\ CASE sweep = "clear" ->
            row.tree = home[r] /\ IF Op(r) = "delete" THEN row.parent = call[r].of
                                  ELSE row.parent # "none"
       [] sweep \in {"erase", "cascade"} -> row.tree = home[r]
       [] sweep = "orphan" -> row.parent # "none" /\ Seen(r, row.parent) = Absent

AfterSweep(r, sweep) ==
  CASE sweep = "clear"   -> IF Op(r) = "delete" THEN "remove" ELSE "erase"
    [] sweep = "erase"   -> "orphan"
    [] sweep = "orphan"  -> IF Op(r) = "delete" \/ writes[r][home[r]] = Absent
                            THEN "committing" ELSE "dropTree"
    [] sweep = "cascade" -> "orphan"

\* The statement reads its snapshot: later commits add no row to it.
Scan(r, sweep) ==
  LET found == {m \in Memories : Qualifies(r, sweep, m)} IN
  /\ At(r, sweep)
  /\ todo' = [todo EXCEPT ![r] = found]
  /\ Go(r, IF found = {} THEN AfterSweep(r, sweep) ELSE Taking[sweep])
  /\ UNCHANGED <<rows, locks, call, home, walk, result, answer>>

Erases(sweep) == sweep \in {"erase", "cascade"}

\* The statement takes one row, once its lockers are gone, if it still qualifies.
Take(r, sweep, m) ==
  /\ At(r, Taking[sweep]) /\ m \in todo[r]
  /\ NoWriter(r, m) /\ (Erases(sweep) => NoSharer(r, m))
  /\ IF Qualifies(r, sweep, m)
     THEN Write(r, m, IF Erases(sweep) THEN Absent
                      ELSE [Seen(r, m) EXCEPT !.parent = "none"])
     ELSE UNCHANGED writes
  /\ todo' = [todo EXCEPT ![r] = @ \ {m}]
  /\ Go(r, IF todo[r] = {m} THEN AfterSweep(r, sweep) ELSE Taking[sweep])
  /\ UNCHANGED <<rows, shared, graph, call, home, walk, result, answer>>

\* Deletes one row, or refuses when another transaction deleted it.
Delete(r, o, next) ==
  /\ NoWriter(r, o) /\ NoSharer(r, o)
  /\ IF Seen(r, o) # Absent
     THEN Write(r, o, Absent) /\ Go(r, next) /\ UNCHANGED answer
     ELSE Refuse(r, "refused") /\ UNCHANGED writes
  /\ UNCHANGED <<rows, shared, graph, call, home, todo, walk, result>>

RemoveMemory(r) == At(r, "remove") /\ Delete(r, call[r].of, "orphan")
DropTree(r)     == At(r, "dropTree") /\ Delete(r, home[r], "cascade")

-----------------------------------------------------------------------------
(* The end of a transaction.                                               *)

Release(r) ==
  /\ writes' = [writes EXCEPT ![r] = Nothing]
  /\ shared' = [shared EXCEPT ![r] = {}]
  /\ graph' = [t \in Trees |-> IF graph[t] = r THEN Nobody ELSE graph[t]]

\* The server makes r's writes durable and releases its locks.
CommitDurable(r) ==
  /\ At(r, "committing")
  /\ rows' = [o \in Objects |-> Seen(r, o)]
  /\ Release(r)
  /\ Go(r, IF answer[r] = "none" THEN "committed" ELSE "closed")
  /\ UNCHANGED <<call, home, todo, walk, result, answer>>

\* COMMIT never reaches the server, or is refused: nothing becomes durable.
CommitLost(r) ==
  /\ At(r, "committing")
  /\ Release(r)
  /\ Go(r, "closed")
  /\ answer' = [answer EXCEPT ![r] = "unknown"]
  /\ UNCHANGED <<rows, call, home, todo, walk, result>>

\* Mutant: a COMMIT without acknowledgement is answered like a failed statement.
AnswerFailed(r) ==
  /\ At(r, "committing") /\ answer[r] = "none"
  /\ answer' = [answer EXCEPT ![r] = "failed"]
  /\ UNCHANGED <<rows, locks, pc, call, home, todo, walk, result>>

\* The socket dies while COMMIT is in flight: the server decides after the answer.
AnswerUnknown(r) ==
  /\ At(r, "committing") /\ answer[r] = "none"
  /\ answer' = [answer EXCEPT ![r] = "unknown"]
  /\ UNCHANGED <<rows, locks, pc, call, home, todo, walk, result>>

\* The acknowledgement of a durable COMMIT arrives, or the socket died first.
Acknowledge(r) ==
  /\ At(r, "committed")
  /\ \E code \in {"success", "unknown"} : answer' = [answer EXCEPT ![r] = code]
  /\ Go(r, "closed")
  /\ UNCHANGED <<rows, locks, call, home, todo, walk, result>>

\* A statement rejects: timeout, lost connection, deadlock, server error.
Fail(r) ==
  /\ pc[r] \in Statements
  /\ Refuse(r, "failed")
  /\ walk' = [walk EXCEPT ![r] = Idle]
  /\ UNCHANGED <<rows, locks, call, home, todo, result>>

\* The server rolls the transaction back.
Discard(r) ==
  /\ At(r, "aborting")
  /\ Release(r)
  /\ todo' = [todo EXCEPT ![r] = {}]
  /\ Go(r, "closed")
  /\ UNCHANGED <<rows, call, home, walk, result, answer>>

Finished ==
  /\ \A r \in Requests : At(r, "closed")
  /\ UNCHANGED vars

Next ==
  \/ \E r \in Requests :
       \/ ReadOwner(r)
       \/ LockParent(r) \/ FindExisting(r) \/ Insert(r) \/ CheckReferences(r)
       \/ Reread(r)
       \/ TakeGraphLock(r) \/ ReadSource(r) \/ ReadTarget(r) \/ ReadAncestor(r)
       \/ Update(r)
       \/ \E sweep \in Sweeps :
            Scan(r, sweep) \/ \E m \in Memories : Take(r, sweep, m)
       \/ RemoveMemory(r) \/ DropTree(r)
       \/ CommitDurable(r) \/ CommitLost(r) \/ AnswerUnknown(r) \/ Acknowledge(r)
       \/ Fail(r) \/ Discard(r)
  \/ Finished

Spec == Init /\ [][Next]_vars

-----------------------------------------------------------------------------
(* Properties.                                                             *)

Living == {m \in Memories : rows[m] # Absent}

\* No sequence of concurrent reparentings closes a cycle, although each checks
\* its ancestors statement by statement before it writes: every set of memories
\* has one whose parent is outside it.
Acyclic ==
  \A M \in SUBSET Living : M # {} => \E m \in M : rows[m].parent \notin M

\* A memory never outlives its tree, and its parent is a living memory of the same
\* tree, whatever is created, moved and deleted at the same time.
ReferencesHold ==
  \A m \in Living :
    /\ rows[rows[m].tree] # Absent
    /\ rows[m].parent # "none" =>
         rows[m].parent \in Living /\ rows[rows[m].parent].tree = rows[m].tree

\* A client key names at most one memory of its tree: concurrent retries of a
\* creation converge ("an already persisted (tree_id, client_key) row wins",
\* src/functions/_shared/memory-create-direct-neon.js:729-730).
KeyNamesOneMemory ==
  \A m, n \in Living :
    rows[m].key # "none" /\ rows[m].key = rows[n].key /\ rows[m].tree = rows[n].tree
    => m = n

\* A creation that found its key, or inserted, always finds the row to return:
\* no interleaving with deletions ends in CANONICAL_MISSING (500).
NeverMissing == \A r \in Requests : answer[r] # "missing"

\* Success of a deletion means gone for good; a creation that is refused or failed
\* leaves no memory behind, and one that succeeds returns the memory of its key.
AnswersAreTrue ==
  \A r \in Requests :
    /\ answer[r] = "success" /\ Op(r) = "delete" => call[r].of \notin Living
    /\ answer[r] = "success" /\ Op(r) = "drop" =>
         \A m \in Living : rows[m].tree # call[r].of
    /\ answer[r] \in {"refused", "conflict", "failed"} => r \notin Living
    /\ answer[r] = "success" /\ Op(r) = "create" /\ result[r] \in Living =>
         rows[result[r]].tree = call[r].of /\ rows[result[r]].key = call[r].key

\* The creation has found its key in use: it will write nothing.
Found(r) == Op(r) = "create" /\ At(r, "committing") /\ writes[r][r] = Untouched

\* What the callers, and the rows, know of a request.
Stage(r) ==
  CASE answer[r] = "success" -> "answered"
    [] answer[r] \in {"refused", "conflict", "missing", "failed"} -> "refused"
    [] answer[r] \in {"none", "unknown"} ->
         IF At(r, "committed") \/ Found(r) THEN "done"
         ELSE IF At(r, "closed") THEN "over" ELSE "open"

Returning(r) ==
  IF Op(r) = "create" /\ Stage(r) \in {"done", "answered"} THEN result[r] ELSE "none"

Forest == INSTANCE AtomicForest WITH
  stage <- [r \in Requests |-> Stage(r)],
  result <- [r \in Requests |-> Returning(r)]

\* Creations, moves and deletions, of many statements each and interleaved in any way,
\* are as good as atomic ones on a forest: they take effect at one instant, where what
\* they checked holds, change nothing else, and are answered truthfully.
ImplementsForest == Forest!Spec

\* A memory leaves a parent only when that parent goes, or by its own reparenting:
\* the deletion of a former parent does not pull it out of its new place.
MovesStand ==
  [][\A m \in Memories :
       m \in Living /\ rows'[m] # Absent /\ rows'[m].parent # rows[m].parent =>
         \/ rows[m].parent # "none" /\ rows'[rows[m].parent] = Absent
         \/ \E r \in Requests : Op(r) = "update" /\ call[r].of = m
                                /\ At(r, "committing") /\ pc'[r] # "committing"]_vars
=============================================================================
