------------------------------ MODULE TreeLike ------------------------------
(***************************************************************************)
(* Concurrent POST /api/trees/:id/likes requests on one PostgreSQL         *)
(* database.  Each request runs runLikeWork in a READ COMMITTED            *)
(* transaction, one statement at a time, interleaved with the statements   *)
(* of the other requests and with the owner changing the visibility of a   *)
(* tree.  A transaction may fail at any statement, its COMMIT may be lost, *)
(* and the acknowledgement of a COMMIT may be lost or overtaken by the     *)
(* answer to the caller.                                                   *)
(*                                                                         *)
(* Source: src/functions/_shared/tree-like-direct-neon.js; the tables are  *)
(* those of src/scripts/migration-add-tree-social-counts.sql.              *)
(***************************************************************************)
EXTENDS Integers, FiniteSets

CONSTANTS
  Actors,     \* verified principals
  Trees,      \* trees that exist; all public at first
  Keys,       \* Idempotency-Key values, chosen by the clients
  Requests,   \* HTTP requests, retries of one another included
  MaxFlips    \* bound: how often owners change a visibility

ASSUME TreeLikeAssumption ==
  /\ MaxFlips \in Nat
  /\ IsFiniteSet(Actors)

VARIABLES
  public,   \* trees whose committed visibility is 'public'
  flips,    \* visibility changes so far
  likes,    \* committed active rows of tree_likes
  counts,   \* committed tree_social_counts.like_count
  ledger,   \* committed social_idempotency rows of tree.like.toggle
  pc,       \* the statement a request executes next
  call,     \* actor, tree and key of a request
  liked,    \* what "fetch active like" found
  row,      \* the social_idempotency row the request wrote or replays
  held,     \* row and advisory locks of the request's transaction
  answer    \* the HTTP answer

database == <<public, flips, likes, counts, ledger>>
vars == <<public, flips, likes, counts, ledger, pc, call, liked, row, held,
          answer>>

-----------------------------------------------------------------------------
Calls == [actor : Actors, tree : Trees, key : Keys]

NoRow == [state |-> "absent"]
NoCount == -1

Pending(t) ==
  [state |-> "pending", tree |-> t, active |-> FALSE, count |-> 0]

Rows == {NoRow} \cup [state : {"pending", "completed"}, tree : Trees,
                      active : BOOLEAN, count : Nat]

TreeRow(t)        == <<"tree", t>>         \* shared: FOR SHARE
ActorTree(a, t)   == <<"advisory", a, t>>  \* pg_advisory_xact_lock
CountsRow(t)      == <<"counts", t>>
KeyRow(a, k)      == <<"key", a, k>>
LikeRow(a, t)     == <<"like", a, t>>

Locks == {TreeRow(t) : t \in Trees} \cup {CountsRow(t) : t \in Trees}
         \cup {ActorTree(a, t) : a \in Actors, t \in Trees}
         \cup {LikeRow(a, t) : a \in Actors, t \in Trees}
         \cup {KeyRow(a, k) : a \in Actors, k \in Keys}

Statements == {"authorize", "lock", "ensure", "lookup", "reserve", "read",
               "like", "count", "complete"}

Answers == {"none", "success", "not_found", "key_reused", "unavailable",
            "failed", "unknown"}

TypeOK ==
  /\ public \subseteq Trees
  /\ flips \in 0..MaxFlips
  /\ likes \subseteq Actors \X Trees
  /\ counts \in [Trees -> Nat \cup {NoCount}]
  /\ ledger \in [Actors \X Keys -> Rows]
  /\ pc \in [Requests -> Statements \cup {"committing", "committed", "aborting",
                                          "closed"}]
  /\ call \in [Requests -> Calls]
  /\ liked \in [Requests -> {"unread", "yes", "no"}]
  /\ row \in [Requests -> Rows]
  /\ held \in [Requests -> SUBSET Locks]
  /\ answer \in [Requests -> Answers]

Init ==
  /\ public = Trees
  /\ flips = 0
  /\ likes = {}
  /\ counts = [t \in Trees |-> NoCount]
  /\ ledger = [ak \in Actors \X Keys |-> NoRow]
  /\ pc = [r \in Requests |-> "authorize"]
  /\ call \in [Requests -> Calls]
  /\ liked = [r \in Requests |-> "unread"]
  /\ row = [r \in Requests |-> NoRow]
  /\ held = [r \in Requests |-> {}]
  /\ answer = [r \in Requests |-> "none"]

-----------------------------------------------------------------------------
actor(r) == call[r].actor
tree(r)  == call[r].tree
key(r)   == call[r].key

Free(r, lock) == \A q \in Requests \ {r} : lock \notin held[q]

Hold(r, lock) == held' = [held EXCEPT ![r] = @ \cup {lock}]

At(r, statement) == pc[r] = statement
Go(r, statement) == pc' = [pc EXCEPT ![r] = statement]

\* The request has a statement to execute, or an end to come to, that need not wait:
\* the advisory lock is free, INSERT ... ON CONFLICT meets no uncommitted row of its
\* key, UPDATE no locked row.  A committed row of counts is no conflict; a second
\* active like would violate idx_tree_likes_tree_owner_active.
Ready(r) ==
  /\ ~At(r, "closed")
  /\ At(r, "lock")    => Free(r, ActorTree(actor(r), tree(r)))
  /\ At(r, "ensure")  => counts[tree(r)] # NoCount \/ Free(r, CountsRow(tree(r)))
  /\ At(r, "reserve") => Free(r, KeyRow(actor(r), key(r)))
  /\ At(r, "like")    => /\ Free(r, LikeRow(actor(r), tree(r)))
                         /\ liked[r] = "no" => <<actor(r), tree(r)>> \notin likes
  /\ At(r, "count")   => Free(r, CountsRow(tree(r)))

\* work() throws with workSignal.outcome set: the transaction rolls back and the
\* outcome becomes the answer.  The locks go with the ROLLBACK, which the server
\* may see after the caller saw the answer (ROLLBACK on a dead socket).
Refuse(r, code) ==
  /\ Go(r, "aborting")
  /\ answer' = [answer EXCEPT ![r] = code]

-----------------------------------------------------------------------------
(* The statements of runLikeWork.                                          *)

\* Mutant: the authorization read does not lock the tree row.
AuthorizeUnlocked(r) ==
  /\ At(r, "authorize")
  /\ UNCHANGED <<database, call, liked, row, held>>
  /\ \/ tree(r) \in public /\ Go(r, "lock") /\ UNCHANGED answer
     \/ tree(r) \notin public /\ Refuse(r, "not_found")

\* SELECT ... FROM trees WHERE visibility = 'public' FOR SHARE.
Authorize(r) ==
  /\ At(r, "authorize")
  /\ UNCHANGED <<database, call, liked, row>>
  /\ \/ tree(r) \in public /\ Hold(r, TreeRow(tree(r)))
        /\ Go(r, "lock") /\ UNCHANGED answer
     \/ tree(r) \notin public /\ Refuse(r, "not_found") /\ UNCHANGED held

\* pg_advisory_xact_lock(actor, tree) waits for the other holder to end.
Lock(r) ==
  /\ At(r, "lock") /\ Ready(r)
  /\ Hold(r, ActorTree(actor(r), tree(r)))
  /\ Go(r, "ensure")
  /\ UNCHANGED <<database, call, liked, row, answer>>

\* INSERT INTO tree_social_counts ... ON CONFLICT DO NOTHING waits for an
\* uncommitted insert of the same row and ignores a committed one.
EnsureCounts(r) ==
  /\ At(r, "ensure") /\ Ready(r)
  /\ IF counts[tree(r)] # NoCount THEN UNCHANGED held ELSE Hold(r, CountsRow(tree(r)))
  /\ Go(r, "lookup")
  /\ UNCHANGED <<database, call, liked, row, answer>>

\* Mutant: a replay does not compare the stored target.
VerifyAnyTarget(r, stored) ==
  IF stored.state = "completed"
  THEN /\ row' = [row EXCEPT ![r] = stored]
       /\ Go(r, "committing")
       /\ UNCHANGED answer
  ELSE /\ Refuse(r, "unavailable")
       /\ UNCHANGED row

\* verifyIdempotencyRow: another target, a replay, or still pending.
Verify(r, stored) ==
  IF stored.tree = tree(r) /\ stored.state = "completed"
  THEN /\ row' = [row EXCEPT ![r] = stored]
       /\ Go(r, "committing")
       /\ UNCHANGED answer
  ELSE /\ Refuse(r, IF stored.tree = tree(r) THEN "unavailable" ELSE "key_reused")
       /\ UNCHANGED row

\* SELECT ... FROM social_idempotency: sees committed rows only.
Lookup(r) ==
  /\ At(r, "lookup")
  /\ LET stored == ledger[<<actor(r), key(r)>>] IN
       IF stored = NoRow THEN Go(r, "reserve") /\ UNCHANGED <<row, answer>>
       ELSE Verify(r, stored)
  /\ UNCHANGED <<database, call, liked, held>>

\* INSERT ... ON CONFLICT DO UPDATE ... RETURNING waits for an uncommitted row of
\* the same (actor, key); what it returns is its own row or the committed one.
Reserve(r) ==
  /\ At(r, "reserve") /\ Ready(r)
  /\ Hold(r, KeyRow(actor(r), key(r)))
  /\ LET stored == ledger[<<actor(r), key(r)>>] IN
       IF stored = NoRow
       THEN /\ row' = [row EXCEPT ![r] = Pending(tree(r))]
            /\ Go(r, "read")
            /\ UNCHANGED answer
       ELSE Verify(r, stored)
  /\ UNCHANGED <<database, call, liked>>

\* SELECT id FROM tree_likes WHERE ... deleted_at IS NULL.
ReadActive(r) ==
  /\ At(r, "read")
  /\ liked' = [liked EXCEPT ![r] =
                 IF <<actor(r), tree(r)>> \in likes THEN "yes" ELSE "no"]
  /\ Go(r, "like")
  /\ UNCHANGED <<database, call, row, held, answer>>

\* Soft delete the row that was read, or insert one; a second active row of the
\* same actor and tree would violate idx_tree_likes_tree_owner_active.
WriteLike(r) ==
  /\ At(r, "like") /\ Ready(r)
  /\ Hold(r, LikeRow(actor(r), tree(r)))
  /\ Go(r, "count")
  /\ UNCHANGED <<database, call, liked, row, answer>>

Floor0(n) == IF n < 0 THEN 0 ELSE n

\* like_count as r's UPDATE sees it: committed, or the row r itself inserted.
CurrentCount(r) == IF counts[tree(r)] = NoCount THEN 0 ELSE counts[tree(r)]

\* Mutant: like_count is computed from a value read without the row lock.
WriteCountUnlocked(r) ==
  /\ At(r, "count")
  /\ row' = [row EXCEPT ![r].active = (liked[r] = "no"),
                        ![r].count = IF liked[r] = "no" THEN CurrentCount(r) + 1
                                     ELSE Floor0(CurrentCount(r) - 1)]
  /\ Go(r, "complete")
  /\ UNCHANGED <<database, call, liked, held, answer>>

\* UPDATE tree_social_counts waits for the row lock, then updates its latest
\* committed version; the reread of like_count sees r's own update.
WriteCount(r) ==
  /\ At(r, "count") /\ Ready(r)
  /\ Hold(r, CountsRow(tree(r)))
  /\ row' = [row EXCEPT ![r].active = (liked[r] = "no"),
                        ![r].count = IF liked[r] = "no" THEN CurrentCount(r) + 1
                                     ELSE Floor0(CurrentCount(r) - 1)]
  /\ Go(r, "complete")
  /\ UNCHANGED <<database, call, liked, answer>>

\* Mutant: the row is completed with a state the table does not know.
CompleteUnknownState(r) ==
  /\ At(r, "complete")
  /\ row' = [row EXCEPT ![r].state = "success"]
  /\ Go(r, "committing")
  /\ UNCHANGED <<database, call, liked, held, answer>>

\* UPDATE social_idempotency SET result_state = 'completed'; work() returns.
Complete(r) ==
  /\ At(r, "complete")
  /\ row' = [row EXCEPT ![r].state = "completed"]
  /\ Go(r, "committing")
  /\ UNCHANGED <<database, call, liked, held, answer>>

-----------------------------------------------------------------------------
(* COMMIT, its acknowledgement, and everything that goes wrong.            *)

Toggles(r) == liked[r] # "unread"

\* The server makes r's writes durable and releases its locks.
CommitDurable(r) ==
  /\ At(r, "committing")
  /\ likes' = CASE liked[r] = "no"     -> likes \cup {<<actor(r), tree(r)>>}
                [] liked[r] = "yes"    -> likes \ {<<actor(r), tree(r)>>}
                [] liked[r] = "unread" -> likes
  /\ counts' = IF Toggles(r) THEN [counts EXCEPT ![tree(r)] = row[r].count]
               ELSE [counts EXCEPT ![tree(r)] = CurrentCount(r)]
  /\ ledger' = [ledger EXCEPT ![<<actor(r), key(r)>>] = row[r]]
  /\ held' = [held EXCEPT ![r] = {}]
  /\ Go(r, IF answer[r] = "none" THEN "committed" ELSE "closed")
  /\ UNCHANGED <<public, flips, call, liked, row, answer>>

\* COMMIT never reaches the server, or is refused: nothing becomes durable.
CommitLost(r) ==
  /\ At(r, "committing")
  /\ held' = [held EXCEPT ![r] = {}]
  /\ Go(r, "closed")
  /\ answer' = [answer EXCEPT ![r] = "unknown"]
  /\ UNCHANGED <<database, call, liked, row>>

\* The socket dies while COMMIT is in flight: the caller is answered 502 now, the
\* server decides later.
AnswerUnknown(r) ==
  /\ At(r, "committing") /\ answer[r] = "none"
  /\ answer' = [answer EXCEPT ![r] = "unknown"]
  /\ UNCHANGED <<database, pc, call, liked, row, held>>

\* COMMIT is durable; its acknowledgement arrives, or the socket died first.
Acknowledge(r) ==
  /\ At(r, "committed")
  /\ \E code \in {"success", "unknown"} : answer' = [answer EXCEPT ![r] = code]
  /\ Go(r, "closed")
  /\ UNCHANGED <<database, call, liked, row, held>>

\* A statement rejects: connection lost, statement timeout, server error.
Fail(r) ==
  /\ pc[r] \in Statements
  /\ Refuse(r, "failed")
  /\ UNCHANGED <<database, call, liked, row, held>>

\* Mutant: the session of a failed request is never ended.
DiscardKeepsLocks(r) ==
  /\ At(r, "aborting")
  /\ Go(r, "closed")
  /\ UNCHANGED <<database, call, liked, row, held, answer>>

\* The server rolls the transaction back and releases its locks.
Discard(r) ==
  /\ At(r, "aborting")
  /\ held' = [held EXCEPT ![r] = {}]
  /\ Go(r, "closed")
  /\ UNCHANGED <<database, call, liked, row, answer>>

\* The owner's UPDATE of trees.visibility waits for every FOR SHARE holder.
Flip(t) ==
  /\ flips < MaxFlips
  /\ \A r \in Requests : TreeRow(t) \notin held[r]
  /\ public' = IF t \in public THEN public \ {t} ELSE public \cup {t}
  /\ flips' = flips + 1
  /\ UNCHANGED <<likes, counts, ledger, pc, call, liked, row, held, answer>>

-----------------------------------------------------------------------------
Statement(r) ==
  \/ Authorize(r) \/ Lock(r) \/ EnsureCounts(r) \/ Lookup(r) \/ Reserve(r)
  \/ ReadActive(r) \/ WriteLike(r) \/ WriteCount(r) \/ Complete(r)

Progress(r) ==
  \/ Statement(r)
  \/ CommitDurable(r) \/ CommitLost(r) \/ Acknowledge(r) \/ Discard(r)

Finished ==
  /\ \A r \in Requests : At(r, "closed")
  /\ UNCHANGED vars

Next ==
  \/ \E r \in Requests : Progress(r) \/ AnswerUnknown(r) \/ Fail(r)
  \/ \E t \in Trees : Flip(t)
  \/ Finished

Spec == Init /\ [][Next]_vars

-----------------------------------------------------------------------------
(* Properties.                                                             *)

Ledger == INSTANCE ToggleLedger WITH
  results <- ledger,
  told <- {<<actor(r), key(r), [row[r] EXCEPT !.tree = tree(r)]>> :
             r \in {q \in Requests : answer[q] = "success"}}

\* Requests with any keys, retried and interleaved in any way, are as good as an
\* atomic ledger: one toggle per key, exact counts, and one durable result per key,
\* about the tree that was asked for, that every success of the key reports.
ImplementsLedger == Ledger!Spec

\* like_count is the number of active likes, whoever toggles concurrently: the
\* GREATEST(like_count - 1, 0) floor never hides a lost or doubled update.
CountMatchesLikes ==
  \A t \in Trees : (IF counts[t] = NoCount THEN 0 ELSE counts[t]) = Cardinality({a \in Actors : <<a, t>> \in likes})

\* Once an owner's change to private is committed, no like of the tree is added
\* or removed: authorization holds until the toggle is durable.
NoToggleAfterRevocation ==
  [][\A a \in Actors, t \in Trees :
       (<<a, t>> \in likes) # (<<a, t>> \in likes') => t \in public]_vars

\* Requests never all wait on locks of each other, or of a request that has ended:
\* as long as one has not ended, one can go on without failing.
NoRequestIsStuck ==
  \A r \in Requests : At(r, "closed") \/ \E q \in Requests : Ready(q)
=============================================================================
