-------------------------- MODULE TreeLike_proofs --------------------------
(***************************************************************************)
(* Proofs about TreeLike, for any actors, trees, keys and requests: the    *)
(* counts are exact, no toggle outlives a revocation, the requests         *)
(* implement the atomic ToggleLedger, and they never all wait.  The        *)
(* argument: what a transaction has read is locked until its COMMIT, so it *)
(* is still so at that instant, which is the one at which the ledger       *)
(* applies the key; and the locks are taken in one order.                  *)
(***************************************************************************)
EXTENDS TreeLike, FiniteSetTheorems, TLAPS

-----------------------------------------------------------------------------
(* The inductive invariant.                                                *)

\* Statements from which the advisory lock, and those from which the reservation of
\* the key, is held; the toggle is known from "like" on.
Writing == {"like", "count", "complete"}
Locked  == {"ensure", "lookup", "reserve", "read", "committing"} \cup Writing

Liking(r) == <<actor(r), tree(r)>> \in likes
Stored(r) == ledger[<<actor(r), key(r)>>]

\* What r's commit is about to make durable: a toggle, or a replay.
Toggling(r)  == pc[r] = "committing" /\ Toggles(r)
Replaying(r) == pc[r] = "committing" /\ ~Toggles(r)

\* A toggle is decided after the reservation.
TogglesLate ==
  \A r \in Requests :
    /\ pc[r] \in Statements \ Writing => ~Toggles(r)
    /\ pc[r] \in Writing => Toggles(r)

\* Only the tree rows are locked by several transactions at a time.
Exclusive ==
  \A r, q \in Requests : \A lock \in held[r] \cap held[q] :
    r = q \/ lock \in {TreeRow(t) : t \in Trees}

\* An authorized request has locked the tree, which is therefore still public.
AuthorizedStays ==
  \A r \in Requests :
    pc[r] \in {"lock"} \cup Locked => TreeRow(tree(r)) \in held[r] /\ tree(r) \in public

\* The requests of an actor on a tree take turns.
Serialized ==
  \A r \in Requests : pc[r] \in Locked => ActorTree(actor(r), tree(r)) \in held[r]

\* What was read of the like is still so when it is acted upon.
LikedAsRead(r) ==
  pc[r] \in Writing \cup {"committing"} /\ Toggles(r) =>
    (liked[r] = "yes" <=> Liking(r))

LikedStays == \A r \in Requests : LikedAsRead(r)

\* A key that is being applied is reserved, and has not been applied before.
Reserved(r) ==
  /\ KeyRow(actor(r), key(r)) \in held[r]
  /\ Stored(r) = NoRow
  /\ row[r] # NoRow /\ row[r].tree = tree(r)

Applying(r) == pc[r] \in {"read"} \cup Writing \/ Toggling(r)

ReservedStays == \A r \in Requests : Applying(r) => Reserved(r)

\* The count that the request is going to store is still one off the current one.
Counted(r) ==
  /\ CountsRow(tree(r)) \in held[r]
  /\ row[r].active = (liked[r] = "no")
  /\ row[r].count = IF liked[r] = "no" THEN CurrentCount(r) + 1
                    ELSE Floor0(CurrentCount(r) - 1)

Counting(r) == pc[r] = "complete" \/ Toggling(r)

CountedStays == \A r \in Requests : Counting(r) => Counted(r)

\* A row about to be committed is completed; durable ones are, and do not change.
Completed ==
  /\ \A a \in Actors, k \in Keys :
       ledger[<<a, k>>] # NoRow => ledger[<<a, k>>].state = "completed"
  /\ \A r \in Requests :
       pc[r] = "committing" => row[r] # NoRow /\ row[r].state = "completed"

\* The row of a replay, of a durable commit and of a success is the stored one.
Durable(r) == Replaying(r) \/ pc[r] = "committed" \/ answer[r] = "success"

AsStored(r) == Stored(r) = row[r] /\ row[r] # NoRow /\ row[r].tree = tree(r)

DurableStays == \A r \in Requests : Durable(r) => AsStored(r)

\* A success is the end of a request.
SuccessIsLast ==
  \A r \in Requests : answer[r] = "success" => pc[r] = "closed"

IInv ==
  /\ TypeOK
  /\ TogglesLate
  /\ Exclusive
  /\ AuthorizedStays
  /\ Serialized
  /\ LikedStays
  /\ ReservedStays
  /\ CountedStays
  /\ Completed
  /\ DurableStays
  /\ SuccessIsLast
  /\ CountMatchesLikes
-----------------------------------------------------------------------------
(* What a step does.                                                       *)

USE TreeLikeAssumption DEF database, At, actor, tree, key, Ready

\* A step of the transaction, or of the connection, of a request.
Step(r) == Progress(r) \/ AnswerUnknown(r) \/ Fail(r)

\* The locks that the statements take are locks.
LEMMA LocksAreLocks ==
  /\ \A t \in Trees : {TreeRow(t), CountsRow(t)} \subseteq Locks
  /\ \A a \in Actors, t \in Trees : {ActorTree(a, t), LikeRow(a, t)} \subseteq Locks
  /\ \A a \in Actors, k \in Keys : KeyRow(a, k) \in Locks
  BY DEF Locks

\* What a request names is an actor, a tree and a key.
LEMMA CallType ==
  ASSUME TypeOK, NEW r \in Requests
  PROVE  actor(r) \in Actors /\ tree(r) \in Trees /\ key(r) \in Keys
  BY DEF TypeOK, Calls

\* Taking one more lock keeps the type of held.
LEMMA HoldType ==
  ASSUME TypeOK, NEW r \in Requests, NEW lock \in Locks, Hold(r, lock)
  PROVE  held' \in [Requests -> SUBSET Locks]
  BY DEF TypeOK, Hold

\* The stored row of a request is a row; a row with a state other than "absent" has
\* all the columns.
LEMMA RowType ==
  ASSUME TypeOK, NEW r \in Requests
  PROVE  /\ Stored(r) \in Rows /\ row[r] \in Rows
         /\ Pending(tree(r)) \in Rows /\ Pending(tree(r)) # NoRow
         /\ CurrentCount(r) \in Nat
  BY CallType DEF TypeOK, Stored, Rows, Pending, NoRow, CurrentCount, NoCount

\* A request leaves the others alone, and the database unless it commits.
LEMMA StepEffect ==
  ASSUME TypeOK, NEW p \in Requests, Step(p)
  PROVE  /\ UNCHANGED <<public, flips, call>>
         /\ \A r \in Requests \ {p} :
              /\ pc'[r] = pc[r] /\ liked'[r] = liked[r] /\ row'[r] = row[r]
              /\ held'[r] = held[r] /\ answer'[r] = answer[r]
         /\ CommitDurable(p) \/ UNCHANGED <<likes, counts, ledger>>
  <1> USE DEF TypeOK
  <1>1. CASE Authorize(p)
    BY <1>1 DEF Authorize, Hold, Refuse, Go
  <1>2. CASE Lock(p)
    BY <1>2 DEF Lock, Hold, Go
  <1>3. CASE EnsureCounts(p)
    BY <1>3 DEF EnsureCounts, Hold, Go
  <1>4. CASE Lookup(p)
    BY <1>4 DEF Lookup, Verify, Refuse, Go
  <1>5. CASE Reserve(p)
    BY <1>5 DEF Reserve, Hold, Verify, Refuse, Go
  <1>6. CASE ReadActive(p)
    BY <1>6 DEF ReadActive, Go
  <1>7. CASE WriteLike(p)
    BY <1>7 DEF WriteLike, Hold, Go
  <1>8. CASE WriteCount(p)
    BY <1>8 DEF WriteCount, Hold, Go
  <1>9. CASE Complete(p)
    BY <1>9 DEF Complete, Go
  <1>10. CASE CommitDurable(p)
    BY <1>10 DEF CommitDurable, Go
  <1>11. CASE CommitLost(p)
    BY <1>11 DEF CommitLost, Go
  <1>12. CASE AnswerUnknown(p)
    BY <1>12 DEF AnswerUnknown
  <1>13. CASE Acknowledge(p)
    BY <1>13 DEF Acknowledge, Go
  <1>14. CASE Fail(p)
    BY <1>14 DEF Fail, Refuse, Go
  <1>15. CASE Discard(p)
    BY <1>15 DEF Discard, Go
  <1>16. QED
    BY <1>1, <1>2, <1>3, <1>4, <1>5, <1>6, <1>7, <1>8, <1>9, <1>10,
       <1>11, <1>12, <1>13, <1>14, <1>15 DEF Step, Progress, Statement

\* Locks are held until the end of the transaction; all but the tree row are free when
\* they are taken.
LEMMA StepHeld ==
  ASSUME TypeOK, NEW p \in Requests, Step(p)
  PROVE  \/ held'[p] = {} /\ pc'[p] \in {"committed", "closed"}
         \/ /\ held[p] \subseteq held'[p]
            /\ \A lock \in held'[p] \ held[p] : Free(p, lock) \/ lock = TreeRow(tree(p))
  <1> USE DEF TypeOK
  <1>1. CASE Authorize(p)
    BY <1>1 DEF Authorize, Hold, Refuse, Go
  <1>2. CASE Lock(p)
    BY <1>2 DEF Lock, Hold, Go
  <1>3. CASE EnsureCounts(p)
    BY <1>3 DEF EnsureCounts, Hold, Go
  <1>4. CASE Lookup(p)
    BY <1>4 DEF Lookup, Verify, Refuse, Go
  <1>5. CASE Reserve(p)
    BY <1>5 DEF Reserve, Hold, Verify, Refuse, Go
  <1>6. CASE ReadActive(p)
    BY <1>6 DEF ReadActive, Go
  <1>7. CASE WriteLike(p)
    BY <1>7 DEF WriteLike, Hold, Go
  <1>8. CASE WriteCount(p)
    BY <1>8 DEF WriteCount, Hold, Go
  <1>9. CASE Complete(p)
    BY <1>9 DEF Complete, Go
  <1>10. CASE CommitDurable(p)
    BY <1>10 DEF CommitDurable, Go
  <1>11. CASE CommitLost(p)
    BY <1>11 DEF CommitLost, Go
  <1>12. CASE AnswerUnknown(p)
    BY <1>12 DEF AnswerUnknown
  <1>13. CASE Acknowledge(p)
    BY <1>13 DEF Acknowledge, Go
  <1>14. CASE Fail(p)
    BY <1>14 DEF Fail, Refuse, Go
  <1>15. CASE Discard(p)
    BY <1>15 DEF Discard, Go
  <1>16. QED
    BY <1>1, <1>2, <1>3, <1>4, <1>5, <1>6, <1>7, <1>8, <1>9, <1>10,
       <1>11, <1>12, <1>13, <1>14, <1>15 DEF Step, Progress, Statement

\* Every step is one of a request, or changes a visibility, or changes nothing.
LEMMA NextCases ==
  ASSUME [Next]_vars
  PROVE  \/ \E p \in Requests : Step(p)
         \/ \E t \in Trees : Flip(t)
         \/ UNCHANGED vars
  BY DEF Next, Step, Finished

-----------------------------------------------------------------------------
(* Types.                                                                  *)

\* The columns that are written to a row keep it a row.
LEMMA CountedType ==
  ASSUME TypeOK, ReservedStays, NEW r \in Requests, pc[r] \in Writing
  PROVE  /\ [row EXCEPT ![r].active = (liked[r] = "no"),
                        ![r].count = IF liked[r] = "no" THEN CurrentCount(r) + 1
                                     ELSE Floor0(CurrentCount(r) - 1)]
              \in [Requests -> Rows]
         /\ [row EXCEPT ![r].state = "completed"] \in [Requests -> Rows]
  <1>1. row[r] \in Rows \ {NoRow}
    BY RowType DEF ReservedStays, Applying, Reserved
  <1>2. CurrentCount(r) + 1 \in Nat /\ Floor0(CurrentCount(r) - 1) \in Nat
    BY RowType DEF Floor0
  <1>3. QED
    BY <1>1, <1>2 DEF TypeOK, Rows, NoRow

\* Types are preserved by the requests.
LEMMA StepTypeOK ==
  ASSUME TypeOK, ReservedStays, Completed, NEW p \in Requests, Step(p)
  PROVE  TypeOK'
  <1> USE DEF TypeOK, Statements, Answers, Writing
  <1>1. CASE Authorize(p)
    <2>1. held' \in [Requests -> SUBSET Locks]
      BY <1>1, CallType, LocksAreLocks, HoldType DEF Authorize
    <2>2. QED
      BY <1>1, <2>1 DEF Authorize, Go, Refuse
  <1>2. CASE Lock(p)
    <2>1. held' \in [Requests -> SUBSET Locks]
      BY <1>2, CallType, LocksAreLocks, HoldType DEF Lock
    <2>2. QED
      BY <1>2, <2>1 DEF Lock, Go
  <1>3. CASE EnsureCounts(p)
    <2>1. held' \in [Requests -> SUBSET Locks]
      BY <1>3, CallType, LocksAreLocks, HoldType DEF EnsureCounts
    <2>2. QED
      BY <1>3, <2>1 DEF EnsureCounts, Go
  <1>4. CASE Lookup(p)
    BY <1>4, RowType DEF Lookup, Verify, Refuse, Go, Stored
  <1>5. CASE Reserve(p)
    <2>1. held' \in [Requests -> SUBSET Locks]
      BY <1>5, CallType, LocksAreLocks, HoldType DEF Reserve
    <2>2. row' \in [Requests -> Rows]
      BY <1>5, RowType DEF Reserve, Verify, Stored
    <2>3. QED
      BY <1>5, <2>1, <2>2 DEF Reserve, Verify, Refuse, Go
  <1>6. CASE ReadActive(p)
    BY <1>6 DEF ReadActive, Go
  <1>7. CASE WriteLike(p)
    <2>1. held' \in [Requests -> SUBSET Locks]
      BY <1>7, CallType, LocksAreLocks, HoldType DEF WriteLike
    <2>2. QED
      BY <1>7, <2>1 DEF WriteLike, Go
  <1>8. CASE WriteCount(p)
    <2>1. held' \in [Requests -> SUBSET Locks]
      BY <1>8, CallType, LocksAreLocks, HoldType DEF WriteCount
    <2>2. row' \in [Requests -> Rows]
      BY <1>8, CountedType DEF WriteCount
    <2>3. QED
      BY <1>8, <2>1, <2>2 DEF WriteCount, Go
  <1>9. CASE Complete(p)
    <2>1. row' \in [Requests -> Rows]
      BY <1>9, CountedType DEF Complete
    <2>2. QED
      BY <1>9, <2>1 DEF Complete, Go
  <1>10. CASE CommitDurable(p)
    <2>1. likes' \subseteq Actors \X Trees
      BY <1>10, CallType DEF CommitDurable
    <2>2. row[p] # NoRow
      BY <1>10 DEF CommitDurable, Completed
    <2>3. counts' \in [Trees -> Nat \cup {NoCount}]
      BY <1>10, <2>2, RowType DEF CommitDurable, Rows
    <2>4. ledger' \in [Actors \X Keys -> Rows]
      BY <1>10, RowType DEF CommitDurable
    <2>5. QED
      BY <1>10, <2>1, <2>3, <2>4 DEF CommitDurable, Go
  <1>11. CASE CommitLost(p)
    BY <1>11 DEF CommitLost, Go
  <1>12. CASE AnswerUnknown(p)
    BY <1>12 DEF AnswerUnknown
  <1>13. CASE Acknowledge(p)
    BY <1>13 DEF Acknowledge, Go
  <1>14. CASE Fail(p)
    BY <1>14 DEF Fail, Refuse, Go
  <1>15. CASE Discard(p)
    BY <1>15 DEF Discard, Go
  <1>16. QED
    BY <1>1, <1>2, <1>3, <1>4, <1>5, <1>6, <1>7, <1>8, <1>9, <1>10,
       <1>11, <1>12, <1>13, <1>14, <1>15 DEF Step, Progress, Statement

\* Types are preserved.
LEMMA NextTypeOK ==
  ASSUME TypeOK, ReservedStays, Completed, [Next]_vars
  PROVE  TypeOK'
  <1>1. ASSUME NEW t \in Trees, Flip(t)
        PROVE  TypeOK'
    <2>1. flips' \in 0..MaxFlips
      BY <1>1 DEF TypeOK, Flip
    <2>2. QED
      BY <1>1, <2>1 DEF TypeOK, Flip
  <1>2. CASE UNCHANGED vars
    BY <1>2 DEF TypeOK, vars
  <1>3. QED
    BY <1>1, <1>2, NextCases, StepTypeOK

-----------------------------------------------------------------------------
(* Where a request is, and what it holds.                                  *)

\* The toggle is decided by the read of the like.
LEMMA StepTogglesLate ==
  ASSUME TypeOK, TogglesLate, NEW p \in Requests, Step(p)
  PROVE  TogglesLate'
  <1> USE DEF TypeOK, TogglesLate, Toggles, Statements, Writing
  <1>1. CASE Authorize(p)
    BY <1>1 DEF Authorize, Hold, Refuse, Go
  <1>2. CASE Lock(p)
    BY <1>2 DEF Lock, Hold, Go
  <1>3. CASE EnsureCounts(p)
    BY <1>3 DEF EnsureCounts, Hold, Go
  <1>4. CASE Lookup(p)
    BY <1>4 DEF Lookup, Verify, Refuse, Go
  <1>5. CASE Reserve(p)
    BY <1>5 DEF Reserve, Verify, Refuse, Go
  <1>6. CASE ReadActive(p)
    BY <1>6 DEF ReadActive, Go
  <1>7. CASE WriteLike(p)
    BY <1>7 DEF WriteLike, Hold, Go
  <1>8. CASE WriteCount(p)
    BY <1>8 DEF WriteCount, Hold, Go
  <1>9. CASE Complete(p)
    BY <1>9 DEF Complete, Go
  <1>10. CASE CommitDurable(p)
    BY <1>10 DEF CommitDurable, Go
  <1>11. CASE CommitLost(p)
    BY <1>11 DEF CommitLost, Go
  <1>12. CASE AnswerUnknown(p)
    BY <1>12 DEF AnswerUnknown
  <1>13. CASE Acknowledge(p)
    BY <1>13 DEF Acknowledge, Go
  <1>14. CASE Fail(p)
    BY <1>14 DEF Fail, Refuse, Go
  <1>15. CASE Discard(p)
    BY <1>15 DEF Discard, Go
  <1>16. QED
    BY <1>1, <1>2, <1>3, <1>4, <1>5, <1>6, <1>7, <1>8, <1>9, <1>10,
       <1>11, <1>12, <1>13, <1>14, <1>15 DEF Step, Progress, Statement

\* The same of all steps.
LEMMA NextTogglesLate ==
  ASSUME TypeOK, TogglesLate, [Next]_vars
  PROVE  TogglesLate'
  <1>1. ASSUME NEW t \in Trees, Flip(t)
        PROVE  TogglesLate'
    BY <1>1 DEF Flip, TogglesLate, Toggles
  <1>2. CASE UNCHANGED vars
    BY <1>2 DEF TogglesLate, Toggles, vars
  <1>3. QED
    BY <1>1, <1>2, NextCases, StepTogglesLate

\* An answer of success ends the request.
LEMMA StepSuccessIsLast ==
  ASSUME TypeOK, SuccessIsLast, NEW p \in Requests, Step(p)
  PROVE  SuccessIsLast'
  <1> USE DEF TypeOK, SuccessIsLast, Statements
  <1>1. CASE Authorize(p)
    BY <1>1 DEF Authorize, Hold, Refuse, Go
  <1>2. CASE Lock(p)
    BY <1>2 DEF Lock, Hold, Go
  <1>3. CASE EnsureCounts(p)
    BY <1>3 DEF EnsureCounts, Hold, Go
  <1>4. CASE Lookup(p)
    BY <1>4 DEF Lookup, Verify, Refuse, Go
  <1>5. CASE Reserve(p)
    BY <1>5 DEF Reserve, Hold, Verify, Refuse, Go
  <1>6. CASE ReadActive(p)
    BY <1>6 DEF ReadActive, Go
  <1>7. CASE WriteLike(p)
    BY <1>7 DEF WriteLike, Hold, Go
  <1>8. CASE WriteCount(p)
    BY <1>8 DEF WriteCount, Hold, Go
  <1>9. CASE Complete(p)
    BY <1>9 DEF Complete, Go
  <1>10. CASE CommitDurable(p)
    BY <1>10 DEF CommitDurable, Go
  <1>11. CASE CommitLost(p)
    BY <1>11 DEF CommitLost, Go
  <1>12. CASE AnswerUnknown(p)
    BY <1>12 DEF AnswerUnknown
  <1>13. CASE Acknowledge(p)
    BY <1>13 DEF Acknowledge, Go
  <1>14. CASE Fail(p)
    BY <1>14 DEF Fail, Refuse, Go
  <1>15. CASE Discard(p)
    BY <1>15 DEF Discard, Go
  <1>16. QED
    BY <1>1, <1>2, <1>3, <1>4, <1>5, <1>6, <1>7, <1>8, <1>9, <1>10,
       <1>11, <1>12, <1>13, <1>14, <1>15 DEF Step, Progress, Statement

\* The same of all steps.
LEMMA NextSuccessIsLast ==
  ASSUME TypeOK, SuccessIsLast, [Next]_vars
  PROVE  SuccessIsLast'
  <1>1. ASSUME NEW t \in Trees, Flip(t)
        PROVE  SuccessIsLast'
    BY <1>1 DEF Flip, SuccessIsLast
  <1>2. CASE UNCHANGED vars
    BY <1>2 DEF SuccessIsLast, vars
  <1>3. QED
    BY <1>1, <1>2, NextCases, StepSuccessIsLast

\* No lock but that of a tree row is taken while another transaction holds it.
LEMMA NextExclusive ==
  ASSUME TypeOK, Exclusive, [Next]_vars
  PROVE  Exclusive'
  <1>1. ASSUME NEW p \in Requests, Step(p)
        PROVE  Exclusive'
    <2> SUFFICES ASSUME NEW r \in Requests, NEW q \in Requests, r # q,
                        NEW lock \in held'[r] \cap held'[q]
                 PROVE  lock \in {TreeRow(t) : t \in Trees}
      BY DEF Exclusive
    <2>1. TreeRow(tree(p)) \in {TreeRow(t) : t \in Trees}
      BY CallType
    <2>2. CASE lock \in held[r] \cap held[q]
      BY <2>2 DEF Exclusive
    <2>3. CASE lock \notin held[r] \cap held[q]
      <3>1. /\ p \in {r, q} /\ held[p] \subseteq held'[p]
            /\ Free(p, lock) \/ lock = TreeRow(tree(p))
        BY <1>1, <2>3, StepEffect, StepHeld
      <3>2. CASE p = r
        BY <1>1, <2>1, <2>3, <3>1, <3>2, StepEffect DEF Free
      <3>3. CASE p = q
        BY <1>1, <2>1, <2>3, <3>1, <3>3, StepEffect DEF Free
      <3>4. QED
        BY <3>1, <3>2, <3>3
    <2>4. QED
      BY <2>2, <2>3
  <1>2. ASSUME NEW t \in Trees, Flip(t)
        PROVE  Exclusive'
    BY <1>2 DEF Flip, Exclusive
  <1>3. CASE UNCHANGED vars
    BY <1>3 DEF Exclusive, vars
  <1>4. QED
    BY <1>1, <1>2, <1>3, NextCases

\* The tree row is locked by the authorization, and until the end.
LEMMA StepAuthorizedStays ==
  ASSUME TypeOK, AuthorizedStays, NEW p \in Requests, Step(p)
  PROVE  AuthorizedStays'
  <1> USE DEF TypeOK, AuthorizedStays, Locked, Writing, Statements
  <1>1. CASE Authorize(p)
    BY <1>1 DEF Authorize, Hold, Refuse, Go
  <1>2. CASE Lock(p)
    BY <1>2 DEF Lock, Hold, Go
  <1>3. CASE EnsureCounts(p)
    BY <1>3 DEF EnsureCounts, Hold, Go
  <1>4. CASE Lookup(p)
    BY <1>4 DEF Lookup, Verify, Refuse, Go
  <1>5. CASE Reserve(p)
    BY <1>5 DEF Reserve, Hold, Verify, Refuse, Go
  <1>6. CASE ReadActive(p)
    BY <1>6 DEF ReadActive, Go
  <1>7. CASE WriteLike(p)
    BY <1>7 DEF WriteLike, Hold, Go
  <1>8. CASE WriteCount(p)
    BY <1>8 DEF WriteCount, Hold, Go
  <1>9. CASE Complete(p)
    BY <1>9 DEF Complete, Go
  <1>10. CASE CommitDurable(p)
    BY <1>10 DEF CommitDurable, Go
  <1>11. CASE CommitLost(p)
    BY <1>11 DEF CommitLost, Go
  <1>12. CASE AnswerUnknown(p)
    BY <1>12 DEF AnswerUnknown
  <1>13. CASE Acknowledge(p)
    BY <1>13 DEF Acknowledge, Go
  <1>14. CASE Fail(p)
    BY <1>14 DEF Fail, Refuse, Go
  <1>15. CASE Discard(p)
    BY <1>15 DEF Discard, Go
  <1>16. QED
    BY <1>1, <1>2, <1>3, <1>4, <1>5, <1>6, <1>7, <1>8, <1>9, <1>10,
       <1>11, <1>12, <1>13, <1>14, <1>15 DEF Step, Progress, Statement

\* A visibility does not change under a lock of the tree row.
LEMMA NextAuthorizedStays ==
  ASSUME TypeOK, AuthorizedStays, [Next]_vars
  PROVE  AuthorizedStays'
  <1>1. ASSUME NEW t \in Trees, Flip(t)
        PROVE  AuthorizedStays'
    BY <1>1 DEF Flip, AuthorizedStays
  <1>2. CASE UNCHANGED vars
    BY <1>2 DEF AuthorizedStays, vars
  <1>3. QED
    BY <1>1, <1>2, NextCases, StepAuthorizedStays

\* The advisory lock is held until the end.
LEMMA StepSerialized ==
  ASSUME TypeOK, Serialized, NEW p \in Requests, Step(p)
  PROVE  Serialized'
  <1> USE DEF TypeOK, Serialized, Locked, Writing, Statements
  <1>1. CASE Authorize(p)
    BY <1>1 DEF Authorize, Hold, Refuse, Go
  <1>2. CASE Lock(p)
    BY <1>2 DEF Lock, Hold, Go
  <1>3. CASE EnsureCounts(p)
    BY <1>3 DEF EnsureCounts, Hold, Go
  <1>4. CASE Lookup(p)
    BY <1>4 DEF Lookup, Verify, Refuse, Go
  <1>5. CASE Reserve(p)
    BY <1>5 DEF Reserve, Hold, Verify, Refuse, Go
  <1>6. CASE ReadActive(p)
    BY <1>6 DEF ReadActive, Go
  <1>7. CASE WriteLike(p)
    BY <1>7 DEF WriteLike, Hold, Go
  <1>8. CASE WriteCount(p)
    BY <1>8 DEF WriteCount, Hold, Go
  <1>9. CASE Complete(p)
    BY <1>9 DEF Complete, Go
  <1>10. CASE CommitDurable(p)
    BY <1>10 DEF CommitDurable, Go
  <1>11. CASE CommitLost(p)
    BY <1>11 DEF CommitLost, Go
  <1>12. CASE AnswerUnknown(p)
    BY <1>12 DEF AnswerUnknown
  <1>13. CASE Acknowledge(p)
    BY <1>13 DEF Acknowledge, Go
  <1>14. CASE Fail(p)
    BY <1>14 DEF Fail, Refuse, Go
  <1>15. CASE Discard(p)
    BY <1>15 DEF Discard, Go
  <1>16. QED
    BY <1>1, <1>2, <1>3, <1>4, <1>5, <1>6, <1>7, <1>8, <1>9, <1>10,
       <1>11, <1>12, <1>13, <1>14, <1>15 DEF Step, Progress, Statement

\* The same of all steps.
LEMMA NextSerialized ==
  ASSUME TypeOK, Serialized, [Next]_vars
  PROVE  Serialized'
  <1>1. ASSUME NEW t \in Trees, Flip(t)
        PROVE  Serialized'
    BY <1>1 DEF Flip, Serialized
  <1>2. CASE UNCHANGED vars
    BY <1>2 DEF Serialized, vars
  <1>3. QED
    BY <1>1, <1>2, NextCases, StepSerialized

\* Only completed rows are committed.
LEMMA StepCompleted ==
  ASSUME TypeOK, ReservedStays, Completed, NEW p \in Requests, Step(p)
  PROVE  Completed'
  <1> USE DEF TypeOK, Completed, Writing
  <1>1. CASE Authorize(p)
    BY <1>1 DEF Authorize, Hold, Refuse, Go
  <1>2. CASE Lock(p)
    BY <1>2 DEF Lock, Hold, Go
  <1>3. CASE EnsureCounts(p)
    BY <1>3 DEF EnsureCounts, Hold, Go
  <1>4. CASE Lookup(p)
    <2>1. Stored(p) # NoRow => Stored(p).state = "completed"
      BY CallType DEF Stored
    <2>2. QED
      BY <1>4, <2>1 DEF Lookup, Verify, Refuse, Go, Stored
  <1>5. CASE Reserve(p)
    <2>1. Stored(p) # NoRow => Stored(p).state = "completed"
      BY CallType DEF Stored
    <2>2. QED
      BY <1>5, <2>1 DEF Reserve, Verify, Refuse, Go, Stored
  <1>6. CASE ReadActive(p)
    BY <1>6 DEF ReadActive, Go
  <1>7. CASE WriteLike(p)
    BY <1>7 DEF WriteLike, Hold, Go
  <1>8. CASE WriteCount(p)
    BY <1>8 DEF WriteCount, Hold, Go
  <1>9. CASE Complete(p)
    <2>1. row'[p] = [row[p] EXCEPT !.state = "completed"]
      BY <1>9 DEF Complete
    <2>2. row[p] \in Rows \ {NoRow}
      BY <1>9, RowType DEF Complete, ReservedStays, Applying, Reserved
    <2>3. row'[p] # NoRow /\ row'[p].state = "completed"
      BY <2>1, <2>2 DEF Rows, NoRow
    <2>4. QED
      BY <1>9, <2>3 DEF Complete, Go
  <1>10. CASE CommitDurable(p)
    <2>1. ASSUME NEW a \in Actors, NEW k \in Keys
          PROVE  ledger'[<<a, k>>] \in {ledger[<<a, k>>], row[p]}
      BY <1>10 DEF CommitDurable
    <2>2. QED
      BY <1>10, <2>1 DEF CommitDurable, Go
  <1>11. CASE CommitLost(p)
    BY <1>11 DEF CommitLost, Go
  <1>12. CASE AnswerUnknown(p)
    BY <1>12 DEF AnswerUnknown
  <1>13. CASE Acknowledge(p)
    BY <1>13 DEF Acknowledge, Go
  <1>14. CASE Fail(p)
    BY <1>14 DEF Fail, Refuse, Go
  <1>15. CASE Discard(p)
    BY <1>15 DEF Discard, Go
  <1>16. QED
    BY <1>1, <1>2, <1>3, <1>4, <1>5, <1>6, <1>7, <1>8, <1>9, <1>10,
       <1>11, <1>12, <1>13, <1>14, <1>15 DEF Step, Progress, Statement

\* The same of all steps.
LEMMA NextCompleted ==
  ASSUME TypeOK, ReservedStays, Completed, [Next]_vars
  PROVE  Completed'
  <1>1. ASSUME NEW t \in Trees, Flip(t)
        PROVE  Completed'
    BY <1>1 DEF Flip, Completed
  <1>2. CASE UNCHANGED vars
    BY <1>2 DEF Completed, vars
  <1>3. QED
    BY <1>1, <1>2, NextCases, StepCompleted

-----------------------------------------------------------------------------
(* What was read, and what a commit does to it.                            *)

\* Only one transaction holds an advisory lock, a key or a count.
LEMMA OneHolder ==
  ASSUME Exclusive, NEW r \in Requests, NEW q \in Requests, NEW lock,
         lock \in held[r], lock \in held[q],
         \/ \E a \in Actors, t \in Trees : lock = ActorTree(a, t)
         \/ \E a \in Actors, k \in Keys : lock = KeyRow(a, k)
         \/ \E t \in Trees : lock = CountsRow(t)
  PROVE  r = q
  <1>1. lock \notin {TreeRow(t) : t \in Trees}
    BY DEF ActorTree, KeyRow, CountsRow, TreeRow
  <1>2. QED
    BY <1>1 DEF Exclusive

\* Different actors, trees and keys have different locks.
LEMMA LocksDiffer ==
  /\ \A a, b \in Actors, t, u \in Trees :
       ActorTree(a, t) = ActorTree(b, u) => a = b /\ t = u
  /\ \A a, b \in Actors, k, l \in Keys : KeyRow(a, k) = KeyRow(b, l) => a = b /\ k = l
  /\ \A t, u \in Trees : CountsRow(t) = CountsRow(u) => t = u
  BY DEF ActorTree, KeyRow, CountsRow

\* What a commit changes is locked, and a row that is there stays as it is.
LEMMA CommitLeaves ==
  ASSUME IInv, NEW p \in Requests, CommitDurable(p), NEW r \in Requests, r # p
  PROVE  /\ pc[r] \in Locked => Liking(r)' = Liking(r)
         /\ Stored(r) # NoRow => Stored(r)' = Stored(r)
         /\ KeyRow(actor(r), key(r)) \in held[r] => Stored(r)' = Stored(r)
         /\ CountsRow(tree(r)) \in held[r] => CurrentCount(r)' = CurrentCount(r)
  <1> USE DEF IInv
  <1>1. pc[p] = "committing" /\ call' = call
    BY DEF CommitDurable
  <1>2. ASSUME pc[r] \in Locked
        PROVE  Liking(r)' = Liking(r)
    <2>1. /\ ActorTree(actor(p), tree(p)) \in held[p]
          /\ ActorTree(actor(r), tree(r)) \in held[r]
      BY <1>1, <1>2 DEF Serialized, Locked
    <2>2. <<actor(r), tree(r)>> # <<actor(p), tree(p)>>
      BY <2>1, OneHolder, CallType
    <2>3. QED
      BY <1>1, <2>2 DEF CommitDurable, Liking, Toggles, TypeOK
  <1>3. CASE Toggles(p)
    <2>1. /\ KeyRow(actor(p), key(p)) \in held[p] /\ Stored(p) = NoRow
          /\ CountsRow(tree(p)) \in held[p]
      BY <1>1, <1>3 DEF ReservedStays, CountedStays, Applying, Counting, Toggling,
         Reserved, Counted
    <2>2. KeyRow(actor(r), key(r)) \in held[r] =>
            <<actor(r), key(r)>> # <<actor(p), key(p)>>
      BY <2>1, OneHolder, CallType
    <2>3. CountsRow(tree(r)) \in held[r] => tree(r) # tree(p)
      BY <2>1, OneHolder, CallType
    <2>4. <<actor(r), key(r)>> # <<actor(p), key(p)>> => Stored(r)' = Stored(r)
      BY <1>1, CallType DEF CommitDurable, Stored, TypeOK
    <2>5. Stored(r) # NoRow => <<actor(r), key(r)>> # <<actor(p), key(p)>>
      BY <2>1 DEF Stored
    <2>6. tree(r) # tree(p) => CurrentCount(r)' = CurrentCount(r)
      BY <1>1, <1>3, CallType DEF CommitDurable, CurrentCount, TypeOK
    <2>7. QED
      BY <1>2, <2>2, <2>3, <2>4, <2>5, <2>6
  <1>4. CASE ~Toggles(p)
    <2>1. Stored(p) = row[p]
      BY <1>1, <1>4 DEF DurableStays, Durable, AsStored, Replaying
    <2>2. ledger' = ledger
      BY <2>1, CallType DEF CommitDurable, Stored, TypeOK
    <2>3. CurrentCount(r)' = CurrentCount(r)
      BY <1>1, <1>4, CallType DEF CommitDurable, CurrentCount, TypeOK, NoCount
    <2>4. QED
      BY <1>1, <1>2, <2>2, <2>3 DEF Stored
  <1>5. QED
    BY <1>3, <1>4

\* A step of another request leaves what r has read, if it is locked, as it was.
LEMMA OthersLeave ==
  ASSUME IInv, NEW p \in Requests, Step(p), NEW r \in Requests, r # p
  PROVE  /\ call' = call /\ pc'[r] = pc[r] /\ liked'[r] = liked[r] /\ row'[r] = row[r]
         /\ held'[r] = held[r] /\ answer'[r] = answer[r]
         /\ pc[r] \in Locked => Liking(r)' = Liking(r)
         /\ Stored(r) # NoRow => Stored(r)' = Stored(r)
         /\ KeyRow(actor(r), key(r)) \in held[r] => Stored(r)' = Stored(r)
         /\ CountsRow(tree(r)) \in held[r] => CurrentCount(r)' = CurrentCount(r)
  <1>1. CASE CommitDurable(p)
    BY <1>1, CommitLeaves, StepEffect DEF IInv
  <1>2. CASE UNCHANGED <<likes, counts, ledger>>
    BY <1>2, StepEffect DEF IInv, Liking, Stored, CurrentCount
  <1>3. QED
    BY <1>1, <1>2, StepEffect DEF IInv

\* The read finds out whether the like is there; nothing is written before COMMIT.
LEMMA OwnLikedStays ==
  ASSUME IInv, NEW p \in Requests, Step(p)
  PROVE  LikedAsRead(p)'
  <1> USE DEF IInv, TypeOK, LikedStays, LikedAsRead, TogglesLate, Toggles, Liking,
              Writing, Statements
  <1>1. CASE Authorize(p)
    BY <1>1 DEF Authorize, Hold, Refuse, Go
  <1>2. CASE Lock(p)
    BY <1>2 DEF Lock, Hold, Go
  <1>3. CASE EnsureCounts(p)
    BY <1>3 DEF EnsureCounts, Hold, Go
  <1>4. CASE Lookup(p)
    BY <1>4 DEF Lookup, Verify, Refuse, Go
  <1>5. CASE Reserve(p)
    BY <1>5 DEF Reserve, Verify, Refuse, Go
  <1>6. CASE ReadActive(p)
    BY <1>6 DEF ReadActive, Go
  <1>7. CASE WriteLike(p)
    BY <1>7 DEF WriteLike, Hold, Go
  <1>8. CASE WriteCount(p)
    BY <1>8 DEF WriteCount, Hold, Go
  <1>9. CASE Complete(p)
    BY <1>9 DEF Complete, Go
  <1>10. CASE CommitDurable(p)
    BY <1>10 DEF CommitDurable, Go
  <1>11. CASE CommitLost(p)
    BY <1>11 DEF CommitLost, Go
  <1>12. CASE AnswerUnknown(p)
    BY <1>12 DEF AnswerUnknown
  <1>13. CASE Acknowledge(p)
    BY <1>13 DEF Acknowledge, Go
  <1>14. CASE Fail(p)
    BY <1>14 DEF Fail, Refuse, Go
  <1>15. CASE Discard(p)
    BY <1>15 DEF Discard, Go
  <1>16. QED
    BY <1>1, <1>2, <1>3, <1>4, <1>5, <1>6, <1>7, <1>8, <1>9, <1>10,
       <1>11, <1>12, <1>13, <1>14, <1>15 DEF Step, Progress, Statement

\* The advisory lock keeps what was read true.
LEMMA NextLikedStays ==
  ASSUME IInv, [Next]_vars
  PROVE  LikedStays'
  <1>1. ASSUME NEW p \in Requests, Step(p)
        PROVE  LikedStays'
    <2>1. ASSUME NEW r \in Requests, r # p
          PROVE  LikedAsRead(r)'
      BY <1>1, <2>1, OthersLeave
      DEF IInv, LikedStays, LikedAsRead, Toggles, Locked, Writing
    <2>2. LikedAsRead(p)'
      BY <1>1, OwnLikedStays
    <2>3. QED
      BY <2>1, <2>2 DEF LikedStays
  <1>2. ASSUME NEW t \in Trees, Flip(t)
        PROVE  LikedStays'
    BY <1>2 DEF IInv, Flip, LikedStays, LikedAsRead, Toggles, Liking
  <1>3. CASE UNCHANGED vars
    BY <1>3 DEF IInv, vars, LikedStays, LikedAsRead, Toggles, Liking
  <1>4. QED
    BY <1>1, <1>2, <1>3, NextCases

\* The reservation waits for the key, finds no row and writes one; the row is the
\* request's own until COMMIT.
LEMMA OwnReservedStays ==
  ASSUME IInv, NEW p \in Requests, Step(p)
  PROVE  (Applying(p) => Reserved(p))'
  <1> USE DEF IInv, TypeOK, ReservedStays, TogglesLate, Applying, Toggling, Toggles,
              Reserved, Stored, Writing, Statements
  <1>1. CASE Authorize(p)
    BY <1>1 DEF Authorize, Hold, Refuse, Go
  <1>2. CASE Lock(p)
    BY <1>2 DEF Lock, Hold, Go
  <1>3. CASE EnsureCounts(p)
    BY <1>3 DEF EnsureCounts, Hold, Go
  <1>4. CASE Lookup(p)
    BY <1>4 DEF Lookup, Verify, Refuse, Go
  <1>5. CASE Reserve(p)
    <2>1. /\ KeyRow(actor(p), key(p)) \in held'[p] /\ ~Toggles(p)'
          /\ ledger' = ledger /\ call' = call
      BY <1>5 DEF Reserve, Hold
    <2>2. CASE Stored(p) = NoRow
      <3>1. row'[p] = Pending(tree(p))
        BY <1>5, <2>2 DEF Reserve
      <3>2. Pending(tree(p)).tree = tree(p)
        BY DEF Pending
      <3>3. QED
        BY <2>1, <2>2, <3>1, <3>2, RowType
    <2>3. CASE Stored(p) # NoRow
      BY <1>5, <2>1, <2>3 DEF Reserve, Verify, Refuse, Go
    <2>4. QED
      BY <2>2, <2>3
  <1>6. CASE ReadActive(p)
    BY <1>6 DEF ReadActive, Go
  <1>7. CASE WriteLike(p)
    BY <1>7 DEF WriteLike, Hold, Go
  <1>8. CASE WriteCount(p)
    <2>1. row[p] \in Rows /\ row[p] # NoRow
      BY <1>8, RowType DEF WriteCount
    <2>2. row'[p].tree = row[p].tree /\ row'[p] # NoRow
      BY <1>8, <2>1 DEF WriteCount, Rows, NoRow
    <2>3. QED
      BY <1>8, <2>2 DEF WriteCount, Hold, Go
  <1>9. CASE Complete(p)
    <2>1. row[p] \in Rows /\ row[p] # NoRow
      BY <1>9, RowType DEF Complete
    <2>2. row'[p].tree = row[p].tree /\ row'[p] # NoRow
      BY <1>9, <2>1 DEF Complete, Rows, NoRow
    <2>3. QED
      BY <1>9, <2>2 DEF Complete, Go
  <1>10. CASE CommitDurable(p)
    BY <1>10 DEF CommitDurable, Go
  <1>11. CASE CommitLost(p)
    BY <1>11 DEF CommitLost, Go
  <1>12. CASE AnswerUnknown(p)
    BY <1>12 DEF AnswerUnknown
  <1>13. CASE Acknowledge(p)
    BY <1>13 DEF Acknowledge, Go
  <1>14. CASE Fail(p)
    BY <1>14 DEF Fail, Refuse, Go
  <1>15. CASE Discard(p)
    BY <1>15 DEF Discard, Go
  <1>16. QED
    BY <1>1, <1>2, <1>3, <1>4, <1>5, <1>6, <1>7, <1>8, <1>9, <1>10,
       <1>11, <1>12, <1>13, <1>14, <1>15 DEF Step, Progress, Statement

\* Nobody else writes a row of the key meanwhile.
LEMMA NextReservedStays ==
  ASSUME IInv, [Next]_vars
  PROVE  ReservedStays'
  <1>1. ASSUME NEW p \in Requests, Step(p)
        PROVE  ReservedStays'
    <2>1. ASSUME NEW r \in Requests, r # p
          PROVE  (Applying(r) => Reserved(r))'
      BY <1>1, <2>1, OthersLeave
      DEF IInv, ReservedStays, Applying, Toggling, Toggles, Reserved
    <2>2. (Applying(p) => Reserved(p))'
      BY <1>1, OwnReservedStays
    <2>3. QED
      BY <2>1, <2>2 DEF ReservedStays
  <1>2. ASSUME NEW t \in Trees, Flip(t)
        PROVE  ReservedStays'
    BY <1>2 DEF IInv, Flip, ReservedStays, Applying, Toggling, Toggles, Reserved, Stored
  <1>3. CASE UNCHANGED vars
    BY <1>3 DEF IInv, vars, ReservedStays, Applying, Toggling, Toggles, Reserved, Stored
  <1>4. QED
    BY <1>1, <1>2, <1>3, NextCases

\* The count is written under the lock of its row.
LEMMA OwnCountedStays ==
  ASSUME IInv, NEW p \in Requests, Step(p)
  PROVE  (Counting(p) => Counted(p))'
  <1> USE DEF IInv, TypeOK, CountedStays, TogglesLate, Counting, Toggling, Toggles,
              Counted, CurrentCount, Writing, Statements
  <1>1. CASE Authorize(p)
    BY <1>1 DEF Authorize, Hold, Refuse, Go
  <1>2. CASE Lock(p)
    BY <1>2 DEF Lock, Hold, Go
  <1>3. CASE EnsureCounts(p)
    BY <1>3 DEF EnsureCounts, Hold, Go
  <1>4. CASE Lookup(p)
    BY <1>4 DEF Lookup, Verify, Refuse, Go
  <1>5. CASE Reserve(p)
    BY <1>5 DEF Reserve, Verify, Refuse, Go
  <1>6. CASE ReadActive(p)
    BY <1>6 DEF ReadActive, Go
  <1>7. CASE WriteLike(p)
    BY <1>7 DEF WriteLike, Hold, Go
  <1>8. CASE WriteCount(p)
    <2>1. row[p] \in Rows /\ row[p] # NoRow
      BY <1>8, RowType DEF WriteCount, ReservedStays, Applying, Reserved
    <2>2. /\ row'[p].active = (liked[p] = "no")
          /\ row'[p].count = IF liked[p] = "no" THEN CurrentCount(p) + 1
                             ELSE Floor0(CurrentCount(p) - 1)
      BY <1>8, <2>1 DEF WriteCount, Rows, NoRow
    <2>3. QED
      BY <1>8, <2>2 DEF WriteCount, Hold, Go
  <1>9. CASE Complete(p)
    <2>1. row[p] \in Rows /\ row[p] # NoRow
      BY <1>9, RowType DEF Complete, ReservedStays, Applying, Reserved
    <2>2. row'[p].active = row[p].active /\ row'[p].count = row[p].count
      BY <1>9, <2>1 DEF Complete, Rows, NoRow
    <2>3. QED
      BY <1>9, <2>2 DEF Complete, Go
  <1>10. CASE CommitDurable(p)
    BY <1>10 DEF CommitDurable, Go
  <1>11. CASE CommitLost(p)
    BY <1>11 DEF CommitLost, Go
  <1>12. CASE AnswerUnknown(p)
    BY <1>12 DEF AnswerUnknown
  <1>13. CASE Acknowledge(p)
    BY <1>13 DEF Acknowledge, Go
  <1>14. CASE Fail(p)
    BY <1>14 DEF Fail, Refuse, Go
  <1>15. CASE Discard(p)
    BY <1>15 DEF Discard, Go
  <1>16. QED
    BY <1>1, <1>2, <1>3, <1>4, <1>5, <1>6, <1>7, <1>8, <1>9, <1>10,
       <1>11, <1>12, <1>13, <1>14, <1>15 DEF Step, Progress, Statement

\* Nobody else changes the count meanwhile.
LEMMA NextCountedStays ==
  ASSUME IInv, [Next]_vars
  PROVE  CountedStays'
  <1>1. ASSUME NEW p \in Requests, Step(p)
        PROVE  CountedStays'
    <2>1. ASSUME NEW r \in Requests, r # p
          PROVE  (Counting(r) => Counted(r))'
      BY <1>1, <2>1, OthersLeave
      DEF IInv, CountedStays, Counting, Toggling, Toggles, Counted
    <2>2. (Counting(p) => Counted(p))'
      BY <1>1, OwnCountedStays
    <2>3. QED
      BY <2>1, <2>2 DEF CountedStays
  <1>2. ASSUME NEW t \in Trees, Flip(t)
        PROVE  CountedStays'
    BY <1>2 DEF IInv, Flip, CountedStays, Counting, Toggling, Toggles, Counted, CurrentCount
  <1>3. CASE UNCHANGED vars
    BY <1>3 DEF IInv, vars, CountedStays, Counting, Toggling, Toggles, Counted, CurrentCount
  <1>4. QED
    BY <1>1, <1>2, <1>3, NextCases

\* A replay takes the row that it found; a commit stores the row.
LEMMA OwnDurableStays ==
  ASSUME IInv, NEW p \in Requests, Step(p)
  PROVE  (Durable(p) => AsStored(p))'
  <1> USE DEF IInv, TypeOK, DurableStays, SuccessIsLast, TogglesLate, Durable,
              AsStored, Replaying, Toggles, Stored, Writing, Statements
  <1>1. CASE Authorize(p)
    BY <1>1 DEF Authorize, Hold, Refuse, Go
  <1>2. CASE Lock(p)
    BY <1>2 DEF Lock, Hold, Go
  <1>3. CASE EnsureCounts(p)
    BY <1>3 DEF EnsureCounts, Hold, Go
  <1>4. CASE Lookup(p)
    BY <1>4 DEF Lookup, Verify, Refuse, Go
  <1>5. CASE Reserve(p)
    BY <1>5 DEF Reserve, Verify, Refuse, Go
  <1>6. CASE ReadActive(p)
    BY <1>6 DEF ReadActive, Go
  <1>7. CASE WriteLike(p)
    BY <1>7 DEF WriteLike, Hold, Go
  <1>8. CASE WriteCount(p)
    BY <1>8 DEF WriteCount, Hold, Go
  <1>9. CASE Complete(p)
    BY <1>9 DEF Complete, Go
  <1>10. CASE CommitDurable(p)
    <2>1. ledger'[<<actor(p), key(p)>>] = row[p]
      BY <1>10, CallType DEF CommitDurable
    <2>2. row[p] # NoRow /\ row[p].tree = tree(p)
      BY <1>10 DEF CommitDurable, ReservedStays, Applying, Toggling, Reserved
    <2>3. QED
      BY <1>10, <2>1, <2>2 DEF CommitDurable
  <1>11. CASE CommitLost(p)
    BY <1>11 DEF CommitLost, Go
  <1>12. CASE AnswerUnknown(p)
    BY <1>12 DEF AnswerUnknown
  <1>13. CASE Acknowledge(p)
    BY <1>13 DEF Acknowledge, Go
  <1>14. CASE Fail(p)
    BY <1>14 DEF Fail, Refuse, Go
  <1>15. CASE Discard(p)
    BY <1>15 DEF Discard, Go
  <1>16. QED
    BY <1>1, <1>2, <1>3, <1>4, <1>5, <1>6, <1>7, <1>8, <1>9, <1>10,
       <1>11, <1>12, <1>13, <1>14, <1>15 DEF Step, Progress, Statement

\* Nobody changes a row that is there.
LEMMA NextDurableStays ==
  ASSUME IInv, [Next]_vars
  PROVE  DurableStays'
  <1>1. ASSUME NEW p \in Requests, Step(p)
        PROVE  DurableStays'
    <2>1. ASSUME NEW r \in Requests, r # p
          PROVE  (Durable(r) => AsStored(r))'
      BY <1>1, <2>1, OthersLeave
      DEF IInv, DurableStays, Durable, AsStored, Replaying, Toggles
    <2>2. (Durable(p) => AsStored(p))'
      BY <1>1, OwnDurableStays
    <2>3. QED
      BY <2>1, <2>2 DEF DurableStays
  <1>2. ASSUME NEW t \in Trees, Flip(t)
        PROVE  DurableStays'
    BY <1>2 DEF IInv, Flip, DurableStays, Durable, AsStored, Replaying, Toggles, Stored
  <1>3. CASE UNCHANGED vars
    BY <1>3 DEF IInv, vars, DurableStays, Durable, AsStored, Replaying, Toggles, Stored
  <1>4. QED
    BY <1>1, <1>2, <1>3, NextCases

-----------------------------------------------------------------------------
(* The counts.                                                             *)

Likers(t) == {a \in Actors : <<a, t>> \in likes}

\* There are finitely many who like a tree.
LEMMA LikersFinite ==
  /\ \A S \in SUBSET Actors : IsFiniteSet(S) /\ Cardinality(S) \in Nat
  /\ \A t : Likers(t) \in SUBSET Actors /\ Likers(t)' \in SUBSET Actors
  BY FS_Subset, FS_CardinalityType DEF Likers

\* A toggle that commits makes its tree liked by one more or one fewer, and it
\* stores just that number.
LEMMA ToggleCounts ==
  ASSUME IInv, NEW p \in Requests, CommitDurable(p), Toggles(p)
  PROVE  /\ row[p].count = Cardinality(Likers(tree(p))')
         /\ row[p].active = (liked[p] = "no")
         /\ liked[p] = "no" <=> ~Liking(p)
         /\ \A t \in Trees \ {tree(p)} : Likers(t)' = Likers(t)
  <1> DEFINE t == tree(p)
             a == actor(p)
  <1>1. a \in Actors /\ t \in Trees
    BY CallType DEF IInv
  <1>2. /\ liked[p] \in {"yes", "no"}
        /\ liked[p] = "yes" <=> <<a, t>> \in likes
        /\ row[p].active = (liked[p] = "no")
        /\ row[p].count = IF liked[p] = "no" THEN CurrentCount(p) + 1
                          ELSE Floor0(CurrentCount(p) - 1)
    BY DEF IInv, TypeOK, CommitDurable, Toggles, LikedStays, LikedAsRead, Liking,
       CountedStays, Counting, Toggling, Counted
  <1>3. CurrentCount(p) = Cardinality(Likers(t))
    BY <1>1 DEF IInv, CountMatchesLikes, CurrentCount, Likers
  <1>4. \A u \in Trees \ {t} : Likers(u)' = Likers(u)
    BY <1>2 DEF CommitDurable, Likers
  <1>5. CASE liked[p] = "no"
    <2>1. Likers(t)' = Likers(t) \cup {a} /\ a \notin Likers(t)
      BY <1>1, <1>2, <1>5 DEF CommitDurable, Likers
    <2>2. Cardinality(Likers(t)') = Cardinality(Likers(t)) + 1
      BY <2>1, LikersFinite, FS_AddElement
    <2>3. QED
      BY <1>2, <1>3, <1>4, <1>5, <2>2 DEF Liking
  <1>6. CASE liked[p] = "yes"
    <2>1. Likers(t)' = Likers(t) \ {a} /\ a \in Likers(t)
      BY <1>1, <1>2, <1>6 DEF CommitDurable, Likers
    <2>2. Cardinality(Likers(t)') = Cardinality(Likers(t)) - 1
      <3>1. IsFiniteSet(Likers(t))
        BY LikersFinite
      <3>2. Cardinality(Likers(t) \ {a}) = Cardinality(Likers(t)) - 1
        BY <2>1, <3>1, FS_RemoveElement
      <3>3. QED
        BY <2>1, <3>2
    <2>3. Cardinality(Likers(t)) # 0
      BY <2>1, LikersFinite, FS_EmptySet
    <2>4. Floor0(Cardinality(Likers(t)) - 1) = Cardinality(Likers(t)) - 1
      BY <2>3, LikersFinite DEF Floor0
    <2>5. QED
      BY <1>2, <1>3, <1>4, <1>6, <2>2, <2>4 DEF Liking
  <1>7. QED
    BY <1>2, <1>5, <1>6

\* The counts stay exact.
LEMMA NextCountMatchesLikes ==
  ASSUME IInv, [Next]_vars
  PROVE  CountMatchesLikes'
  <1> DEFINE Exact(t) ==
        (IF counts[t] = NoCount THEN 0 ELSE counts[t]) = Cardinality(Likers(t))
  <1>1. \A t \in Trees : Exact(t)
    BY DEF IInv, CountMatchesLikes, Likers
  <1>2. ASSUME NEW p \in Requests, CommitDurable(p), NEW t \in Trees
        PROVE  Exact(t)'
    <2>1. tree(p) \in Trees /\ counts \in [Trees -> Nat \cup {NoCount}]
      BY CallType DEF IInv, TypeOK
    <2>2. CASE Toggles(p) /\ t = tree(p)
      <3>1. counts'[t] = Cardinality(Likers(t)')
        BY <1>2, <2>1, <2>2, ToggleCounts DEF CommitDurable
      <3>2. NoCount \notin Nat /\ Cardinality(Likers(t)') \in Nat
        BY LikersFinite DEF NoCount
      <3>3. QED
        BY <3>1, <3>2
    <2>3. CASE Toggles(p) /\ t # tree(p)
      <3>1. counts'[t] = counts[t]
        BY <1>2, <2>1, <2>3 DEF CommitDurable
      <3>2. Likers(t)' = Likers(t)
        BY <1>2, <2>3, ToggleCounts
      <3>3. QED
        BY <1>1, <3>1, <3>2
    <2>4. CASE ~Toggles(p)
      <3>1. likes' = likes
        BY <1>2, <2>4 DEF CommitDurable, Toggles, IInv, TypeOK
      <3>2. (IF counts'[t] = NoCount THEN 0 ELSE counts'[t])
              = IF counts[t] = NoCount THEN 0 ELSE counts[t]
        BY <1>2, <2>1, <2>4 DEF CommitDurable, CurrentCount, NoCount
      <3>3. QED
        BY <1>1, <3>1, <3>2 DEF Likers
    <2>5. QED
      BY <2>2, <2>3, <2>4
  <1>3. CASE UNCHANGED <<likes, counts>>
    BY <1>1, <1>3 DEF CountMatchesLikes, Likers
  <1>4. CASE \E p \in Requests : CommitDurable(p)
    BY <1>2, <1>4 DEF CountMatchesLikes, Likers
  <1>5. QED
    BY <1>3, <1>4, NextCases, StepEffect DEF IInv, Flip, vars

\* It holds initially: nothing is done, locked or read.
LEMMA InitIInv == Init => IInv
  <1> SUFFICES ASSUME Init PROVE IInv
    OBVIOUS
  <1>1. TypeOK
    BY DEF Init, TypeOK, Statements, Answers, Rows
  <1>2. \A r \in Requests : pc[r] = "authorize" /\ answer[r] = "none" /\ ~Toggles(r)
    BY DEF Init, Toggles
  <1>3. /\ TogglesLate /\ AuthorizedStays /\ Serialized /\ LikedStays
        /\ ReservedStays /\ CountedStays /\ DurableStays /\ SuccessIsLast
    BY <1>2 DEF TogglesLate, AuthorizedStays, Serialized, LikedStays, ReservedStays,
       CountedStays, DurableStays, SuccessIsLast, LikedAsRead, Applying, Counting,
       Toggling, Replaying, Durable, Locked, Writing
  <1>4. Exclusive
    BY DEF Init, Exclusive
  <1>5. Completed
    BY <1>2 DEF Init, Completed
  <1>6. CountMatchesLikes
    BY FS_EmptySet DEF Init, CountMatchesLikes
  <1>7. QED
    BY <1>1, <1>3, <1>4, <1>5, <1>6 DEF IInv

\* And every step preserves it.
LEMMA NextIInv == IInv /\ [Next]_vars => IInv'
  BY NextTypeOK, NextTogglesLate, NextExclusive, NextAuthorizedStays, NextSerialized,
     NextLikedStays, NextReservedStays, NextCountedStays, NextCompleted,
     NextDurableStays, NextSuccessIsLast, NextCountMatchesLikes
  DEF IInv

-----------------------------------------------------------------------------
(* The theorems.                                                           *)

\* The inductive invariant.
THEOREM LikeInvariant == Spec => []IInv
  BY InitIInv, NextIInv, PTL DEF Spec

\* Type correctness.
THEOREM LikeTypeCorrect == Spec => []TypeOK
  <1>1. IInv => TypeOK
    BY DEF IInv
  <1>2. QED
    BY <1>1, LikeInvariant, PTL

\* The row lock of tree_social_counts, taken by the UPDATE and held until COMMIT,
\* keeps like_count equal to the number of active likes.
THEOREM CountsAreExact == Spec => []CountMatchesLikes
  <1>1. IInv => CountMatchesLikes
    BY DEF IInv
  <1>2. QED
    BY <1>1, LikeInvariant, PTL

\* A step that changes the likes is the durable COMMIT of a request.
LEMMA TogglesByCommit ==
  ASSUME IInv, [Next]_vars, likes' # likes
  PROVE  \E p \in Requests : CommitDurable(p)
  BY NextCases, StepEffect DEF IInv, Flip, vars

\* FOR SHARE on the trees row, held until COMMIT, keeps a tree public from its
\* authorization until a toggle of it is durable.
THEOREM TogglesAreAuthorized == Spec => NoToggleAfterRevocation
  <1>1. ASSUME IInv, [Next]_vars, NEW a \in Actors, NEW t \in Trees,
               (<<a, t>> \in likes) # (<<a, t>> \in likes')
        PROVE  t \in public
    <2>1. PICK p \in Requests : CommitDurable(p)
      BY <1>1, TogglesByCommit
    <2>2. <<a, t>> = <<actor(p), tree(p)>>
      BY <1>1, <2>1 DEF CommitDurable, IInv, TypeOK
    <2>3. tree(p) \in public
      BY <1>1, <2>1 DEF CommitDurable, IInv, AuthorizedStays, Locked
    <2>4. QED
      BY <2>2, <2>3
  <1>2. IInv /\ [Next]_vars =>
          [\A a \in Actors, t \in Trees :
             (<<a, t>> \in likes) # (<<a, t>> \in likes') => t \in public]_vars
    BY <1>1
  <1>3. QED
    BY <1>2, LikeInvariant, PTL DEF Spec, NoToggleAfterRevocation

-----------------------------------------------------------------------------
(* The refinement of ToggleLedger.                                         *)

Successes == {q \in Requests : answer[q] = "success"}

\* What callers were told, as the refinement mapping has it.
Told == {<<actor(r), key(r), [row[r] EXCEPT !.tree = tree(r)]>> : r \in Successes}

\* The row of a success is about the tree of the call: it is told as it is stored.
LEMMA ToldIsStored ==
  ASSUME IInv, NEW r \in Requests, pc[r] = "committed" \/ answer[r] = "success"
  PROVE  /\ [row[r] EXCEPT !.tree = tree(r)] = Stored(r)
         /\ Stored(r) # NoRow
  <1>1. Stored(r) = row[r] /\ row[r] # NoRow /\ row[r].tree = tree(r)
    BY DEF IInv, DurableStays, Durable, AsStored
  <1>2. row[r] \in Rows
    BY DEF IInv, TypeOK
  <1>3. QED
    BY <1>1, <1>2 DEF Rows, NoRow

\* Who has been told a result is told no other.
LEMMA ToldStays ==
  ASSUME IInv, NEW p \in Requests, Step(p), ~Acknowledge(p)
  PROVE  Told' = Told
  <1>1. Successes' = Successes /\ call' = call
    <2>1. answer'[p] = "success" <=> answer[p] = "success"
      <3> USE DEF IInv, TypeOK, SuccessIsLast, Statements
      <3>1. CASE Authorize(p)
        BY <3>1 DEF Authorize, Refuse
      <3>2. CASE Lookup(p)
        BY <3>2 DEF Lookup, Verify, Refuse
      <3>3. CASE Reserve(p)
        BY <3>3 DEF Reserve, Verify, Refuse
      <3>4. CASE Lock(p) \/ EnsureCounts(p) \/ ReadActive(p) \/ WriteLike(p)
                 \/ WriteCount(p) \/ Complete(p) \/ CommitDurable(p) \/ Discard(p)
        BY <3>4 DEF Lock, EnsureCounts, ReadActive, WriteLike, WriteCount, Complete,
           CommitDurable, Discard
      <3>5. CASE CommitLost(p) \/ AnswerUnknown(p) \/ Fail(p)
        BY <3>5 DEF CommitLost, AnswerUnknown, Fail, Refuse
      <3>6. QED
        BY <3>1, <3>2, <3>3, <3>4, <3>5 DEF Step, Progress, Statement
    <2>2. QED
      BY <2>1, StepEffect DEF IInv, Successes
  <1>2. \A r \in Successes : row'[r] = row[r]
    <2>1. ASSUME p \in Successes
          PROVE  row'[p] = row[p]
      <3>1. pc[p] = "closed"
        BY <2>1 DEF IInv, SuccessIsLast, Successes
      <3>2. QED
        BY <3>1 DEF Step, Progress, Statement, Authorize, Lock, EnsureCounts, Lookup,
           Reserve, ReadActive, WriteLike, WriteCount, Complete, CommitDurable,
           CommitLost, Acknowledge, Discard, AnswerUnknown, Fail, Statements
    <2>2. QED
      BY <2>1, StepEffect DEF IInv, Successes
  <1>3. QED
    BY <1>1, <1>2 DEF Told

\* A toggle that becomes durable is the one application of its key.
LEMMA CommitApplies ==
  ASSUME IInv, NEW p \in Requests, CommitDurable(p), Toggles(p), Told' = Told
  PROVE  Ledger!Apply(actor(p), tree(p), key(p))
  <1>1. /\ Stored(p) = NoRow /\ row[p] \in Rows \ {NoRow}
        /\ row[p].tree = tree(p) /\ row[p].state = "completed"
    BY DEF CommitDurable, IInv, TypeOK, ReservedStays, Applying, Toggling, Reserved,
       Completed
  <1>2. /\ row[p].count = Cardinality(Likers(tree(p))')
        /\ row[p].active = (liked[p] = "no")
        /\ liked[p] = "no" <=> ~Liking(p)
    BY ToggleCounts
  <1>3. likes' = Ledger!Toggled(actor(p), tree(p))
    BY <1>2 DEF CommitDurable, Ledger!Toggled, Liking, Toggles, IInv, TypeOK
  <1>4. row[p].active = (<<actor(p), tree(p)>> \in likes')
    <2>1. liked[p] = "no" <=> <<actor(p), tree(p)>> \in likes'
      BY <1>2 DEF CommitDurable, Liking, Toggles, IInv, TypeOK
    <2>2. QED
      BY <1>2, <2>1
  <1>5. row[p] = Ledger!Result(tree(p), <<actor(p), tree(p)>> \in likes',
                               Ledger!LikeCount(likes', tree(p)))
    <2>1. row[p].count = Ledger!LikeCount(likes', tree(p))
      <3>1. \A S : Ledger!Cardinality(S) = Cardinality(S)
        BY DEF Ledger!Cardinality, Cardinality, Ledger!IsFiniteSet, IsFiniteSet
      <3>2. QED
        BY <1>2, <3>1 DEF Likers, Ledger!LikeCount, CommitDurable
    <2>2. row[p] = [state |-> row[p].state, tree |-> row[p].tree,
                    active |-> row[p].active, count |-> row[p].count]
      BY <1>1 DEF Rows, NoRow
    <2>3. QED
      BY <1>1, <1>4, <2>1, <2>2 DEF Ledger!Result
  <1>6. QED
    BY <1>1, <1>3, <1>5 DEF Ledger!Apply, Ledger!NoResult, NoRow, Stored, Told,
       Successes, CommitDurable

\* An acknowledged success tells the stored result of the key.
LEMMA AcknowledgeTells ==
  ASSUME IInv, NEW p \in Requests, Acknowledge(p)
  PROVE  Ledger!Tell(actor(p), key(p)) \/ UNCHANGED <<likes, ledger, Told>>
  <1>1. UNCHANGED <<likes, ledger, call, row>>
    BY DEF Acknowledge
  <1>2. CASE answer' = [answer EXCEPT ![p] = "success"]
    <2>1. Successes' = Successes \cup {p}
      BY <1>2 DEF Successes, IInv, TypeOK
    <2>2. Told' = Told \cup {<<actor(p), key(p), [row[p] EXCEPT !.tree = tree(p)]>>}
      BY <1>1, <2>1 DEF Told
    <2>3. Stored(p) # NoRow /\ [row[p] EXCEPT !.tree = tree(p)] = Stored(p)
      BY ToldIsStored DEF Acknowledge
    <2>4. QED
      BY <1>1, <2>2, <2>3 DEF Ledger!Tell, Ledger!NoResult, NoRow, Stored, Told,
         Successes
  <1>3. CASE answer' = [answer EXCEPT ![p] = "unknown"]
    <2>1. Successes' = Successes
      BY <1>3 DEF Successes, IInv, TypeOK, SuccessIsLast, Acknowledge
    <2>2. QED
      BY <1>1, <2>1 DEF Told
  <1>4. QED
    BY <1>2, <1>3 DEF Acknowledge

\* The initial states of the requests are initial states of the ledger.
LEMMA InitRefines == Init => Ledger!Init
  BY DEF Init, Ledger!Init, Ledger!NoResult, NoRow

\* Every step of the requests is a step of the ledger, or leaves it alone.
LEMMA NextRefines ==
  ASSUME IInv, [Next]_vars
  PROVE  [Ledger!Next]_(Ledger!vars)
  <1>1. ASSUME NEW p \in Requests, CommitDurable(p)
        PROVE  [Ledger!Next]_(Ledger!vars)
    <2>1. Step(p) /\ ~Acknowledge(p)
      BY <1>1 DEF Step, Progress, CommitDurable, Acknowledge
    <2>2. Told' = Told
      BY <2>1, ToldStays
    <2>3. CASE Toggles(p)
      <3>1. Ledger!Apply(actor(p), tree(p), key(p))
        BY <1>1, <2>2, <2>3, CommitApplies
      <3>2. actor(p) \in Actors /\ tree(p) \in Trees /\ key(p) \in Keys
        BY CallType DEF IInv
      <3>3. QED
        BY <3>1, <3>2 DEF Ledger!Next
    <2>4. CASE ~Toggles(p)
      <3>1. likes' = likes
        BY <1>1, <2>4 DEF CommitDurable, Toggles, IInv, TypeOK
      <3>2. Stored(p) = row[p]
        BY <1>1, <2>4 DEF CommitDurable, IInv, DurableStays, Durable, AsStored,
           Replaying
      <3>3. ledger' = ledger
        BY <1>1, <3>2, CallType DEF CommitDurable, Stored, IInv, TypeOK
      <3>4. QED
        BY <2>2, <3>1, <3>3 DEF Ledger!vars, Told, Successes
    <2>5. QED
      BY <2>3, <2>4
  <1>2. ASSUME NEW p \in Requests, Acknowledge(p)
        PROVE  [Ledger!Next]_(Ledger!vars)
    <2>1. CASE Ledger!Tell(actor(p), key(p))
      <3>1. actor(p) \in Actors /\ key(p) \in Keys
        BY CallType DEF IInv
      <3>2. QED
        BY <2>1, <3>1 DEF Ledger!Next, Ledger!Tell
    <2>2. CASE UNCHANGED <<likes, ledger, Told>>
      BY <2>2 DEF Ledger!vars, Told, Successes
    <2>3. QED
      BY <1>2, <2>1, <2>2, AcknowledgeTells
  <1>3. ASSUME NEW p \in Requests, Step(p), ~CommitDurable(p), ~Acknowledge(p)
        PROVE  [Ledger!Next]_(Ledger!vars)
    <2>1. UNCHANGED <<likes, ledger>> /\ Told' = Told
      BY <1>3, StepEffect, ToldStays DEF IInv
    <2>2. QED
      BY <2>1 DEF Ledger!vars, Told, Successes
  <1>4. CASE UNCHANGED <<likes, ledger, call, row, answer>>
    BY <1>4 DEF Ledger!vars
  <1>5. QED
    BY <1>1, <1>2, <1>3, <1>4, NextCases DEF Flip, vars

\* The requests, retried and interleaved in any way, with any failures, implement the
\* atomic ledger: a key is applied at its durable COMMIT, and at most once.
THEOREM LikesImplementLedger == Spec => ImplementsLedger
  BY InitRefines, NextRefines, LikeInvariant, PTL
  DEF Spec, ImplementsLedger, Ledger!Spec

-----------------------------------------------------------------------------
(* Nobody waits for ever: locks are taken in turn.                         *)

\* The turn of every lock: whoever holds it is past the statement that takes it, and
\* whoever has ended holds none.  The row of a like is only locked under the advisory
\* lock of its actor and tree.
InTurn(r, lock) ==
  \/ lock = TreeRow(tree(r))
  \/ lock = ActorTree(actor(r), tree(r)) /\ pc[r] \notin {"authorize", "lock"}
  \/ lock = CountsRow(tree(r)) /\ pc[r] \notin {"authorize", "lock", "ensure"}
  \/ /\ lock = KeyRow(actor(r), key(r))
     /\ pc[r] \notin {"authorize", "lock", "ensure", "lookup", "reserve"}
  \/ lock = LikeRow(actor(r), tree(r)) /\ ActorTree(actor(r), tree(r)) \in held[r]

HeldInTurn ==
  \A r \in Requests :
    /\ pc[r] \in {"committed", "closed"} => held[r] = {}
    /\ \A lock \in held[r] : InTurn(r, lock)

\* Between the INSERT ... ON CONFLICT DO NOTHING and the UPDATE of the counts, a
\* transaction has locked the row only if it inserted it, that is if there was none.
Ensured == {"lookup", "reserve", "read", "like", "count"}

CountsMade ==
  \A r \in Requests :
    /\ pc[r] \in Ensured \cup {"complete", "committing"} =>
         counts[tree(r)] # NoCount \/ CountsRow(tree(r)) \in held[r]
    /\ pc[r] \in Ensured /\ CountsRow(tree(r)) \in held[r] => counts[tree(r)] = NoCount

\* A statement takes its lock in its turn; the end of the transaction gives all back.
LEMMA StepHeldInTurn ==
  ASSUME TypeOK, HeldInTurn, Serialized, NEW p \in Requests, Step(p)
  PROVE  HeldInTurn'
  <1> USE DEF TypeOK, HeldInTurn, InTurn, Serialized, Locked, Writing, Statements
  <1>1. CASE Authorize(p)
    BY <1>1 DEF Authorize, Hold, Refuse, Go
  <1>2. CASE Lock(p)
    BY <1>2 DEF Lock, Hold, Go
  <1>3. CASE EnsureCounts(p)
    BY <1>3 DEF EnsureCounts, Hold, Go
  <1>4. CASE Lookup(p)
    BY <1>4 DEF Lookup, Verify, Refuse, Go
  <1>5. CASE Reserve(p)
    BY <1>5 DEF Reserve, Hold, Verify, Refuse, Go
  <1>6. CASE ReadActive(p)
    BY <1>6 DEF ReadActive, Go
  <1>7. CASE WriteLike(p)
    BY <1>7 DEF WriteLike, Hold, Go
  <1>8. CASE WriteCount(p)
    BY <1>8 DEF WriteCount, Hold, Go
  <1>9. CASE Complete(p)
    BY <1>9 DEF Complete, Go
  <1>10. CASE CommitDurable(p)
    BY <1>10 DEF CommitDurable, Go
  <1>11. CASE CommitLost(p)
    BY <1>11 DEF CommitLost, Go
  <1>12. CASE AnswerUnknown(p)
    BY <1>12 DEF AnswerUnknown
  <1>13. CASE Acknowledge(p)
    BY <1>13 DEF Acknowledge, Go
  <1>14. CASE Fail(p)
    BY <1>14 DEF Fail, Refuse, Go
  <1>15. CASE Discard(p)
    BY <1>15 DEF Discard, Go
  <1>16. QED
    BY <1>1, <1>2, <1>3, <1>4, <1>5, <1>6, <1>7, <1>8, <1>9, <1>10,
       <1>11, <1>12, <1>13, <1>14, <1>15 DEF Step, Progress, Statement

\* A visibility does not change what is held.
LEMMA NextHeldInTurn ==
  ASSUME TypeOK, HeldInTurn, Serialized, [Next]_vars
  PROVE  HeldInTurn'
  <1>1. ASSUME NEW t \in Trees, Flip(t)
        PROVE  HeldInTurn'
    BY <1>1 DEF Flip, HeldInTurn, InTurn
  <1>2. CASE UNCHANGED vars
    BY <1>2 DEF HeldInTurn, InTurn, vars
  <1>3. QED
    BY <1>1, <1>2, NextCases, StepHeldInTurn

\* A request that commits makes the row of its tree durable: no other request then
\* holds a row of that tree that it inserted itself.
LEMMA CommitCountsMade ==
  ASSUME IInv, HeldInTurn, CountsMade, NEW p \in Requests, CommitDurable(p)
  PROVE  CountsMade'
  <1> USE DEF IInv
  <1>1. /\ pc[p] = "committing" /\ call' = call
        /\ \A r \in Requests \ {p} : pc'[r] = pc[r] /\ held'[r] = held[r]
        /\ pc'[p] \in {"committed", "closed"}
    BY DEF CommitDurable, Go, TypeOK
  <1>2. row[p].count \in Nat /\ CurrentCount(p) \in Nat
    BY <1>1, RowType DEF Completed, Rows, NoRow
  <1>3. /\ counts'[tree(p)] # NoCount
        /\ \A t \in Trees \ {tree(p)} : counts'[t] = counts[t]
    BY <1>2, CallType DEF CommitDurable, NoCount, TypeOK
  <1>4. ASSUME NEW r \in Requests, r # p, pc[r] \in Ensured,
               CountsRow(tree(r)) \in held[r]
        PROVE  tree(r) # tree(p)
    <2>1. counts[tree(r)] = NoCount
      BY <1>4 DEF CountsMade
    <2>2. counts[tree(p)] # NoCount \/ CountsRow(tree(p)) \in held[p]
      BY <1>1 DEF CountsMade
    <2>3. CountsRow(tree(p)) \in held[p] => tree(r) # tree(p)
      BY <1>4, OneHolder, CallType
    <2>4. QED
      BY <2>1, <2>2, <2>3
  <1>5. ASSUME NEW r \in Requests
        PROVE  tree(r)' = tree(r) /\ tree(r) \in Trees
    BY <1>1, CallType
  <1>6. QED
    BY <1>1, <1>3, <1>4, <1>5 DEF CountsMade, Ensured

\* The other steps leave the committed counts alone; EnsureCounts inserts the row if
\* there is none.
LEMMA StepCountsMade ==
  ASSUME IInv, HeldInTurn, CountsMade, NEW p \in Requests, Step(p)
  PROVE  CountsMade'
  <1> USE DEF IInv, TypeOK, CountsMade, Ensured, Statements
  <1>1. CASE Authorize(p)
    BY <1>1 DEF Authorize, Hold, Refuse, Go
  <1>2. CASE Lock(p)
    BY <1>2 DEF Lock, Hold, Go
  <1>3. CASE EnsureCounts(p)
    <2>1. CountsRow(tree(p)) \notin held[p]
      BY <1>3 DEF EnsureCounts, HeldInTurn, InTurn, CountsRow, TreeRow, ActorTree,
         KeyRow, LikeRow
    <2>2. QED
      BY <1>3, <2>1 DEF EnsureCounts, Hold, Go
  <1>4. CASE Lookup(p)
    BY <1>4 DEF Lookup, Verify, Refuse, Go
  <1>5. CASE Reserve(p)
    BY <1>5 DEF Reserve, Hold, Verify, Refuse, Go, KeyRow, CountsRow
  <1>6. CASE ReadActive(p)
    BY <1>6 DEF ReadActive, Go
  <1>7. CASE WriteLike(p)
    BY <1>7 DEF WriteLike, Hold, Go, LikeRow, CountsRow
  <1>8. CASE WriteCount(p)
    BY <1>8 DEF WriteCount, Hold, Go
  <1>9. CASE Complete(p)
    BY <1>9 DEF Complete, Go
  <1>10. CASE CommitDurable(p)
    BY <1>10, CommitCountsMade
  <1>11. CASE CommitLost(p)
    BY <1>11 DEF CommitLost, Go
  <1>12. CASE AnswerUnknown(p)
    BY <1>12 DEF AnswerUnknown
  <1>13. CASE Acknowledge(p)
    BY <1>13 DEF Acknowledge, Go
  <1>14. CASE Fail(p)
    BY <1>14 DEF Fail, Refuse, Go
  <1>15. CASE Discard(p)
    BY <1>15 DEF Discard, Go
  <1>16. QED
    BY <1>1, <1>2, <1>3, <1>4, <1>5, <1>6, <1>7, <1>8, <1>9, <1>10,
       <1>11, <1>12, <1>13, <1>14, <1>15 DEF Step, Progress, Statement

\* The same of all steps.
LEMMA NextCountsMade ==
  ASSUME IInv, HeldInTurn, CountsMade, [Next]_vars
  PROVE  CountsMade'
  <1>1. ASSUME NEW t \in Trees, Flip(t)
        PROVE  CountsMade'
    BY <1>1 DEF Flip, CountsMade
  <1>2. CASE UNCHANGED vars
    BY <1>2 DEF CountsMade, vars
  <1>3. QED
    BY <1>1, <1>2, NextCases, StepCountsMade

\* The locks of a kind, and what their holders have done.
LEMMA HolderIsPast ==
  ASSUME TypeOK, HeldInTurn, NEW r \in Requests, NEW q \in Requests
  PROVE  /\ ActorTree(actor(r), tree(r)) \in held[q] =>
              pc[q] \notin {"authorize", "lock", "committed", "closed"}
         /\ CountsRow(tree(r)) \in held[q] =>
              /\ tree(q) = tree(r)
              /\ pc[q] \notin {"authorize", "lock", "ensure", "committed", "closed"}
         /\ KeyRow(actor(r), key(r)) \in held[q] =>
              pc[q] \notin {"authorize", "lock", "ensure", "lookup", "reserve",
                            "committed", "closed"}
         /\ LikeRow(actor(r), tree(r)) \in held[q] =>
              ActorTree(actor(r), tree(r)) \in held[q]
  BY DEF HeldInTurn, InTurn, CountsRow, TreeRow, ActorTree, KeyRow, LikeRow

\* Whoever has read the like need not wait to write it: the other requests of the actor
\* on the tree wait for the advisory lock.
LEMMA LikeIsReady ==
  ASSUME IInv, HeldInTurn, NEW r \in Requests, pc[r] = "like"
  PROVE  Ready(r)
  <1> USE DEF IInv
  <1>1. ActorTree(actor(r), tree(r)) \in held[r]
    BY DEF Serialized, Locked, Writing
  <1>2. \A q \in Requests \ {r} : LikeRow(actor(r), tree(r)) \notin held[q]
    BY <1>1, HolderIsPast, OneHolder, CallType
  <1>3. liked[r] = "no" => <<actor(r), tree(r)>> \notin likes
    BY DEF LikedStays, LikedAsRead, Liking, Writing, Toggles
  <1>4. QED
    BY <1>2, <1>3 DEF Free

SomeReady == \E q \in Requests : Ready(q)

\* The last lock: whoever holds the counts while another waits to update them has
\* updated them itself, or inserted them, which the waiting one would have seen.
LEMMA CountGoesOn ==
  ASSUME IInv, HeldInTurn, CountsMade, NEW r \in Requests, pc[r] = "count"
  PROVE  SomeReady
  <1> USE DEF IInv
  <1>1. ASSUME NEW q \in Requests \ {r}, CountsRow(tree(r)) \in held[q]
        PROVE  pc[q] \in {"like", "complete", "committing", "aborting", "lookup", "read"}
    <2>1. /\ tree(q) = tree(r)
          /\ pc[q] \notin {"authorize", "lock", "ensure", "committed", "closed"}
      BY <1>1, HolderIsPast
    <2>2. CountsRow(tree(r)) \notin held[r]
      BY <1>1, OneHolder, CallType
    <2>3. counts[tree(q)] # NoCount
      BY <2>1, <2>2 DEF CountsMade, Ensured
    <2>4. pc[q] \notin Ensured
      BY <1>1, <2>1, <2>3 DEF CountsMade
    <2>5. QED
      BY <2>1, <2>4 DEF Ensured, TypeOK, Statements
  <1>2. CASE Free(r, CountsRow(tree(r)))
    BY <1>2 DEF SomeReady
  <1>3. CASE ~Free(r, CountsRow(tree(r)))
    BY <1>1, <1>3, LikeIsReady DEF SomeReady, Free
  <1>4. QED
    BY <1>2, <1>3

\* The lock before it: the holder of a key has reserved it.
LEMMA ReserveGoesOn ==
  ASSUME IInv, HeldInTurn, CountsMade, NEW r \in Requests, pc[r] = "reserve"
  PROVE  SomeReady
  <1>1. ASSUME NEW q \in Requests, KeyRow(actor(r), key(r)) \in held[q]
        PROVE  pc[q] \in {"read", "like", "count", "complete", "committing", "aborting"}
    BY <1>1, HolderIsPast DEF IInv, TypeOK, Statements
  <1>2. CASE Free(r, KeyRow(actor(r), key(r)))
    BY <1>2 DEF SomeReady
  <1>3. CASE ~Free(r, KeyRow(actor(r), key(r)))
    BY <1>1, <1>3, LikeIsReady, CountGoesOn DEF SomeReady, Free
  <1>4. QED
    BY <1>2, <1>3

\* And before that: whoever inserts the counts has still to reserve, and to update.
LEMMA EnsureGoesOn ==
  ASSUME IInv, HeldInTurn, CountsMade, NEW r \in Requests, pc[r] = "ensure"
  PROVE  SomeReady
  <1>1. ASSUME NEW q \in Requests, CountsRow(tree(r)) \in held[q]
        PROVE  pc[q] \in Ensured \cup {"complete", "committing", "aborting"}
    BY <1>1, HolderIsPast DEF IInv, TypeOK, Statements, Ensured
  <1>2. CASE Free(r, CountsRow(tree(r)))
    BY <1>2 DEF SomeReady
  <1>3. CASE ~Free(r, CountsRow(tree(r)))
    BY <1>1, <1>3, LikeIsReady, CountGoesOn, ReserveGoesOn DEF SomeReady, Free, Ensured
  <1>4. QED
    BY <1>2, <1>3

\* The first lock: the advisory one of an actor on a tree.
LEMMA LockGoesOn ==
  ASSUME IInv, HeldInTurn, CountsMade, NEW r \in Requests, pc[r] = "lock"
  PROVE  SomeReady
  <1>1. ASSUME NEW q \in Requests, ActorTree(actor(r), tree(r)) \in held[q]
        PROVE  pc[q] \in Ensured \cup {"ensure", "complete", "committing", "aborting"}
    BY <1>1, HolderIsPast DEF IInv, TypeOK, Statements, Ensured
  <1>2. CASE Free(r, ActorTree(actor(r), tree(r)))
    BY <1>2 DEF SomeReady
  <1>3. CASE ~Free(r, ActorTree(actor(r), tree(r)))
    BY <1>1, <1>3, LikeIsReady, CountGoesOn, ReserveGoesOn, EnsureGoesOn
    DEF SomeReady, Free, Ensured
  <1>4. QED
    BY <1>2, <1>3

\* Some request can always go on, and not by failing, as long as one has not ended: the
\* statements take the advisory lock, the counts if there are none, the key and the
\* counts in this order, and a request that ends gives everything back.
THEOREM NothingIsStuck == Spec => []NoRequestIsStuck
  <1>1. Init => HeldInTurn /\ CountsMade
    BY DEF Init, HeldInTurn, CountsMade, Ensured
  <1>2. IInv /\ HeldInTurn /\ CountsMade /\ [Next]_vars => HeldInTurn' /\ CountsMade'
    BY NextHeldInTurn, NextCountsMade DEF IInv
  <1>3. IInv /\ HeldInTurn /\ CountsMade => NoRequestIsStuck
    <2> SUFFICES ASSUME IInv, HeldInTurn, CountsMade, NEW r \in Requests,
                        pc[r] # "closed"
                 PROVE  SomeReady
      BY DEF NoRequestIsStuck, SomeReady
    <2>1. CASE pc[r] \in {"lock", "ensure", "reserve", "like", "count"}
      BY <2>1, LockGoesOn, EnsureGoesOn, ReserveGoesOn, LikeIsReady, CountGoesOn
      DEF SomeReady
    <2>2. CASE pc[r] \notin {"lock", "ensure", "reserve", "like", "count"}
      BY <2>2 DEF SomeReady
    <2>3. QED
      BY <2>1, <2>2
  <1>4. QED
    BY <1>1, <1>2, <1>3, LikeInvariant, PTL DEF Spec

=============================================================================
