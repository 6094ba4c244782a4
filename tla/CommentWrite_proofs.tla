------------------------ MODULE CommentWrite_proofs ------------------------
(***************************************************************************)
(* Proofs about CommentWrite, for any actors, targets, keys, requests and  *)
(* limits: a key creates one comment, replays name the original, the rate  *)
(* limits are exact, no comment outlives a revocation, the requests never  *)
(* all wait, and together they implement the atomic CommentBoard.  The     *)
(* argument: the reservation of the key and the slots of the rate limit    *)
(* are rows that stay locked until COMMIT, and a request that has them     *)
(* found no comment and room; the idempotency rows and the comments name   *)
(* each other; and the rows are locked in one order.                       *)
(***************************************************************************)
EXTENDS CommentWrite, FiniteSetTheorems, TLAPS

-----------------------------------------------------------------------------
(* The inductive invariant.                                                *)

\* A commit that creates a comment, and one that replays another.
Inserting(r) == pc[r] = "committing" /\ Fresh(r)
Replaying(r) == pc[r] = "committing" /\ ~Fresh(r)

\* From which statement on the target, the key and the slots are locked.
Authorized(r) ==
  pc[r] \in {"lookup", "reserve", "actorMinute", "actorSlot", "targetMinute",
            "targetSlot", "complete", "committing"}
Reserving(r)  ==
  \/ pc[r] \in {"actorMinute", "actorSlot", "targetMinute", "targetSlot", "complete"}
  \/ Inserting(r)
Slotted(r)    == pc[r] \in {"targetMinute", "targetSlot", "complete"} \/ Inserting(r)
AllSlotted(r) == Route(r) = "memory" /\ (pc[r] = "complete" \/ Inserting(r))

\* Only memory comments have a slot of their target, and the minute of a slot has been
\* read when it is taken.
SlotChosen ==
  \A r \in Requests :
    /\ pc[r] \in {"targetMinute", "targetSlot"} => Route(r) = "memory"
    /\ pc[r] = "actorSlot" => window[r].actor \in Minutes
    /\ pc[r] = "targetSlot" => window[r].target \in Minutes

\* Only the target rows are locked by several transactions at a time.
Exclusive ==
  \A r, q \in Requests : \A lock \in held[r] \cap held[q] :
    r = q \/ lock \in {TargetRow(t) : t \in Targets}

\* An authorized request has locked the target, and is therefore still authorized.
AuthorizedStays ==
  \A r \in Requests :
    Authorized(r) => TargetRow(target(r)) \in held[r] /\ MayComment(r)

\* A reserved key has no committed row.
Reserved(r) == KeyRow(r) \in held[r] /\ ledger[KeyRow(r)] = NoRow

ReservedStays == \A r \in Requests : Reserving(r) => Reserved(r)

\* A slot that was taken is locked, and there is still room for one more.
Room(r, scope, limit) == scope \in Scopes /\ scope \in held[r] /\ usage[scope] < limit

SlotsStay ==
  \A r \in Requests :
    /\ Slotted(r) => Room(r, ActorSlot(r), ActorLimit)
    /\ AllSlotted(r) => Room(r, TargetSlot(r), TargetLimit)

\* A comment is there once its request has committed it, and not before.
NotYetThere == \A r \in Created : pc[r] \in {"committed", "closed"}

\* An idempotency row names the comment that was created with it, and its call.
Describes(stored, r) ==
  /\ stored.state = "completed"
  /\ stored.of = r
  /\ stored.target = target(r)
  /\ stored.body = call[r].body
  /\ stored.id = StoredId(r)

RowsNameComments ==
  \A row \in KeyRows :
    ledger[row] # NoRow =>
      \E r \in Created : KeyRow(r) = row /\ Describes(ledger[row], r)

\* And each comment has the row of its key.
CommentsHaveRows ==
  \A r \in Created : ledger[KeyRow(r)] # NoRow /\ ledger[KeyRow(r)].of = r

\* The comment that a replay, a durable commit or a success names is of this call.
Named(r) == Replaying(r) \/ pc[r] = "committed" \/ answer[r] = "success"

SameCall(r) ==
  \E q \in Created : result[r] = q /\ call[q] = call[r]

NamedStays == \A r \in Requests : Named(r) => SameCall(r)

\* "gone" was said of a comment of this call that is removed, on the memory route.
GoneStays ==
  \A r \in Requests :
    answer[r] = "gone" /\ Route(r) = "memory" =>
      \E q \in Requests : call[q] = call[r] /\ comments[q] = "removed"

\* A success is the end of a request.
SuccessIsLast == \A r \in Requests : answer[r] = "success" => pc[r] = "closed"

IInv ==
  /\ TypeOK
  /\ SlotChosen
  /\ Exclusive
  /\ AuthorizedStays
  /\ ReservedStays
  /\ SlotsStay
  /\ NotYetThere
  /\ RowsNameComments
  /\ CommentsHaveRows
  /\ NamedStays
  /\ GoneStays
  /\ SuccessIsLast
  /\ WithinRateLimits
-----------------------------------------------------------------------------
(* What a step does.                                                       *)

USE CommentWriteAssumption DEF database, At, actor, target, Ready

\* A step of the transaction, or of the connection, of a request.
Step(r) == Progress(r) \/ AnswerUnknown(r) \/ Fail(r)

\* What happens besides: deletions, revocations and time.
World ==
  \/ \E r \in Requests : RemoveComment(r)
  \/ \E t \in Targets : Flip(t)
  \/ Tick
  \/ UNCHANGED vars

\* Every step is one or the other.
LEMMA NextCases ==
  ASSUME [Next]_vars
  PROVE  World \/ \E p \in Requests : Step(p)
  BY DEF Next, Step, World, Finished

\* What a request names is an actor, a target, a route, a body and a key.
LEMMA CallType ==
  ASSUME TypeOK, NEW r \in Requests
  PROVE  /\ actor(r) \in Actors /\ target(r) \in Targets
         /\ call[r].body \in Bodies /\ call[r].key \in Keys
         /\ Route(r) \in Routes /\ KeyRow(r) \in KeyRows
         /\ Route(r) = "memory" <=> target(r) \in Memories
  BY DEF TypeOK, Calls, Route, Routes, Targets, KeyRow, KeyRows

\* The locks that the statements take are locks.
LEMMA LocksAreLocks ==
  /\ \A t \in Targets : TargetRow(t) \in Locks
  /\ KeyRows \subseteq Locks /\ Scopes \subseteq Locks
  /\ \A route \in Routes, a \in Actors, m \in Minutes : ActorScope(route, a, m) \in Scopes
  /\ \A a \in Actors, t \in Memories, m \in Minutes : TargetScope(a, t, m) \in Scopes
  BY DEF Locks, Scopes

\* Keys and slots are not target rows, and of the slots of a request one is its
\* actor's and one its target's.
LEMMA LocksDiffer ==
  /\ \A lock \in KeyRows \cup Scopes : lock \notin {TargetRow(t) : t \in Targets}
  /\ \A route, a, m : ActorScope(route, a, m)[1] = "actor"
  /\ \A a, t, m : TargetScope(a, t, m)[1] = "target"
  BY DEF KeyRows, Scopes, TargetRow, ActorScope, TargetScope

\* Taking one more lock keeps the type of held.
LEMMA HoldType ==
  ASSUME TypeOK, NEW r \in Requests, NEW lock \in Locks, Hold(r, lock)
  PROVE  held' \in [Requests -> SUBSET Locks]
  BY DEF TypeOK, Hold

\* An idempotency row has all the columns.
LEMMA RowType ==
  ASSUME TypeOK, NEW row \in KeyRows, ledger[row] # NoRow
  PROVE  /\ ledger[row].state \in {"pending", "completed"}
         /\ ledger[row].target \in Targets /\ ledger[row].body \in Bodies
         /\ ledger[row].id \in {"reservation", "comment"}
         /\ ledger[row].of \in Requests
  BY DEF TypeOK, Rows

\* A request leaves the others alone, and the database unless it commits.
LEMMA StepEffect ==
  ASSUME TypeOK, NEW p \in Requests, Step(p)
  PROVE  /\ UNCHANGED <<public, flips, minute, call>>
         /\ \A r \in Requests \ {p} :
              /\ pc'[r] = pc[r] /\ window'[r] = window[r] /\ result'[r] = result[r]
              /\ held'[r] = held[r] /\ answer'[r] = answer[r]
         /\ CommitDurable(p) \/ UNCHANGED <<comments, usage, ledger>>
  <1> USE DEF TypeOK
  <1>1. CASE Authorize(p)
    BY <1>1 DEF Authorize, Hold, Refuse, Go
  <1>2. CASE Lookup(p)
    BY <1>2 DEF Lookup, Verify, Refuse, Go
  <1>3. CASE Reserve(p)
    BY <1>3 DEF Reserve, Hold, Verify, Refuse, Go
  <1>4. CASE TakeActorSlot(p)
    BY <1>4 DEF TakeActorSlot, TakeSlot, Hold, Refuse, Go
  <1>5. CASE TakeTargetSlot(p)
    BY <1>5 DEF TakeTargetSlot, TakeSlot, Hold, Refuse, Go
  <1>6. CASE Complete(p)
    BY <1>6 DEF Complete, Go
  <1>7. CASE CommitDurable(p)
    BY <1>7 DEF CommitDurable, Go
  <1>8. CASE CommitLost(p)
    BY <1>8 DEF CommitLost, Go
  <1>9. CASE AnswerUnknown(p)
    BY <1>9 DEF AnswerUnknown
  <1>10. CASE Acknowledge(p)
    BY <1>10 DEF Acknowledge, Go
  <1>11. CASE Fail(p)
    BY <1>11 DEF Fail, Refuse, Go
  <1>12. CASE Discard(p)
    BY <1>12 DEF Discard, Go
  <1>13. CASE ReadMinute(p)
    BY <1>13 DEF ReadMinute, Go
  <1>14. QED
    BY <1>1, <1>2, <1>3, <1>4, <1>5, <1>6, <1>7, <1>8, <1>9, <1>10,
       <1>11, <1>12, <1>13 DEF Step, Progress

\* Nothing else touches a transaction, what it has locked, or a created comment
\* but to remove it.
LEMMA WorldEffect ==
  ASSUME TypeOK, World
  PROVE  /\ UNCHANGED <<usage, ledger, pc, call, window, result, held, answer>>
         /\ \A r \in Requests :
              \/ comments'[r] = comments[r]
              \/ comments[r] = "visible" /\ comments'[r] = "removed"
         /\ Created' = Created
         /\ \A r \in Requests : TargetRow(target(r)) \in held[r] =>
              (target(r) \in public' <=> target(r) \in public)
  <1>1. CASE \E r \in Requests : RemoveComment(r)
    BY <1>1 DEF RemoveComment, Created, TypeOK
  <1>2. CASE \E t \in Targets : Flip(t)
    BY <1>2 DEF Flip, Created
  <1>3. CASE Tick \/ UNCHANGED vars
    BY <1>3 DEF Tick, vars, Created
  <1>4. QED
    BY <1>1, <1>2, <1>3 DEF World

\* Locks are held until the end of the transaction; all but the target row are free
\* when they are taken.
LEMMA StepHeld ==
  ASSUME TypeOK, NEW p \in Requests, Step(p)
  PROVE  \/ held'[p] = {} /\ pc'[p] \in {"committed", "closed"}
         \/ /\ held[p] \subseteq held'[p]
            /\ \A lock \in held'[p] \ held[p] :
                 Free(p, lock) \/ lock = TargetRow(target(p))
  <1> USE DEF TypeOK
  <1>1. CASE Authorize(p)
    BY <1>1 DEF Authorize, Hold, Refuse, Go
  <1>2. CASE Lookup(p)
    BY <1>2 DEF Lookup, Verify, Refuse, Go
  <1>3. CASE Reserve(p)
    BY <1>3 DEF Reserve, Hold, Verify, Refuse, Go
  <1>4. CASE TakeActorSlot(p)
    BY <1>4 DEF TakeActorSlot, TakeSlot, Hold, Refuse, Go
  <1>5. CASE TakeTargetSlot(p)
    BY <1>5 DEF TakeTargetSlot, TakeSlot, Hold, Refuse, Go
  <1>6. CASE Complete(p)
    BY <1>6 DEF Complete, Go
  <1>7. CASE CommitDurable(p)
    BY <1>7 DEF CommitDurable, Go
  <1>8. CASE CommitLost(p)
    BY <1>8 DEF CommitLost, Go
  <1>9. CASE AnswerUnknown(p)
    BY <1>9 DEF AnswerUnknown
  <1>10. CASE Acknowledge(p)
    BY <1>10 DEF Acknowledge, Go
  <1>11. CASE Fail(p)
    BY <1>11 DEF Fail, Refuse, Go
  <1>12. CASE Discard(p)
    BY <1>12 DEF Discard, Go
  <1>13. CASE ReadMinute(p)
    BY <1>13 DEF ReadMinute, Go
  <1>14. QED
    BY <1>1, <1>2, <1>3, <1>4, <1>5, <1>6, <1>7, <1>8, <1>9, <1>10,
       <1>11, <1>12, <1>13 DEF Step, Progress

-----------------------------------------------------------------------------
(* Types.                                                                  *)

\* A verified row is either refused or names a request.
LEMMA VerifyType ==
  ASSUME TypeOK, NEW r \in Requests, ledger[KeyRow(r)] # NoRow,
         Verify(r, ledger[KeyRow(r)])
  PROVE  /\ result' \in [Requests -> Requests \cup {"none"}]
         /\ pc' \in {[pc EXCEPT ![r] = "committing"], [pc EXCEPT ![r] = "aborting"]}
         /\ answer' \in [Requests -> Answers]
  <1>1. ledger[KeyRow(r)].of \in Requests
    BY CallType, RowType
  <1>2. Verdict(r, ledger[KeyRow(r)]) \in Answers \cup {"replay"}
    BY DEF Verdict, Answers
  <1>3. QED
    BY <1>1, <1>2 DEF TypeOK, Verify, Refuse, Go

\* The minute that is read is one.
LEMMA WindowType ==
  ASSUME TypeOK, NEW r \in Requests
  PROVE  /\ [window EXCEPT ![r].actor = minute] \in
              [Requests -> [actor : Minutes \cup {-1}, target : Minutes \cup {-1}]]
         /\ [window EXCEPT ![r].target = minute] \in
              [Requests -> [actor : Minutes \cup {-1}, target : Minutes \cup {-1}]]
  BY DEF TypeOK

\* Types are preserved by the requests.
LEMMA StepTypeOK ==
  ASSUME TypeOK, SlotChosen, NEW p \in Requests, Step(p)
  PROVE  TypeOK'
  <1> USE DEF TypeOK, Statements, Answers
  <1>1. CASE Authorize(p)
    <2>1. held' \in [Requests -> SUBSET Locks]
      BY <1>1, CallType, LocksAreLocks, HoldType DEF Authorize
    <2>2. QED
      BY <1>1, <2>1 DEF Authorize, Refuse, Go
  <1>2. CASE Lookup(p)
    BY <1>2, VerifyType DEF Lookup, Go
  <1>3. CASE Reserve(p)
    <2>1. held' \in [Requests -> SUBSET Locks]
      BY <1>3, CallType, LocksAreLocks, HoldType DEF Reserve
    <2>2. QED
      BY <1>3, <2>1, VerifyType DEF Reserve, Go
  <1>4. CASE TakeActorSlot(p)
    <2>1. ActorSlot(p) \in Locks
      BY <1>4, CallType, LocksAreLocks DEF TakeActorSlot, SlotChosen, ActorSlot
    <2>2. held' \in [Requests -> SUBSET Locks]
      BY <1>4, <2>1, HoldType DEF TakeActorSlot, TakeSlot
    <2>3. UNCHANGED <<database, call, window, result>>
      BY <1>4 DEF TakeActorSlot, TakeSlot
    <2>4. /\ pc' \in [Requests -> Statements \cup {"actorMinute", "targetMinute",
                              "committing", "committed", "aborting", "closed"}]
          /\ answer' \in [Requests -> Answers]
      BY <1>4 DEF TakeActorSlot, TakeSlot, Refuse, Go
    <2>5. QED
      BY <2>2, <2>3, <2>4
  <1>5. CASE TakeTargetSlot(p)
    <2>1. TargetSlot(p) \in Locks
      BY <1>5, CallType, LocksAreLocks DEF TakeTargetSlot, SlotChosen, TargetSlot
    <2>2. held' \in [Requests -> SUBSET Locks]
      BY <1>5, <2>1, HoldType DEF TakeTargetSlot, TakeSlot
    <2>3. UNCHANGED <<database, call, window, result>>
      BY <1>5 DEF TakeTargetSlot, TakeSlot
    <2>4. /\ pc' \in [Requests -> Statements \cup {"actorMinute", "targetMinute",
                              "committing", "committed", "aborting", "closed"}]
          /\ answer' \in [Requests -> Answers]
      BY <1>5 DEF TakeTargetSlot, TakeSlot, Refuse, Go
    <2>5. QED
      BY <2>2, <2>3, <2>4
  <1>6. CASE Complete(p)
    BY <1>6 DEF Complete, Go
  <1>7. CASE CommitDurable(p)
    <2>1. ledger' \in [KeyRows -> Rows]
      BY <1>7, CallType DEF CommitDurable, Rows, StoredId
    <2>2. usage' \in [Scopes -> Nat]
      BY <1>7 DEF CommitDurable
    <2>3. QED
      BY <1>7, <2>1, <2>2 DEF CommitDurable, Go
  <1>8. CASE CommitLost(p)
    BY <1>8 DEF CommitLost, Go
  <1>9. CASE AnswerUnknown(p)
    BY <1>9 DEF AnswerUnknown
  <1>10. CASE Acknowledge(p)
    BY <1>10 DEF Acknowledge, Go
  <1>11. CASE Fail(p)
    BY <1>11 DEF Fail, Refuse, Go
  <1>12. CASE Discard(p)
    BY <1>12 DEF Discard, Go
  <1>13. CASE ReadMinute(p)
    <2>1. window' \in [Requests -> [actor : Minutes \cup {-1}, target : Minutes \cup {-1}]]
      <3>1. /\ [window EXCEPT ![p].actor = minute] \in
                 [Requests -> [actor : Minutes \cup {-1}, target : Minutes \cup {-1}]]
            /\ [window EXCEPT ![p].target = minute] \in
                 [Requests -> [actor : Minutes \cup {-1}, target : Minutes \cup {-1}]]
        BY WindowType
      <3>2. \/ window' = [window EXCEPT ![p].actor = minute]
            \/ window' = [window EXCEPT ![p].target = minute]
        BY <1>13 DEF ReadMinute
      <3>3. QED
        BY <3>1, <3>2, Zenon
    <2>2. pc' \in {[pc EXCEPT ![p] = "actorSlot"], [pc EXCEPT ![p] = "targetSlot"]}
      BY <1>13 DEF ReadMinute, Go
    <2>3. UNCHANGED <<database, call, result, held, answer>>
      BY <1>13 DEF ReadMinute
    <2>4. QED
      BY <2>1, <2>2, <2>3
  <1>14. QED
    BY <1>1, <1>2, <1>3, <1>4, <1>5, <1>6, <1>7, <1>8, <1>9, <1>10,
       <1>11, <1>12, <1>13 DEF Step, Progress

\* Types are preserved.
LEMMA NextTypeOK ==
  ASSUME TypeOK, SlotChosen, [Next]_vars
  PROVE  TypeOK'
  <1>1. CASE \E r \in Requests : RemoveComment(r)
    BY <1>1 DEF RemoveComment, TypeOK
  <1>2. ASSUME NEW t \in Targets, Flip(t)
        PROVE  TypeOK'
    <2>1. flips' \in 0..MaxFlips
      BY <1>2 DEF TypeOK, Flip
    <2>2. QED
      BY <1>2, <2>1 DEF TypeOK, Flip
  <1>3. CASE Tick
    <2>1. minute' \in Minutes
      BY <1>3 DEF TypeOK, Tick, Minutes
    <2>2. QED
      BY <1>3, <2>1 DEF TypeOK, Tick
  <1>4. CASE UNCHANGED vars
    BY <1>4 DEF TypeOK, vars
  <1>5. QED
    BY <1>1, <1>2, <1>3, <1>4, NextCases, StepTypeOK DEF World

-----------------------------------------------------------------------------
(* Where a request is, and what it holds.                                  *)

\* Only the memory route gets to the second slot.
LEMMA StepSlotChosen ==
  ASSUME TypeOK, SlotChosen, NEW p \in Requests, Step(p)
  PROVE  SlotChosen'
  <1> USE DEF TypeOK, SlotChosen, Route
  <1>1. CASE Authorize(p)
    BY <1>1 DEF Authorize, Hold, Refuse, Go
  <1>2. CASE Lookup(p)
    BY <1>2 DEF Lookup, Verify, Refuse, Go
  <1>3. CASE Reserve(p)
    BY <1>3 DEF Reserve, Hold, Verify, Refuse, Go
  <1>4. CASE TakeActorSlot(p)
    BY <1>4 DEF TakeActorSlot, TakeSlot, Hold, Refuse, Go
  <1>5. CASE TakeTargetSlot(p)
    BY <1>5 DEF TakeTargetSlot, TakeSlot, Hold, Refuse, Go
  <1>6. CASE Complete(p)
    BY <1>6 DEF Complete, Go
  <1>7. CASE CommitDurable(p)
    BY <1>7 DEF CommitDurable, Go
  <1>8. CASE CommitLost(p)
    BY <1>8 DEF CommitLost, Go
  <1>9. CASE AnswerUnknown(p)
    BY <1>9 DEF AnswerUnknown
  <1>10. CASE Acknowledge(p)
    BY <1>10 DEF Acknowledge, Go
  <1>11. CASE Fail(p)
    BY <1>11 DEF Fail, Refuse, Go
  <1>12. CASE Discard(p)
    BY <1>12 DEF Discard, Go
  <1>13. CASE ReadMinute(p)
    BY <1>13 DEF ReadMinute, Go
  <1>14. QED
    BY <1>1, <1>2, <1>3, <1>4, <1>5, <1>6, <1>7, <1>8, <1>9, <1>10,
       <1>11, <1>12, <1>13 DEF Step, Progress

\* The same of all steps.
LEMMA NextSlotChosen ==
  ASSUME TypeOK, SlotChosen, [Next]_vars
  PROVE  SlotChosen'
  <1>1. CASE World
    BY <1>1, WorldEffect DEF SlotChosen, Route
  <1>2. QED
    BY <1>1, NextCases, StepSlotChosen

\* An answer of success ends the request.
LEMMA StepSuccessIsLast ==
  ASSUME TypeOK, SuccessIsLast, NEW p \in Requests, Step(p)
  PROVE  SuccessIsLast'
  <1> USE DEF TypeOK, SuccessIsLast, Statements
  <1>1. CASE Authorize(p)
    BY <1>1 DEF Authorize, Hold, Refuse, Go
  <1>2. CASE Lookup(p)
    BY <1>2 DEF Lookup, Verify, Verdict, Refuse, Go
  <1>3. CASE Reserve(p)
    BY <1>3 DEF Reserve, Verify, Verdict, Refuse, Go
  <1>4. CASE TakeActorSlot(p)
    BY <1>4 DEF TakeActorSlot, TakeSlot, Hold, Refuse, Go
  <1>5. CASE TakeTargetSlot(p)
    BY <1>5 DEF TakeTargetSlot, TakeSlot, Hold, Refuse, Go
  <1>6. CASE Complete(p)
    BY <1>6 DEF Complete, Go
  <1>7. CASE CommitDurable(p)
    BY <1>7 DEF CommitDurable, Go
  <1>8. CASE CommitLost(p)
    BY <1>8 DEF CommitLost, Go
  <1>9. CASE AnswerUnknown(p)
    BY <1>9 DEF AnswerUnknown
  <1>10. CASE Acknowledge(p)
    BY <1>10 DEF Acknowledge, Go
  <1>11. CASE Fail(p)
    BY <1>11 DEF Fail, Refuse, Go
  <1>12. CASE Discard(p)
    BY <1>12 DEF Discard, Go
  <1>13. CASE ReadMinute(p)
    BY <1>13 DEF ReadMinute, Go
  <1>14. QED
    BY <1>1, <1>2, <1>3, <1>4, <1>5, <1>6, <1>7, <1>8, <1>9, <1>10,
       <1>11, <1>12, <1>13 DEF Step, Progress

\* The same of all steps.
LEMMA NextSuccessIsLast ==
  ASSUME TypeOK, SuccessIsLast, [Next]_vars
  PROVE  SuccessIsLast'
  <1>1. CASE World
    BY <1>1, WorldEffect DEF SuccessIsLast
  <1>2. QED
    BY <1>1, NextCases, StepSuccessIsLast

\* No lock but that of a target row is taken while another transaction holds it.
LEMMA NextExclusive ==
  ASSUME TypeOK, Exclusive, [Next]_vars
  PROVE  Exclusive'
  <1>1. ASSUME NEW p \in Requests, Step(p)
        PROVE  Exclusive'
    <2> SUFFICES ASSUME NEW r \in Requests, NEW q \in Requests, r # q,
                        NEW lock \in held'[r] \cap held'[q]
                 PROVE  lock \in {TargetRow(t) : t \in Targets}
      BY DEF Exclusive
    <2>1. TargetRow(target(p)) \in {TargetRow(t) : t \in Targets}
      BY CallType
    <2>2. CASE lock \in held[r] \cap held[q]
      BY <2>2 DEF Exclusive
    <2>3. CASE lock \notin held[r] \cap held[q]
      <3>1. /\ p \in {r, q} /\ held[p] \subseteq held'[p]
            /\ Free(p, lock) \/ lock = TargetRow(target(p))
        BY <1>1, <2>3, StepEffect, StepHeld
      <3>2. CASE p = r
        BY <1>1, <2>1, <2>3, <3>1, <3>2, StepEffect DEF Free
      <3>3. CASE p = q
        BY <1>1, <2>1, <2>3, <3>1, <3>3, StepEffect DEF Free
      <3>4. QED
        BY <3>1, <3>2, <3>3
    <2>4. QED
      BY <2>2, <2>3
  <1>2. CASE World
    BY <1>2, WorldEffect DEF Exclusive
  <1>3. QED
    BY <1>1, <1>2, NextCases

\* Only one transaction holds a key or a slot.
LEMMA OneHolder ==
  ASSUME Exclusive, NEW r \in Requests, NEW q \in Requests,
         NEW lock \in KeyRows \cup Scopes, lock \in held[r], lock \in held[q]
  PROVE  r = q
  BY LocksDiffer DEF Exclusive

\* The target row is locked by the authorization, and until the end.
LEMMA StepAuthorizedStays ==
  ASSUME TypeOK, AuthorizedStays, NEW p \in Requests, Step(p)
  PROVE  AuthorizedStays'
  <1> USE DEF TypeOK, AuthorizedStays, Authorized, MayComment, Route, Statements
  <1>1. CASE Authorize(p)
    BY <1>1 DEF Authorize, Hold, Refuse, Go
  <1>2. CASE Lookup(p)
    BY <1>2 DEF Lookup, Verify, Refuse, Go
  <1>3. CASE Reserve(p)
    BY <1>3 DEF Reserve, Hold, Verify, Refuse, Go
  <1>4. CASE TakeActorSlot(p)
    BY <1>4 DEF TakeActorSlot, TakeSlot, Hold, Refuse, Go
  <1>5. CASE TakeTargetSlot(p)
    BY <1>5 DEF TakeTargetSlot, TakeSlot, Hold, Refuse, Go
  <1>6. CASE Complete(p)
    BY <1>6 DEF Complete, Go
  <1>7. CASE CommitDurable(p)
    BY <1>7 DEF CommitDurable, Go
  <1>8. CASE CommitLost(p)
    BY <1>8 DEF CommitLost, Go
  <1>9. CASE AnswerUnknown(p)
    BY <1>9 DEF AnswerUnknown
  <1>10. CASE Acknowledge(p)
    BY <1>10 DEF Acknowledge, Go
  <1>11. CASE Fail(p)
    BY <1>11 DEF Fail, Refuse, Go
  <1>12. CASE Discard(p)
    BY <1>12 DEF Discard, Go
  <1>13. CASE ReadMinute(p)
    BY <1>13 DEF ReadMinute, Go
  <1>14. QED
    BY <1>1, <1>2, <1>3, <1>4, <1>5, <1>6, <1>7, <1>8, <1>9, <1>10,
       <1>11, <1>12, <1>13 DEF Step, Progress

\* A visibility does not change under a lock of the target row.
LEMMA NextAuthorizedStays ==
  ASSUME TypeOK, AuthorizedStays, [Next]_vars
  PROVE  AuthorizedStays'
  <1>1. CASE World
    BY <1>1, WorldEffect DEF AuthorizedStays, Authorized, MayComment, Route
  <1>2. QED
    BY <1>1, NextCases, StepAuthorizedStays

\* A comment is created by the COMMIT of its request.
LEMMA StepNotYetThere ==
  ASSUME TypeOK, NotYetThere, NEW p \in Requests, Step(p)
  PROVE  NotYetThere'
  <1> USE DEF TypeOK, NotYetThere, Created, Statements
  <1>1. CASE Authorize(p)
    BY <1>1 DEF Authorize, Hold, Refuse, Go
  <1>2. CASE Lookup(p)
    BY <1>2 DEF Lookup, Verify, Refuse, Go
  <1>3. CASE Reserve(p)
    BY <1>3 DEF Reserve, Hold, Verify, Refuse, Go
  <1>4. CASE TakeActorSlot(p)
    BY <1>4 DEF TakeActorSlot, TakeSlot, Hold, Refuse, Go
  <1>5. CASE TakeTargetSlot(p)
    BY <1>5 DEF TakeTargetSlot, TakeSlot, Hold, Refuse, Go
  <1>6. CASE Complete(p)
    BY <1>6 DEF Complete, Go
  <1>7. CASE CommitDurable(p)
    BY <1>7 DEF CommitDurable, Go
  <1>8. CASE CommitLost(p)
    BY <1>8 DEF CommitLost, Go
  <1>9. CASE AnswerUnknown(p)
    BY <1>9 DEF AnswerUnknown
  <1>10. CASE Acknowledge(p)
    BY <1>10 DEF Acknowledge, Go
  <1>11. CASE Fail(p)
    BY <1>11 DEF Fail, Refuse, Go
  <1>12. CASE Discard(p)
    BY <1>12 DEF Discard, Go
  <1>13. CASE ReadMinute(p)
    BY <1>13 DEF ReadMinute, Go
  <1>14. QED
    BY <1>1, <1>2, <1>3, <1>4, <1>5, <1>6, <1>7, <1>8, <1>9, <1>10,
       <1>11, <1>12, <1>13 DEF Step, Progress

\* The same of all steps.
LEMMA NextNotYetThere ==
  ASSUME TypeOK, NotYetThere, [Next]_vars
  PROVE  NotYetThere'
  <1>1. CASE World
    BY <1>1, WorldEffect DEF NotYetThere
  <1>2. QED
    BY <1>1, NextCases, StepNotYetThere

-----------------------------------------------------------------------------
(* What a commit does to what others have read.                            *)

\* The slots that a request has taken are what it is charged.
LEMMA ChargedIs ==
  ASSUME IInv, NEW p \in Requests, Inserting(p)
  PROVE  /\ Charged(p) = {ActorSlot(p)} \cup
              (IF Route(p) = "memory" THEN {TargetSlot(p)} ELSE {})
         /\ \A s \in Charged(p) :
              Room(p, s, IF s[1] = "actor" THEN ActorLimit ELSE TargetLimit)
         /\ Reserved(p)
  <1>1. Charged(p) = {ActorSlot(p)} \cup
          (IF Route(p) = "memory" THEN {TargetSlot(p)} ELSE {})
    BY DEF Charged
  <1>2. /\ Room(p, ActorSlot(p), ActorLimit)
        /\ Route(p) = "memory" => Room(p, TargetSlot(p), TargetLimit)
    BY DEF IInv, SlotsStay, Slotted, AllSlotted
  <1>3. ActorSlot(p)[1] = "actor" /\ TargetSlot(p)[1] = "target"
    BY LocksDiffer DEF ActorSlot, TargetSlot
  <1>4. Reserved(p)
    BY DEF IInv, ReservedStays, Reserving
  <1>5. QED
    BY <1>1, <1>2, <1>3, <1>4

\* What a commit changes is locked.
LEMMA CommitLeaves ==
  ASSUME IInv, NEW p \in Requests, CommitDurable(p), NEW r \in Requests, r # p
  PROVE  /\ comments'[r] = comments[r]
         /\ KeyRow(r) \in held[r] => ledger'[KeyRow(r)] = ledger[KeyRow(r)]
         /\ \A s \in Scopes : s \in held[r] => usage'[s] = usage[s]
  <1>1. CASE Inserting(p)
    <2>1. /\ KeyRow(p) \in held[p]
          /\ \A s \in Charged(p) : s \in Scopes /\ s \in held[p]
      BY <1>1, ChargedIs DEF Reserved, Room
    <2>2. KeyRow(r) \in held[r] => KeyRow(r) # KeyRow(p)
      BY <2>1, OneHolder, CallType DEF IInv
    <2>3. ASSUME NEW s \in Scopes, s \in held[r]
          PROVE  s \notin Charged(p)
      BY <2>1, <2>3, OneHolder DEF IInv
    <2>4. KeyRow(r) \in held[r] => ledger'[KeyRow(r)] = ledger[KeyRow(r)]
      BY <2>2, CallType DEF CommitDurable, IInv, TypeOK
    <2>5. \A s \in Scopes : s \in held[r] => usage'[s] = usage[s]
      BY <1>1, <2>3 DEF CommitDurable, Inserting
    <2>6. QED
      BY <2>4, <2>5 DEF CommitDurable, IInv, TypeOK
  <1>2. CASE ~Inserting(p)
    BY <1>2 DEF CommitDurable, Inserting
  <1>3. QED
    BY <1>1, <1>2

\* A stored row is that of a comment of an earlier request, with the same call if it is
\* about the same target and text.
LEMMA ReplaysAnother ==
  ASSUME IInv, NEW p \in Requests, pc[p] \in Statements, ledger[KeyRow(p)] # NoRow
  PROVE  \E q \in Created :
           /\ ledger[KeyRow(p)].of = q /\ q # p /\ KeyRow(q) = KeyRow(p)
           /\ Describes(ledger[KeyRow(p)], q)
           /\ Verdict(p, ledger[KeyRow(p)]) # "key_reused" => call[q] = call[p]
  <1>1. PICK q \in Created : KeyRow(q) = KeyRow(p) /\ Describes(ledger[KeyRow(p)], q)
    BY CallType DEF IInv, RowsNameComments
  <1>2. q # p
    BY DEF IInv, NotYetThere, Statements
  <1>3. ASSUME target(q) = target(p), call[q].body = call[p].body
        PROVE  call[q] = call[p]
    <2>1. call[q] \in Calls /\ call[p] \in Calls
      BY DEF IInv, TypeOK, Created
    <2>2. actor(q) = actor(p) /\ call[q].key = call[p].key
      BY <1>1 DEF KeyRow
    <2>3. QED
      BY <1>3, <2>1, <2>2 DEF Calls
  <1>4. QED
    BY <1>1, <1>2, <1>3 DEF Describes, Verdict

\* A step of another request leaves what r has read, if it is locked, as it was.
LEMMA OthersLeave ==
  ASSUME IInv, NEW p \in Requests, Step(p), NEW r \in Requests, r # p
  PROVE  /\ call' = call /\ pc'[r] = pc[r] /\ window'[r] = window[r]
         /\ result'[r] = result[r] /\ held'[r] = held[r] /\ answer'[r] = answer[r]
         /\ KeyRow(r)' = KeyRow(r) /\ Route(r)' = Route(r)
         /\ KeyRow(r) \in held[r] => ledger'[KeyRow(r)] = ledger[KeyRow(r)]
         /\ \A s \in Scopes : s \in held[r] => usage'[s] = usage[s]
  <1>1. call' = call
    BY StepEffect DEF IInv
  <1>2. KeyRow(r)' = KeyRow(r) /\ Route(r)' = Route(r)
    BY <1>1 DEF KeyRow, Route
  <1>3. CASE CommitDurable(p)
    BY <1>2, <1>3, CommitLeaves, StepEffect DEF IInv
  <1>4. CASE UNCHANGED <<comments, usage, ledger>>
    BY <1>2, <1>4, StepEffect DEF IInv
  <1>5. QED
    BY <1>3, <1>4, StepEffect DEF IInv

\* A comment that is there stays, though it may be removed.
LEMMA CreatedStays ==
  ASSUME IInv, [Next]_vars
  PROVE  /\ Created \subseteq Created' /\ call' = call
         /\ \A r \in Requests : comments[r] = "removed" => comments'[r] = "removed"
  <1>1. ASSUME NEW p \in Requests, Step(p)
        PROVE  /\ Created \subseteq Created'
               /\ \A r \in Requests : comments[r] = "removed" => comments'[r] = "removed"
    <2>1. CASE CommitDurable(p)
      <3>1. p \notin Created
        BY <2>1 DEF CommitDurable, IInv, NotYetThere
      <3>2. \A r \in Requests \ {p} : comments'[r] = comments[r]
        BY <2>1, CommitLeaves
      <3>3. QED
        BY <3>1, <3>2 DEF Created
    <2>2. CASE comments' = comments
      BY <2>2 DEF Created
    <2>3. QED
      BY <1>1, <2>1, <2>2, StepEffect DEF IInv
  <1>2. CASE World
    BY <1>2, WorldEffect DEF IInv, Flip, Tick, vars, RemoveComment, World
  <1>3. QED
    BY <1>1, <1>2, NextCases, StepEffect DEF IInv, World, Flip, Tick, vars, RemoveComment

\* The reservation waits for the key, and goes on if it finds no row.
LEMMA OwnReservedStays ==
  ASSUME IInv, NEW p \in Requests, Step(p)
  PROVE  (Reserving(p) => Reserved(p))'
  <1> USE DEF IInv, TypeOK, ReservedStays, NotYetThere, Reserving, Reserved,
              Inserting, Fresh, KeyRow, Route, Statements
  <1>1. CASE Authorize(p)
    BY <1>1 DEF Authorize, Hold, Refuse, Go
  <1>2. CASE Lookup(p)
    <2>1. ledger[KeyRow(p)] # NoRow => ledger[KeyRow(p)].of # p
      BY <1>2, ReplaysAnother DEF Lookup
    <2>2. QED
      BY <1>2, <2>1 DEF Lookup, Verify, Refuse, Go
  <1>3. CASE Reserve(p)
    <2>1. pc[p] \in Statements
      BY <1>3 DEF Reserve
    <2>2. ledger[KeyRow(p)] # NoRow => ledger[KeyRow(p)].of # p
      BY <2>1, ReplaysAnother
    <2>3. QED
      BY <1>3, <2>2 DEF Reserve, Verify, Hold, Refuse, Go
  <1>4. CASE TakeActorSlot(p)
    <2>1. /\ held[p] \subseteq held'[p]
          /\ UNCHANGED <<ledger, call, result>>
          /\ pc'[p] \in {"targetMinute", "complete", "aborting"}
      BY <1>4 DEF TakeActorSlot, TakeSlot, Hold, Refuse, Go
    <2>2. QED
      BY <1>4, <2>1 DEF TakeActorSlot
  <1>5. CASE TakeTargetSlot(p)
    <2>1. /\ held[p] \subseteq held'[p]
          /\ UNCHANGED <<ledger, call, result>>
          /\ pc'[p] \in {"targetMinute", "complete", "aborting"}
      BY <1>5 DEF TakeTargetSlot, TakeSlot, Hold, Refuse, Go
    <2>2. QED
      BY <1>5, <2>1 DEF TakeTargetSlot
  <1>6. CASE Complete(p)
    BY <1>6 DEF Complete, Go
  <1>7. CASE CommitDurable(p)
    BY <1>7 DEF CommitDurable, Go
  <1>8. CASE CommitLost(p)
    BY <1>8 DEF CommitLost, Go
  <1>9. CASE AnswerUnknown(p)
    BY <1>9 DEF AnswerUnknown
  <1>10. CASE Acknowledge(p)
    BY <1>10 DEF Acknowledge, Go
  <1>11. CASE Fail(p)
    BY <1>11 DEF Fail, Refuse, Go
  <1>12. CASE Discard(p)
    BY <1>12 DEF Discard, Go
  <1>13. CASE ReadMinute(p)
    BY <1>13 DEF ReadMinute, Go
  <1>14. QED
    BY <1>1, <1>2, <1>3, <1>4, <1>5, <1>6, <1>7, <1>8, <1>9, <1>10,
       <1>11, <1>12, <1>13 DEF Step, Progress

\* Nobody else writes a row of the key meanwhile.
LEMMA NextReservedStays ==
  ASSUME IInv, [Next]_vars
  PROVE  ReservedStays'
  <1>1. ASSUME NEW p \in Requests, Step(p)
        PROVE  ReservedStays'
    <2>1. ASSUME NEW r \in Requests, r # p
          PROVE  (Reserving(r) => Reserved(r))'
      BY <1>1, <2>1, OthersLeave
      DEF IInv, ReservedStays, Reserving, Reserved, Inserting, Fresh
    <2>2. (Reserving(p) => Reserved(p))'
      BY <1>1, OwnReservedStays
    <2>3. QED
      BY <2>1, <2>2 DEF ReservedStays
  <1>2. CASE World
    BY <1>2, WorldEffect
    DEF IInv, ReservedStays, Reserving, Reserved, Inserting, Fresh, KeyRow,
        Route
  <1>3. QED
    BY <1>1, <1>2, NextCases

\* A slot that was taken is of the request's scopes, locked, and has room.
LEMMA SlotTaken ==
  ASSUME IInv, NEW r \in Requests, NEW scope \in Scopes, NEW limit, NEW next,
         TakeSlot(r, scope, limit, next)
  PROVE  /\ held[r] \subseteq held'[r] /\ UNCHANGED <<usage, call, result>>
         /\ \/ pc'[r] = "aborting"
            \/ pc'[r] = next /\ scope \in held'[r] /\ usage[scope] < limit
  BY DEF IInv, TypeOK, TakeSlot, Hold, Refuse, Go

\* Where a request stands that has the slots it needs.
SlotsOf(r) ==
  /\ Slotted(r) => Room(r, ActorSlot(r), ActorLimit)
  /\ AllSlotted(r) => Room(r, TargetSlot(r), TargetLimit)

\* A slot is taken if there is room, under the lock of its row.
LEMMA OwnSlotsStay ==
  ASSUME IInv, NEW p \in Requests, Step(p)
  PROVE  SlotsOf(p)'
  <1> USE DEF IInv, TypeOK, SlotsStay, SlotsOf, Slotted, AllSlotted, Room, ActorSlot,
              TargetSlot, Inserting, Fresh, Route, Statements
  <1>1. CASE Authorize(p)
    BY <1>1 DEF Authorize, Hold, Refuse, Go
  <1>2. CASE Lookup(p)
    <2>1. ledger[KeyRow(p)] # NoRow => ledger[KeyRow(p)].of # p
      BY <1>2, ReplaysAnother DEF Lookup
    <2>2. \/ pc'[p] \in {"reserve", "aborting"}
          \/ pc'[p] = "committing" /\ ~Fresh(p)'
      BY <1>2, <2>1 DEF Lookup, Verify, Refuse, Go
    <2>3. QED
      BY <2>2
  <1>3. CASE Reserve(p)
    <2>1. ledger[KeyRow(p)] # NoRow => ledger[KeyRow(p)].of # p
      BY <1>3, ReplaysAnother DEF Reserve
    <2>2. \/ pc'[p] \in {"actorMinute", "aborting"}
          \/ pc'[p] = "committing" /\ ~Fresh(p)'
      BY <1>3, <2>1 DEF Reserve, Verify, Refuse, Go
    <2>3. QED
      BY <2>2
  <1>4. CASE TakeActorSlot(p)
    <2>1. ActorSlot(p) \in Scopes
      BY <1>4, CallType, LocksAreLocks DEF TakeActorSlot, SlotChosen
    <2>2. UNCHANGED <<usage, call, window, result>>
      BY <1>4 DEF TakeActorSlot, TakeSlot
    <2>3. \/ pc'[p] = "aborting"
          \/ /\ pc'[p] = IF Route(p) = "memory" THEN "targetMinute" ELSE "complete"
             /\ ActorSlot(p) \in held'[p] /\ usage[ActorSlot(p)] < ActorLimit
      BY <1>4, <2>1, SlotTaken DEF TakeActorSlot
    <2>4. QED
      BY <2>1, <2>2, <2>3
  <1>5. CASE TakeTargetSlot(p)
    <2>1. Route(p) = "memory" /\ TargetSlot(p) \in Scopes
      BY <1>5, CallType, LocksAreLocks DEF TakeTargetSlot, SlotChosen
    <2>2. UNCHANGED <<usage, call, window, result>>
      BY <1>5 DEF TakeTargetSlot, TakeSlot
    <2>3. /\ held[p] \subseteq held'[p]
          /\ \/ pc'[p] = "aborting"
             \/ /\ pc'[p] = "complete"
                /\ TargetSlot(p) \in held'[p] /\ usage[TargetSlot(p)] < TargetLimit
      BY <1>5, <2>1, SlotTaken DEF TakeTargetSlot
    <2>4. Room(p, ActorSlot(p), ActorLimit)
      BY <1>5 DEF TakeTargetSlot
    <2>5. QED
      BY <2>1, <2>2, <2>3, <2>4
  <1>6. CASE Complete(p)
    BY <1>6 DEF Complete, Go
  <1>7. CASE CommitDurable(p)
    BY <1>7 DEF CommitDurable, Go
  <1>8. CASE CommitLost(p)
    BY <1>8 DEF CommitLost, Go
  <1>9. CASE AnswerUnknown(p)
    BY <1>9 DEF AnswerUnknown
  <1>10. CASE Acknowledge(p)
    BY <1>10 DEF Acknowledge, Go
  <1>11. CASE Fail(p)
    BY <1>11 DEF Fail, Refuse, Go
  <1>12. CASE Discard(p)
    BY <1>12 DEF Discard, Go
  <1>13. CASE ReadMinute(p)
    BY <1>13 DEF ReadMinute, Go
  <1>14. QED
    BY <1>1, <1>2, <1>3, <1>4, <1>5, <1>6, <1>7, <1>8, <1>9, <1>10,
       <1>11, <1>12, <1>13 DEF Step, Progress

\* Nobody else is charged to the same scope meanwhile.
LEMMA SlotChosensStay ==
  ASSUME IInv, [Next]_vars
  PROVE  SlotsStay'
  <1>1. ASSUME NEW p \in Requests, Step(p)
        PROVE  SlotsStay'
    <2>1. ASSUME NEW r \in Requests, r # p
          PROVE  SlotsOf(r)'
      BY <1>1, <2>1, OthersLeave
      DEF IInv, SlotsStay, SlotsOf, Slotted, AllSlotted, Room, ActorSlot,
          TargetSlot, Inserting, Fresh
    <2>2. SlotsOf(p)'
      BY <1>1, OwnSlotsStay
    <2>3. QED
      BY <2>1, <2>2 DEF SlotsStay, SlotsOf
  <1>2. CASE World
    BY <1>2, WorldEffect
    DEF IInv, SlotsStay, SlotsOf, Slotted, AllSlotted, Room, ActorSlot,
        TargetSlot, Inserting, Fresh, Route
  <1>3. QED
    BY <1>1, <1>2, NextCases

-----------------------------------------------------------------------------
(* Rows and comments.                                                      *)

\* A comment that a COMMIT creates gets the row of its key, which was not there.
LEMMA CommitCreates ==
  ASSUME IInv, NEW p \in Requests, CommitDurable(p), Inserting(p)
  PROVE  /\ p \notin Created /\ Created' = Created \cup {p}
         /\ ledger[KeyRow(p)] = NoRow
         /\ ledger'[KeyRow(p)] # NoRow /\ Describes(ledger'[KeyRow(p)], p)
         /\ \A row \in KeyRows : row # KeyRow(p) => ledger'[row] = ledger[row]
         /\ UNCHANGED <<call, window, result>>
  <1>1. p \notin Created
    BY DEF IInv, NotYetThere, Inserting
  <1>2. /\ comments' = [comments EXCEPT ![p] = "visible"]
        /\ UNCHANGED <<call, window, result>>
    BY DEF CommitDurable, Inserting
  <1>3. Created' = Created \cup {p}
    BY <1>2 DEF Created, IInv, TypeOK
  <1>4. ledger[KeyRow(p)] = NoRow
    BY ChargedIs DEF Reserved
  <1>5. ledger'[KeyRow(p)] = [state |-> "completed", target |-> target(p),
                              body |-> call[p].body, id |-> StoredId(p), of |-> p]
    BY CallType DEF CommitDurable, Inserting, IInv, TypeOK
  <1>6. ledger'[KeyRow(p)] # NoRow /\ Describes(ledger'[KeyRow(p)], p)
    BY <1>5 DEF NoRow, Describes
  <1>7. \A row \in KeyRows : row # KeyRow(p) => ledger'[row] = ledger[row]
    BY CallType DEF CommitDurable, Inserting, IInv, TypeOK
  <1>8. QED
    BY <1>1, <1>2, <1>3, <1>4, <1>6, <1>7

\* No other step creates a comment or writes a row.
LEMMA OnlyCommitCreates ==
  ASSUME IInv, [Next]_vars
  PROVE  \/ \E p \in Requests : CommitDurable(p) /\ Inserting(p)
         \/ /\ Created' = Created /\ UNCHANGED <<ledger, usage, call>>
            /\ \A r \in Created : window'[r] = window[r]
  <1>1. ASSUME NEW p \in Requests, CommitDurable(p), ~Inserting(p)
        PROVE  UNCHANGED <<comments, ledger, usage, call, window>>
    BY <1>1 DEF CommitDurable, Inserting
  <1>2. ASSUME NEW p \in Requests, Step(p), ~CommitDurable(p)
        PROVE  /\ UNCHANGED <<comments, ledger, usage, call>>
               /\ \A r \in Created : window'[r] = window[r]
    <2>1. CASE p \in Created
      <3>1. pc[p] \in {"committed", "closed"}
        BY <2>1 DEF IInv, NotYetThere
      <3>2. window' = window
        BY <1>2, <3>1 DEF Step, Progress, Authorize, Lookup, Reserve, ReadMinute,
           TakeActorSlot, TakeTargetSlot, Complete, CommitLost, Acknowledge, Discard,
           AnswerUnknown, Fail
      <3>3. QED
        BY <1>2, <3>2, StepEffect DEF IInv
    <2>2. CASE p \notin Created
      BY <1>2, <2>2, StepEffect DEF IInv, Created
    <2>3. QED
      BY <2>1, <2>2
  <1>3. CASE World
    BY <1>3, WorldEffect DEF IInv
  <1>4. QED
    BY <1>1, <1>2, <1>3, NextCases DEF Created

\* Rows keep describing the comments they name.
LEMMA NextRowsNameComments ==
  ASSUME IInv, [Next]_vars
  PROVE  RowsNameComments'
  <1>1. ASSUME NEW p \in Requests, CommitDurable(p), Inserting(p), NEW row \in KeyRows,
               ledger'[row] # NoRow
        PROVE  \E r \in Created' : KeyRow(r)' = row /\ Describes(ledger[row], r)'
    <2>1. CASE row = KeyRow(p)
      <3>1. /\ KeyRow(p)' = KeyRow(p)
            /\ Describes(ledger[row], p)' <=> Describes(ledger'[row], p)
        BY <1>1, CommitCreates DEF KeyRow, Route, Describes, StoredId
      <3>2. QED
        BY <1>1, <2>1, <3>1, CommitCreates
    <2>2. CASE row # KeyRow(p)
      <3>1. PICK r \in Created : KeyRow(r) = row /\ Describes(ledger[row], r)
        BY <1>1, <2>2, CommitCreates DEF IInv, RowsNameComments
      <3>2. r \in Created' /\ call' = call /\ ledger'[row] = ledger[row]
        BY <1>1, <2>2, CommitCreates
      <3>3. QED
        BY <3>1, <3>2 DEF KeyRow, Route, Describes, StoredId
    <2>3. QED
      BY <2>1, <2>2
  <1>2. CASE \E p \in Requests : CommitDurable(p) /\ Inserting(p)
    BY <1>1, <1>2 DEF RowsNameComments
  <1>3. CASE Created' = Created /\ UNCHANGED <<ledger, call>>
    BY <1>3 DEF IInv, RowsNameComments, KeyRow, Route, Describes, StoredId
  <1>4. QED
    BY <1>2, <1>3, OnlyCommitCreates

\* And comments keep their rows.
LEMMA NextCommentsHaveRows ==
  ASSUME IInv, [Next]_vars
  PROVE  CommentsHaveRows'
  <1>1. ASSUME NEW p \in Requests, CommitDurable(p), Inserting(p), NEW r \in Created'
        PROVE  (ledger[KeyRow(r)] # NoRow /\ ledger[KeyRow(r)].of = r)'
    <2>1. call' = call /\ KeyRow(r)' = KeyRow(r)
      BY <1>1, CommitCreates DEF KeyRow, Route
    <2>2. CASE r = p
      BY <1>1, <2>1, <2>2, CommitCreates DEF Describes
    <2>3. CASE r # p
      <3>1. r \in Created /\ KeyRow(r) # KeyRow(p) /\ KeyRow(r) \in KeyRows
        BY <1>1, <2>3, CommitCreates, CallType DEF IInv, CommentsHaveRows, Created
      <3>2. QED
        BY <1>1, <2>1, <3>1, CommitCreates DEF IInv, CommentsHaveRows
    <2>4. QED
      BY <2>2, <2>3
  <1>2. CASE \E p \in Requests : CommitDurable(p) /\ Inserting(p)
    BY <1>1, <1>2 DEF CommentsHaveRows
  <1>3. CASE Created' = Created /\ UNCHANGED <<ledger, call>>
    BY <1>3 DEF IInv, CommentsHaveRows, KeyRow, Route
  <1>4. QED
    BY <1>2, <1>3, OnlyCommitCreates

\* A comment of the same call stays one.
LEMMA SameCallStays ==
  ASSUME IInv, [Next]_vars, NEW r \in Requests, SameCall(r), result'[r] = result[r]
  PROVE  SameCall(r)'
  BY CreatedStays DEF SameCall

\* A replay names the comment that the row describes, a commit its own.
LEMMA OwnNamedStays ==
  ASSUME IInv, NEW p \in Requests, Step(p)
  PROVE  (Named(p) => SameCall(p))'
  <1> USE DEF IInv, TypeOK, NamedStays, SuccessIsLast, Named, Replaying, Fresh,
              Statements
  <1>1. CASE Authorize(p)
    BY <1>1 DEF Authorize, Refuse, Go
  <1>2. CASE Lookup(p)
    <2>1. ASSUME ledger[KeyRow(p)] # NoRow, Verdict(p, ledger[KeyRow(p)]) = "replay"
          PROVE  \E q \in Created : ledger[KeyRow(p)].of = q /\ call[q] = call[p]
      BY <1>2, <2>1, ReplaysAnother DEF Lookup, Statements
    <2>2. UNCHANGED <<comments, call>> /\ answer[p] # "success" /\ pc[p] \in Statements
      BY <1>2 DEF Lookup, Statements
    <2>3. ASSUME ledger[KeyRow(p)] # NoRow, Verify(p, ledger[KeyRow(p)])
          PROVE  (Named(p) => SameCall(p))'
      <3>1. CASE Verdict(p, ledger[KeyRow(p)]) = "replay"
        <4>1. result'[p] = ledger[KeyRow(p)].of
          BY <2>3, <3>1 DEF Verify
        <4>2. QED
          BY <2>1, <2>2, <2>3, <3>1, <4>1 DEF SameCall, Created
      <3>2. CASE Verdict(p, ledger[KeyRow(p)]) # "replay"
        <4>1. Verdict(p, ledger[KeyRow(p)]) # "success"
          BY DEF Verdict
        <4>2. pc'[p] = "aborting" /\ answer'[p] # "success"
          BY <2>3, <3>2, <4>1 DEF Verify, Refuse, Go
        <4>3. QED
          BY <4>2 DEF Named, Replaying
      <3>3. QED
        BY <3>1, <3>2
    <2>4. QED
      BY <1>2, <2>2, <2>3 DEF Lookup, Go
  <1>3. CASE Reserve(p)
    <2>1. ASSUME ledger[KeyRow(p)] # NoRow, Verdict(p, ledger[KeyRow(p)]) = "replay"
          PROVE  \E q \in Created : ledger[KeyRow(p)].of = q /\ call[q] = call[p]
      BY <1>3, <2>1, ReplaysAnother DEF Reserve, Statements
    <2>2. UNCHANGED <<comments, call>> /\ answer[p] # "success" /\ pc[p] \in Statements
      BY <1>3 DEF Reserve, Statements
    <2>3. ASSUME ledger[KeyRow(p)] # NoRow, Verify(p, ledger[KeyRow(p)])
          PROVE  (Named(p) => SameCall(p))'
      <3>1. CASE Verdict(p, ledger[KeyRow(p)]) = "replay"
        <4>1. result'[p] = ledger[KeyRow(p)].of
          BY <2>3, <3>1 DEF Verify
        <4>2. QED
          BY <2>1, <2>2, <2>3, <3>1, <4>1 DEF SameCall, Created
      <3>2. CASE Verdict(p, ledger[KeyRow(p)]) # "replay"
        <4>1. Verdict(p, ledger[KeyRow(p)]) # "success"
          BY DEF Verdict
        <4>2. pc'[p] = "aborting" /\ answer'[p] # "success"
          BY <2>3, <3>2, <4>1 DEF Verify, Refuse, Go
        <4>3. QED
          BY <4>2 DEF Named, Replaying
      <3>3. QED
        BY <3>1, <3>2
    <2>4. QED
      BY <1>3, <2>2, <2>3 DEF Reserve, Go
  <1>4. CASE TakeActorSlot(p)
    BY <1>4 DEF TakeActorSlot, TakeSlot, Hold, Refuse, Go
  <1>5. CASE TakeTargetSlot(p)
    BY <1>5 DEF TakeTargetSlot, TakeSlot, Hold, Refuse, Go
  <1>6. CASE Complete(p)
    BY <1>6 DEF Complete, Go
  <1>7. CASE CommitDurable(p)
    <2>1. CASE Inserting(p)
      <3>1. p \in Created' /\ call' = call /\ result'[p] = p
        BY <1>7, <2>1, CommitCreates DEF Inserting
      <3>2. QED
        BY <3>1 DEF SameCall
    <2>2. CASE ~Inserting(p)
      <3>1. SameCall(p) /\ UNCHANGED <<comments, call, result>>
        BY <1>7, <2>2 DEF CommitDurable, Inserting
      <3>2. QED
        BY <3>1 DEF SameCall, Created
    <2>3. QED
      BY <2>1, <2>2
  <1>8. CASE CommitLost(p)
    BY <1>8 DEF CommitLost, Go
  <1>9. CASE AnswerUnknown(p)
    <2>1. SameCall(p) <=> SameCall(p)'
      BY <1>9 DEF AnswerUnknown, SameCall, Created
    <2>2. QED
      BY <1>9, <2>1 DEF AnswerUnknown
  <1>10. CASE Acknowledge(p)
    <2>1. SameCall(p) <=> SameCall(p)'
      BY <1>10 DEF Acknowledge, SameCall, Created
    <2>2. QED
      BY <1>10, <2>1 DEF Acknowledge, Go
  <1>11. CASE Fail(p)
    BY <1>11 DEF Fail, Refuse, Go
  <1>12. CASE Discard(p)
    BY <1>12 DEF Discard, Go
  <1>13. CASE ReadMinute(p)
    BY <1>13 DEF ReadMinute, Go
  <1>14. QED
    BY <1>1, <1>2, <1>3, <1>4, <1>5, <1>6, <1>7, <1>8, <1>9, <1>10,
       <1>11, <1>12, <1>13 DEF Step, Progress

\* Nobody changes what it names.
LEMMA NextNamedStays ==
  ASSUME IInv, [Next]_vars
  PROVE  NamedStays'
  <1>1. ASSUME NEW p \in Requests, Step(p), NEW r \in Requests
        PROVE  (Named(r) => SameCall(r))'
    <2>1. CASE r = p
      BY <1>1, <2>1, OwnNamedStays
    <2>2. CASE r # p
      <3>1. pc'[r] = pc[r] /\ result'[r] = result[r] /\ answer'[r] = answer[r]
        BY <1>1, <2>2, OthersLeave
      <3>2. Named(r)' => SameCall(r)
        BY <3>1 DEF IInv, NamedStays, Named, Replaying, Fresh
      <3>3. QED
        BY <3>1, <3>2, SameCallStays
    <2>3. QED
      BY <2>1, <2>2
  <1>2. ASSUME World, NEW r \in Requests
        PROVE  (Named(r) => SameCall(r))'
    <2>1. pc' = pc /\ result' = result /\ answer' = answer
      BY <1>2, WorldEffect DEF IInv
    <2>2. Named(r)' => SameCall(r)
      BY <2>1 DEF IInv, NamedStays, Named, Replaying, Fresh
    <2>3. QED
      BY <2>1, <2>2, SameCallStays
  <1>3. QED
    BY <1>1, <1>2, NextCases DEF NamedStays

\* On the memory route, the comment that a row names and that a replay does not find
\* has been removed.
LEMMA GoneIsRemoved ==
  ASSUME IInv, NEW p \in Requests, pc[p] \in Statements, ledger[KeyRow(p)] # NoRow,
         Route(p) = "memory", Verdict(p, ledger[KeyRow(p)]) = "gone"
  PROVE  \E q \in Requests : call[q] = call[p] /\ comments[q] = "removed"
  <1>1. PICK q \in Created :
          /\ ledger[KeyRow(p)].of = q /\ Describes(ledger[KeyRow(p)], q)
          /\ call[q] = call[p]
    BY ReplaysAnother
  <1>2. ledger[KeyRow(p)].id = "comment"
    BY <1>1 DEF Describes, StoredId, Route
  <1>3. comments[q] # "visible"
    BY <1>1, <1>2 DEF Verdict, Available
  <1>4. QED
    BY <1>1, <1>3 DEF Created, IInv, TypeOK

\* "gone" stays true: a removed comment does not come back.
LEMMA NextGoneStays ==
  ASSUME IInv, [Next]_vars
  PROVE  GoneStays'
  <1> SUFFICES ASSUME NEW r \in Requests, answer'[r] = "gone", Route(r)' = "memory"
               PROVE  \E q \in Requests : call'[q] = call'[r] /\ comments'[q] = "removed"
    BY DEF GoneStays
  <1>1. call' = call /\ Route(r) = "memory"
    BY CreatedStays DEF Route
  <1>2. CASE answer[r] = "gone"
    BY <1>1, <1>2, CreatedStays DEF IInv, GoneStays
  <1>3. CASE answer[r] # "gone"
    <2>1. PICK p \in Requests : Step(p)
      BY <1>3, NextCases, WorldEffect DEF IInv
    <2>2. p = r
      BY <1>3, <2>1, OthersLeave
    <2>3. Lookup(r) \/ Reserve(r)
      <3> USE DEF IInv, TypeOK
      <3>1. CASE Authorize(r)
        BY <1>3, <3>1 DEF Authorize, Refuse
      <3>2. CASE TakeActorSlot(r)
        BY <1>3, <3>2 DEF TakeActorSlot, TakeSlot, Refuse
      <3>3. CASE TakeTargetSlot(r)
        BY <1>3, <3>3 DEF TakeTargetSlot, TakeSlot, Refuse
      <3>4. CASE Complete(r) \/ CommitDurable(r) \/ CommitLost(r) \/ AnswerUnknown(r)
                 \/ Acknowledge(r) \/ Fail(r) \/ Discard(r) \/ ReadMinute(r)
        BY <1>3, <3>4 DEF ReadMinute, Complete, CommitDurable, CommitLost, AnswerUnknown,
           Acknowledge, Fail, Refuse, Discard
      <3>5. QED
        BY <2>1, <2>2, <3>1, <3>2, <3>3, <3>4 DEF Step, Progress
    <2>4. /\ pc[r] \in Statements /\ ledger[KeyRow(r)] # NoRow
          /\ Verdict(r, ledger[KeyRow(r)]) = "gone" /\ comments' = comments
      BY <1>3, <2>3 DEF Lookup, Reserve, Verify, Refuse, Statements, IInv, TypeOK
    <2>5. QED
      BY <1>1, <2>4, GoneIsRemoved
  <1>4. QED
    BY <1>2, <1>3

-----------------------------------------------------------------------------
(* The rate limits.                                                        *)

\* There are finitely many comments.
LEMMA CreatedFinite ==
  \A S \in SUBSET Requests : IsFiniteSet(S) /\ Cardinality(S) \in Nat
  BY FS_Subset, FS_CardinalityType

\* A comment is charged to the scopes whose slots it has taken, and to no others.
LEMMA CommitCharges ==
  ASSUME IInv, NEW p \in Requests, CommitDurable(p), Inserting(p), NEW s \in Scopes
  PROVE  /\ ChargedTo(s)' = IF s \in Charged(p) THEN ChargedTo(s) \cup {p}
                            ELSE ChargedTo(s)
         /\ p \notin ChargedTo(s)
         /\ usage'[s] = IF s \in Charged(p) THEN usage[s] + 1 ELSE usage[s]
  <1>1. /\ Created' = Created \cup {p} /\ p \notin Created
        /\ UNCHANGED <<call, window, result>>
    BY CommitCreates
  <1>2. \A r \in Requests : Charged(r)' = Charged(r)
    BY <1>1 DEF Charged, ActorSlot, TargetSlot, Route
  <1>3. Created \subseteq Requests
    BY DEF Created
  <1>4. usage' = [z \in Scopes |-> IF z \in Charged(p) THEN usage[z] + 1 ELSE usage[z]]
    BY DEF CommitDurable, Inserting
  <1>5. QED
    BY <1>1, <1>2, <1>3, <1>4 DEF ChargedTo

\* The limits are kept, and the counts stay exact.
LEMMA NextWithinRateLimits ==
  ASSUME IInv, [Next]_vars
  PROVE  WithinRateLimits'
  <1> DEFINE Limit(s) == IF s[1] = "actor" THEN ActorLimit ELSE TargetLimit
             Exact(s) == usage[s] = Cardinality(ChargedTo(s)) /\ usage[s] <= Limit(s)
  <1>1. \A s \in Scopes : Exact(s) /\ ChargedTo(s) \in SUBSET Requests
    BY DEF IInv, WithinRateLimits, ChargedTo, Created
  <1>2. ASSUME NEW p \in Requests, CommitDurable(p), Inserting(p), NEW s \in Scopes
        PROVE  Exact(s)'
    <2>1. CASE s \in Charged(p)
      <3>1. usage[s] < Limit(s)
        BY <1>2, <2>1, ChargedIs DEF Room
      <3>2. Cardinality(ChargedTo(s) \cup {p}) = Cardinality(ChargedTo(s)) + 1
        BY <1>1, <1>2, CommitCharges, CreatedFinite, FS_AddElement
      <3>3. usage'[s] = usage[s] + 1 /\ ChargedTo(s)' = ChargedTo(s) \cup {p}
        BY <1>2, <2>1, CommitCharges
      <3>4. usage[s] \in Nat /\ Limit(s) \in Nat
        BY DEF IInv, TypeOK
      <3>5. QED
        BY <1>1, <3>1, <3>2, <3>3, <3>4
    <2>2. CASE s \notin Charged(p)
      BY <1>1, <1>2, <2>2, CommitCharges
    <2>3. QED
      BY <2>1, <2>2
  <1>3. ASSUME Created' = Created, UNCHANGED <<usage, call>>,
               \A r \in Created : window'[r] = window[r], NEW s \in Scopes
        PROVE  Exact(s)'
    <2>1. \A r \in Created : Charged(r)' = Charged(r)
      BY <1>3 DEF Charged, ActorSlot, TargetSlot, Route
    <2>2. ChargedTo(s)' = ChargedTo(s)
      BY <1>3, <2>1 DEF ChargedTo
    <2>3. QED
      BY <1>1, <1>3, <2>2
  <1>4. \A s \in Scopes : Exact(s)'
    BY <1>2, <1>3, OnlyCommitCreates
  <1>5. QED
    BY <1>4 DEF WithinRateLimits

\* It holds initially: nothing is done, locked or read.
LEMMA InitIInv == Init => IInv
  <1> SUFFICES ASSUME Init PROVE IInv
    OBVIOUS
  <1>1. TypeOK
    BY DEF Init, TypeOK, Statements, Answers, Rows, Minutes
  <1>2. \A r \in Requests : pc[r] = "authorize" /\ answer[r] = "none"
    BY DEF Init
  <1>3. /\ SlotChosen /\ AuthorizedStays /\ ReservedStays /\ SlotsStay
        /\ NamedStays /\ GoneStays /\ SuccessIsLast
    BY <1>2 DEF SlotChosen, AuthorizedStays, Authorized, ReservedStays, Reserving,
       SlotsStay, Slotted, AllSlotted, NamedStays, Named, Inserting, Replaying,
       GoneStays, SuccessIsLast
  <1>4. Exclusive /\ RowsNameComments
    BY DEF Init, Exclusive, RowsNameComments
  <1>5. Created = {}
    BY DEF Init, Created
  <1>6. NotYetThere /\ CommentsHaveRows
    BY <1>5 DEF NotYetThere, CommentsHaveRows
  <1>7. WithinRateLimits
    <2>1. \A s \in Scopes : ChargedTo(s) = {} /\ usage[s] = 0
      BY <1>5 DEF Init, ChargedTo
    <2>2. QED
      BY <2>1, FS_EmptySet DEF WithinRateLimits
  <1>8. QED
    BY <1>1, <1>3, <1>4, <1>6, <1>7 DEF IInv

\* And every step preserves it.
LEMMA NextIInv == IInv /\ [Next]_vars => IInv'
  BY NextTypeOK, NextSlotChosen, NextExclusive, NextAuthorizedStays, NextReservedStays,
     SlotChosensStay, NextNotYetThere, NextRowsNameComments, NextCommentsHaveRows,
     NextNamedStays, NextGoneStays, NextSuccessIsLast, NextWithinRateLimits
  DEF IInv

-----------------------------------------------------------------------------
(* The theorems.                                                           *)

\* The inductive invariant.
THEOREM CommentInvariant == Spec => []IInv
  BY InitIInv, NextIInv, PTL DEF Spec

\* Type correctness.
THEOREM CommentTypeCorrect == Spec => []TypeOK
  <1>1. IInv => TypeOK
    BY DEF IInv
  <1>2. QED
    BY <1>1, CommentInvariant, PTL

\* INSERT ... ON CONFLICT, which waits for an uncommitted row of the key, gives a key
\* of an actor and a route at most one comment.
THEOREM KeysAreUnique == Spec => []OneCommentPerKey
  <1>1. IInv => OneCommentPerKey
    BY DEF IInv, CommentsHaveRows, OneCommentPerKey
  <1>2. QED
    BY <1>1, CommentInvariant, PTL

\* The memory route stores the uuid of the comment: a success names the comment of
\* the very call, and "gone" is only said of one that was removed.
THEOREM OriginalsAreReplayed == Spec => []MemoryOriginalIsReplayed
  <1>1. ASSUME IInv, NEW r \in Requests, Route(r) = "memory"
        PROVE  IsReplayed(r)
    <2>1. answer[r] = "success" => result[r] \in Created /\ call[result[r]] = call[r]
      BY <1>1 DEF IInv, NamedStays, Named, SameCall
    <2>2. QED
      BY <1>1, <2>1 DEF IInv, GoneStays, IsReplayed
  <1>2. IInv => MemoryOriginalIsReplayed
    BY <1>1 DEF MemoryOriginalIsReplayed
  <1>3. QED
    BY <1>2, CommentInvariant, PTL

\* The row locks of social_rate_limits, held from the conditional increment until
\* COMMIT, make the counts exact and keep them within the limits.
THEOREM RateLimitsAreKept == Spec => []WithinRateLimits
  <1>1. IInv => WithinRateLimits
    BY DEF IInv
  <1>2. QED
    BY <1>1, CommentInvariant, PTL

\* FOR SHARE on the target, held until COMMIT, keeps a request authorized until its
\* comment is durable.
THEOREM CommentsAreAuthorized == Spec => NoCommentAfterRevocation
  <1>1. ASSUME IInv, [Next]_vars, NEW r \in Requests, comments[r] = "none",
               comments'[r] # "none"
        PROVE  MayComment(r)
    <2>1. Created' # Created
      BY <1>1 DEF Created
    <2>2. PICK p \in Requests : CommitDurable(p) /\ Inserting(p)
      BY <1>1, <2>1, OnlyCommitCreates
    <2>3. p = r
      BY <1>1, <2>2, CommitLeaves
    <2>4. pc[r] = "committing"
      BY <2>2, <2>3 DEF Inserting
    <2>5. QED
      BY <1>1, <2>4 DEF IInv, AuthorizedStays, Authorized
  <1>2. IInv /\ [Next]_vars =>
          [\A r \in Requests :
             comments[r] = "none" /\ comments'[r] # "none" => MayComment(r)]_vars
    BY <1>1
  <1>3. QED
    BY <1>2, CommentInvariant, PTL DEF Spec, NoCommentAfterRevocation

-----------------------------------------------------------------------------
(* Nobody waits for ever: locks are taken in turn.                         *)

\* The turn of every lock: whoever holds it is past the statement that takes it.
InTurn(r, lock) ==
  \/ lock = TargetRow(target(r))
  \/ /\ pc[r] \notin {"authorize", "lookup", "reserve"}
     /\ lock \in KeyRows
  \/ /\ pc[r] \notin {"authorize", "lookup", "reserve", "actorMinute", "actorSlot"}
     /\ lock \in Scopes
     /\ lock[1] = "actor" \/ pc[r] \notin {"targetMinute", "targetSlot"}

\* And whoever has ended holds none.
HeldInTurn ==
  \A r \in Requests :
    /\ pc[r] \in {"committed", "closed"} => held[r] = {}
    /\ \A lock \in held[r] : InTurn(r, lock)

\* A statement takes its lock in its turn; the end of the transaction gives all back.
LEMMA StepHeldInTurn ==
  ASSUME TypeOK, SlotChosen, HeldInTurn, NEW p \in Requests, Step(p)
  PROVE  HeldInTurn'
  <1> USE DEF TypeOK, HeldInTurn, InTurn, Statements
  <1>1. CASE Authorize(p)
    BY <1>1 DEF Authorize, Hold, Refuse, Go
  <1>2. CASE Lookup(p)
    BY <1>2 DEF Lookup, Verify, Refuse, Go
  <1>3. CASE Reserve(p)
    BY <1>3, CallType DEF Reserve, Hold, Verify, Refuse, Go
  <1>4. CASE TakeActorSlot(p)
    <2>1. ActorSlot(p) \in Scopes /\ ActorSlot(p)[1] = "actor"
      BY <1>4, CallType, LocksAreLocks, LocksDiffer DEF TakeActorSlot, SlotChosen, ActorSlot
    <2>2. QED
      BY <1>4, <2>1 DEF TakeActorSlot, TakeSlot, Hold, Refuse, Go
  <1>5. CASE TakeTargetSlot(p)
    <2>1. TargetSlot(p) \in Scopes
      BY <1>5, CallType, LocksAreLocks DEF TakeTargetSlot, SlotChosen, TargetSlot
    <2>2. QED
      BY <1>5, <2>1 DEF TakeTargetSlot, TakeSlot, Hold, Refuse, Go
  <1>6. CASE Complete(p)
    BY <1>6 DEF Complete, Go
  <1>7. CASE CommitDurable(p)
    BY <1>7 DEF CommitDurable, Go
  <1>8. CASE CommitLost(p)
    BY <1>8 DEF CommitLost, Go
  <1>9. CASE AnswerUnknown(p)
    BY <1>9 DEF AnswerUnknown
  <1>10. CASE Acknowledge(p)
    BY <1>10 DEF Acknowledge, Go
  <1>11. CASE Fail(p)
    BY <1>11 DEF Fail, Refuse, Go
  <1>12. CASE Discard(p)
    BY <1>12 DEF Discard, Go
  <1>13. CASE ReadMinute(p)
    BY <1>13 DEF ReadMinute, Go
  <1>14. QED
    BY <1>1, <1>2, <1>3, <1>4, <1>5, <1>6, <1>7, <1>8, <1>9, <1>10,
       <1>11, <1>12, <1>13 DEF Step, Progress

\* The rest of the system neither locks nor unlocks.
LEMMA NextHeldInTurn ==
  ASSUME TypeOK, SlotChosen, HeldInTurn, [Next]_vars
  PROVE  HeldInTurn'
  <1>1. CASE World
    BY <1>1, WorldEffect DEF HeldInTurn, InTurn
  <1>2. QED
    BY <1>1, NextCases, StepHeldInTurn

\* Whoever holds a key, an actor's slot or a target's slot is past the statement that
\* takes it, and has not ended.
LEMMA HolderIsPast ==
  ASSUME TypeOK, HeldInTurn, NEW q \in Requests, NEW lock \in held[q],
         lock \in KeyRows \cup Scopes
  PROVE  /\ pc[q] \in {"actorMinute", "actorSlot", "targetMinute", "targetSlot",
                       "complete", "committing", "aborting"}
         /\ lock \in Scopes => pc[q] # "actorSlot"
         /\ lock \in Scopes /\ lock[1] = "target" => pc[q] # "targetSlot"
  <1>1. lock # TargetRow(target(q))
    BY CallType, LocksDiffer
  <1>2. lock \notin KeyRows \/ lock \notin Scopes
    BY DEF KeyRows, Scopes, ActorScope, TargetScope
  <1>3. QED
    BY <1>1, <1>2 DEF HeldInTurn, InTurn, TypeOK, Statements

SomeReady == \E q \in Requests : Ready(q)

\* The last lock: whoever holds a slot of a target need not wait any more.
LEMMA TargetSlotGoesOn ==
  ASSUME IInv, HeldInTurn, NEW r \in Requests, pc[r] = "targetSlot"
  PROVE  SomeReady
  <1> DEFINE slot == TargetSlot(r)
  <1>1. slot \in Scopes /\ slot[1] = "target"
    BY CallType, LocksAreLocks, LocksDiffer DEF IInv, SlotChosen, TargetSlot
  <1>2. ASSUME NEW q \in Requests, slot \in held[q]
        PROVE  pc[q] \in {"actorMinute", "targetMinute", "complete", "committing", "aborting"}
    BY <1>1, <1>2, HolderIsPast DEF IInv
  <1>3. CASE Free(r, slot)
    BY <1>3 DEF SomeReady
  <1>4. CASE ~Free(r, slot)
    BY <1>2, <1>4 DEF SomeReady, Free
  <1>5. QED
    BY <1>3, <1>4

\* The lock before it: the holder of an actor's slot may wait for that of a target.
LEMMA ActorSlotGoesOn ==
  ASSUME IInv, HeldInTurn, NEW r \in Requests, pc[r] = "actorSlot"
  PROVE  SomeReady
  <1> DEFINE slot == ActorSlot(r)
  <1>1. slot \in Scopes
    BY CallType, LocksAreLocks DEF IInv, SlotChosen, ActorSlot
  <1>2. ASSUME NEW q \in Requests, slot \in held[q]
        PROVE  pc[q] \in {"actorMinute", "targetMinute", "targetSlot", "complete",
                         "committing", "aborting"}
    BY <1>1, <1>2, HolderIsPast DEF IInv
  <1>3. CASE Free(r, slot)
    BY <1>3 DEF SomeReady
  <1>4. CASE ~Free(r, slot)
    BY <1>2, <1>4, TargetSlotGoesOn DEF SomeReady, Free
  <1>5. QED
    BY <1>3, <1>4

\* The first lock: the holder of a key may wait for either slot.
LEMMA ReserveGoesOn ==
  ASSUME IInv, HeldInTurn, NEW r \in Requests, pc[r] = "reserve"
  PROVE  SomeReady
  <1>1. ASSUME NEW q \in Requests, KeyRow(r) \in held[q]
        PROVE  pc[q] \in {"actorMinute", "actorSlot", "targetMinute", "targetSlot",
                         "complete", "committing", "aborting"}
    BY <1>1, CallType, HolderIsPast DEF IInv
  <1>2. CASE Free(r, KeyRow(r))
    BY <1>2 DEF SomeReady
  <1>3. CASE ~Free(r, KeyRow(r))
    BY <1>1, <1>3, ActorSlotGoesOn, TargetSlotGoesOn DEF SomeReady, Free
  <1>4. QED
    BY <1>2, <1>3

\* Some request can always go on, and not by failing, as long as one has not ended: both
\* routes lock the key, then the actor's slot, then the target's, and a request that
\* ends gives everything back.
THEOREM NothingIsStuck == Spec => []NoRequestIsStuck
  <1>1. Init => HeldInTurn
    BY DEF Init, HeldInTurn
  <1>2. IInv /\ HeldInTurn /\ [Next]_vars => HeldInTurn'
    BY NextHeldInTurn DEF IInv
  <1>3. IInv /\ HeldInTurn => NoRequestIsStuck
    <2> SUFFICES ASSUME IInv, HeldInTurn, NEW r \in Requests, pc[r] # "closed"
                 PROVE  SomeReady
      BY DEF NoRequestIsStuck, SomeReady
    <2>1. CASE pc[r] \in {"reserve", "actorSlot", "targetSlot"}
      BY <2>1, ReserveGoesOn, ActorSlotGoesOn, TargetSlotGoesOn
    <2>2. CASE pc[r] \notin {"reserve", "actorSlot", "targetSlot"}
      BY <2>2 DEF SomeReady
    <2>3. QED
      BY <2>1, <2>2
  <1>4. QED
    BY <1>1, <1>2, <1>3, CommentInvariant, PTL DEF Spec

-----------------------------------------------------------------------------
(* The refinement of CommentBoard.                                         *)

\* Nobody is told anything before the request has come to an end.
NotToldYet ==
  \A r \in Requests :
    /\ pc[r] \in Statements \cup {"actorMinute", "targetMinute", "committed"} =>
         answer[r] = "none"
    /\ pc[r] = "committing" => answer[r] \in {"none", "unknown"}

\* The minute of a slot is read once, and the tree route reads none for its target.
ReadOnce ==
  \A r \in Requests :
    /\ pc[r] \in {"authorize", "lookup", "reserve", "actorMinute"} => window[r].actor = -1
    /\ \/ Route(r) = "tree"
       \/ pc[r] \in {"authorize", "lookup", "reserve", "actorMinute", "actorSlot",
                     "targetMinute"}
       => window[r].target = -1

\* Answers come with the end.
LEMMA StepNotToldYet ==
  ASSUME TypeOK, NotToldYet, NEW p \in Requests, Step(p)
  PROVE  NotToldYet'
  <1> USE DEF TypeOK, NotToldYet, Statements
  <1>1. CASE Authorize(p)
    BY <1>1 DEF Authorize, Hold, Refuse, Go
  <1>2. CASE Lookup(p)
    BY <1>2 DEF Lookup, Verify, Refuse, Go
  <1>3. CASE Reserve(p)
    BY <1>3 DEF Reserve, Hold, Verify, Refuse, Go
  <1>4. CASE TakeActorSlot(p)
    BY <1>4 DEF TakeActorSlot, TakeSlot, Hold, Refuse, Go
  <1>5. CASE TakeTargetSlot(p)
    BY <1>5 DEF TakeTargetSlot, TakeSlot, Hold, Refuse, Go
  <1>6. CASE Complete(p)
    BY <1>6 DEF Complete, Go
  <1>7. CASE CommitDurable(p)
    BY <1>7 DEF CommitDurable, Go
  <1>8. CASE CommitLost(p)
    BY <1>8 DEF CommitLost, Go
  <1>9. CASE AnswerUnknown(p)
    BY <1>9 DEF AnswerUnknown
  <1>10. CASE Acknowledge(p)
    BY <1>10 DEF Acknowledge, Go
  <1>11. CASE Fail(p)
    BY <1>11 DEF Fail, Refuse, Go
  <1>12. CASE Discard(p)
    BY <1>12 DEF Discard, Go
  <1>13. CASE ReadMinute(p)
    BY <1>13 DEF ReadMinute, Go
  <1>14. QED
    BY <1>1, <1>2, <1>3, <1>4, <1>5, <1>6, <1>7, <1>8, <1>9, <1>10,
       <1>11, <1>12, <1>13 DEF Step, Progress

\* The same of all steps.
LEMMA NextNotToldYet ==
  ASSUME TypeOK, NotToldYet, [Next]_vars
  PROVE  NotToldYet'
  <1>1. CASE World
    BY <1>1, WorldEffect DEF NotToldYet
  <1>2. QED
    BY <1>1, NextCases, StepNotToldYet

\* The clock is read between two statements.
LEMMA StepReadOnce ==
  ASSUME TypeOK, SlotChosen, ReadOnce, NEW p \in Requests, Step(p)
  PROVE  ReadOnce'
  <1> USE DEF TypeOK, SlotChosen, ReadOnce, Route, Statements
  <1>1. CASE Authorize(p)
    BY <1>1 DEF Authorize, Hold, Refuse, Go
  <1>2. CASE Lookup(p)
    BY <1>2 DEF Lookup, Verify, Refuse, Go
  <1>3. CASE Reserve(p)
    BY <1>3 DEF Reserve, Hold, Verify, Refuse, Go
  <1>4. CASE TakeActorSlot(p)
    BY <1>4 DEF TakeActorSlot, TakeSlot, Hold, Refuse, Go
  <1>5. CASE TakeTargetSlot(p)
    BY <1>5 DEF TakeTargetSlot, TakeSlot, Hold, Refuse, Go
  <1>6. CASE Complete(p)
    BY <1>6 DEF Complete, Go
  <1>7. CASE CommitDurable(p)
    BY <1>7 DEF CommitDurable, Go
  <1>8. CASE CommitLost(p)
    BY <1>8 DEF CommitLost, Go
  <1>9. CASE AnswerUnknown(p)
    BY <1>9 DEF AnswerUnknown
  <1>10. CASE Acknowledge(p)
    BY <1>10 DEF Acknowledge, Go
  <1>11. CASE Fail(p)
    BY <1>11 DEF Fail, Refuse, Go
  <1>12. CASE Discard(p)
    BY <1>12 DEF Discard, Go
  <1>13. CASE ReadMinute(p)
    BY <1>13 DEF ReadMinute, Go
  <1>14. QED
    BY <1>1, <1>2, <1>3, <1>4, <1>5, <1>6, <1>7, <1>8, <1>9, <1>10,
       <1>11, <1>12, <1>13 DEF Step, Progress

\* The same of all steps.
LEMMA NextReadOnce ==
  ASSUME TypeOK, SlotChosen, ReadOnce, [Next]_vars
  PROVE  ReadOnce'
  <1>1. CASE World
    BY <1>1, WorldEffect DEF ReadOnce, Route
  <1>2. QED
    BY <1>1, NextCases, StepReadOnce

BInv == IInv /\ NotToldYet /\ ReadOnce

\* What callers were told, as the refinement mapping has it.
Tellings == [r \in Requests |-> Told(r)]

\* The terms of the board are those of the routes.
LEMMA BoardTerms ==
  ASSUME TypeOK
  PROVE  /\ Board!Posted = Created /\ Board!Targets = Targets
         /\ \A r \in Requests : Board!OnTree(r) <=> Route(r) = "tree"
         /\ \A r \in Requests : Board!Allowed(r) <=> MayComment(r)
         /\ \A r, q \in Requests : Board!SameKey(q, r) <=> KeyRow(q) = KeyRow(r)
  BY DEF Board!Posted, Created, Board!Targets, Targets, Board!OnTree, Route,
     Board!Allowed, MayComment, Board!SameKey, Board!SameActor, KeyRow

\* A limit is full on the board when the slot that the request has read is used up.
LEMMA FullIsUsedUp ==
  ASSUME IInv, NEW r \in Requests
  PROVE  /\ window[r].actor \in Minutes =>
              (Board!ActorFull(r) <=> usage[ActorSlot(r)] >= ActorLimit)
         /\ Route(r) = "memory" /\ window[r].target \in Minutes =>
              (Board!TargetFull(r) <=> usage[TargetSlot(r)] >= TargetLimit)
  <1> USE DEF IInv
  <1>1. /\ window[r].actor \in Minutes => ActorSlot(r) \in Scopes
        /\ Route(r) = "memory" /\ window[r].target \in Minutes => TargetSlot(r) \in Scopes
    BY CallType, LocksAreLocks DEF ActorSlot, TargetSlot
  <1>2. ASSUME NEW q \in Created
        PROVE  /\ ActorSlot(r) \in Charged(q) <=>
                    /\ Route(q) = Route(r) /\ actor(q) = actor(r)
                    /\ window[q].actor = window[r].actor
               /\ Route(r) = "memory" =>
                    (TargetSlot(r) \in Charged(q) <=>
                       /\ actor(q) = actor(r) /\ target(q) = target(r)
                       /\ window[q].target = window[r].target)
    BY <1>2 DEF Charged, ActorSlot, TargetSlot, ActorScope, TargetScope, Route
  <1>3. Board!OfActor(r) = ChargedTo(ActorSlot(r))
    BY <1>2, BoardTerms DEF Board!OfActor, Board!SameActor, ChargedTo, Created, Route,
       Board!OnTree
  <1>4. Route(r) = "memory" => Board!OfTarget(r) = ChargedTo(TargetSlot(r))
    BY <1>2, BoardTerms DEF Board!OfTarget, ChargedTo, Created
  <1>5. \A s \in Scopes : usage[s] = Cardinality(ChargedTo(s))
    BY DEF WithinRateLimits
  <1>6. \A S : Board!Cardinality(S) = Cardinality(S)
    BY DEF Board!Cardinality, Cardinality, Board!IsFiniteSet, IsFiniteSet
  <1>7. -1 \notin Minutes
    BY DEF Minutes
  <1>8. window[r].actor \in Minutes =>
          (Board!ActorFull(r) <=> usage[ActorSlot(r)] >= ActorLimit)
    BY <1>1, <1>3, <1>5, <1>6, <1>7 DEF Board!ActorFull
  <1>9. Route(r) = "memory" /\ window[r].target \in Minutes =>
          (Board!TargetFull(r) <=> usage[TargetSlot(r)] >= TargetLimit)
    BY <1>1, <1>4, <1>5, <1>6, <1>7 DEF Board!TargetFull
  <1>10. QED
    BY <1>8, <1>9

\* A key without a row is unused.
LEMMA NoRowIsUnused ==
  ASSUME IInv, NEW r \in Requests, ledger[KeyRow(r)] = NoRow
  PROVE  Board!Unused(r)
  BY BoardTerms DEF Board!Unused, IInv, CommentsHaveRows, Created

\* A step of a request tells others nothing, and most steps change only what it is told.
LEMMA StepTells ==
  ASSUME IInv, NEW p \in Requests, Step(p)
  PROVE  /\ Tellings' = [Tellings EXCEPT ![p] = Told(p)']
         /\ Told(p)' = Told(p) => Tellings' = Tellings
         /\ ~CommitDurable(p) => UNCHANGED <<public, minute, call, comments>>
         /\ ~ReadMinute(p) => UNCHANGED window
  <1>1. \A r \in Requests \ {p} : Told(r)' = Told(r)
    BY StepEffect DEF IInv, Told, Route
  <1>2. Tellings' = [Tellings EXCEPT ![p] = Told(p)']
    BY <1>1 DEF Tellings
  <1>3. Told(p)' = Told(p) => Tellings' = Tellings
    BY <1>1 DEF Tellings
  <1>4. ~CommitDurable(p) => UNCHANGED <<public, minute, call, comments>>
    BY StepEffect DEF IInv
  <1>5. ~ReadMinute(p) => UNCHANGED window
    BY DEF Step, Progress, Authorize, Lookup, Reserve, TakeActorSlot, TakeTargetSlot,
       TakeSlot, Complete, CommitDurable, CommitLost, Acknowledge, Discard,
       AnswerUnknown, Fail
  <1>6. QED
    BY <1>2, <1>3, <1>4, <1>5

\* A request that is told nothing new is not observed.
LEMMA Unobserved ==
  ASSUME IInv, NEW p \in Requests, Step(p), ~CommitDurable(p), ~ReadMinute(p),
         Told(p)' = Told(p)
  PROVE  UNCHANGED Board!vars
  <1>1. UNCHANGED <<public, minute, call, comments, window, Tellings>>
    BY StepTells
  <1>2. QED
    BY <1>1 DEF Board!vars, Tellings

\* And one that is told something is told it as the board does.
LEMMA Observed ==
  ASSUME IInv, NEW p \in Requests, Step(p), ~CommitDurable(p), ~ReadMinute(p),
         Told(p) = "nothing", NEW saying, Told(p)' = saying
  PROVE  Board!Say(p, saying)
  <1>1. /\ UNCHANGED <<public, minute, call, comments, window>>
        /\ Tellings' = [Tellings EXCEPT ![p] = saying]
    BY StepTells
  <1>2. Tellings[p] = "nothing"
    BY DEF Tellings
  <1>3. QED
    BY <1>1, <1>2 DEF Board!Say, Tellings

\* Nothing is told before the end.
LEMMA ToldNothing ==
  ASSUME NotToldYet, NEW p \in Requests,
         pc[p] \in Statements \cup {"actorMinute", "targetMinute", "committing",
                                  "committed"}
  PROVE  Told(p) = "nothing"
  BY DEF NotToldYet, Told

\* Who may not comment is told so when it is so.
LEMMA AuthorizeRefines ==
  ASSUME BInv, NEW p \in Requests, Authorize(p)
  PROVE  Board!Refuse(p) \/ UNCHANGED Board!vars
  <1> USE DEF BInv, IInv
  <1>1. Step(p) /\ ~CommitDurable(p) /\ ~ReadMinute(p) /\ Told(p) = "nothing"
    BY ToldNothing DEF Step, Progress, Authorize, CommitDurable, ReadMinute, Statements
  <1>2. CASE MayComment(p)
    <2>1. Told(p)' = Told(p)
      BY <1>2 DEF Authorize, Told, Route
    <2>2. QED
      BY <1>1, <2>1, Unobserved
  <1>3. CASE ~MayComment(p)
    <2>1. Told(p)' = "not_found"
      BY <1>3 DEF Authorize, Refuse, Told, TypeOK
    <2>2. QED
      BY <1>1, <1>3, <2>1, Observed, BoardTerms DEF Board!Refuse
  <1>4. QED
    BY <1>2, <1>3

\* Who uses a key again is told so, or that the comment is gone, when it is so.
LEMMA VerifyRefines ==
  ASSUME BInv, NEW p \in Requests, Step(p), ~CommitDurable(p), ~ReadMinute(p),
         pc[p] \in Statements, ledger[KeyRow(p)] # NoRow, call' = call,
         Verify(p, ledger[KeyRow(p)])
  PROVE  Board!Refuse(p) \/ UNCHANGED Board!vars
  <1> USE DEF BInv, IInv
  <1> DEFINE verdict == Verdict(p, ledger[KeyRow(p)])
  <1>1. Told(p) = "nothing"
    BY ToldNothing
  <1>2. PICK q \in Created :
          /\ KeyRow(q) = KeyRow(p) /\ Describes(ledger[KeyRow(p)], q)
          /\ verdict # "key_reused" => call[q] = call[p]
    BY ReplaysAnother
  <1>3. q \in Requests /\ verdict \in {"key_reused", "unavailable", "gone", "replay"}
    BY DEF Created, Verdict
  <1>4. verdict # "replay" => answer'[p] = verdict
    BY DEF Verify, Refuse, TypeOK
  <1>5. CASE verdict = "key_reused"
    <2>1. Told(p)' = "key_reused"
      BY <1>4, <1>5 DEF Told
    <2>2. call[q] # call[p]
      BY <1>2, <1>5 DEF Verdict, Describes
    <2>3. Board!SameKey(q, p) /\ q \in Board!Posted
      BY <1>2, <1>3, BoardTerms
    <2>4. QED
      BY <1>1, <2>1, <2>2, <2>3, Observed DEF Board!Refuse
  <1>6. CASE verdict = "gone" /\ Route(p) = "memory"
    <2>1. Told(p)' = "gone"
      BY <1>4, <1>6 DEF Told, Route
    <2>2. PICK z \in Requests : call[z] = call[p] /\ comments[z] = "removed"
      BY <1>6, GoneIsRemoved
    <2>3. z \in Board!Posted
      BY <2>2, BoardTerms DEF Created
    <2>4. QED
      BY <1>1, <2>1, <2>2, <2>3, Observed DEF Board!Refuse
  <1>7. CASE \/ verdict \in {"unavailable", "replay"}
             \/ verdict = "gone" /\ Route(p) # "memory"
    <2>1. \/ answer'[p] \in {"none", "unavailable"}
          \/ answer'[p] = "gone" /\ Route(p)' # "memory"
      BY <1>4, <1>7 DEF Verify, Route, NotToldYet
    <2>2. Told(p)' = "nothing"
      BY <2>1 DEF Told
    <2>3. QED
      BY <1>1, <2>2, Unobserved
  <1>8. QED
    BY <1>3, <1>5, <1>6, <1>7

\* The clock is read as the board is asked.
LEMMA ReadMinuteRefines ==
  ASSUME BInv, NEW p \in Requests, ReadMinute(p)
  PROVE  Board!Ask(p)
  <1> USE DEF BInv, IInv
  <1>1. Step(p) /\ ~CommitDurable(p) /\ Told(p)' = Told(p)
    BY DEF Step, Progress, ReadMinute, CommitDurable, Told, Route
  <1>2. UNCHANGED <<public, minute, call, comments, Tellings>>
    BY <1>1, StepTells
  <1>3. \/ window[p].actor = -1 /\ window' = [window EXCEPT ![p].actor = minute]
        \/ /\ ~Board!OnTree(p) /\ window[p].target = -1
           /\ window' = [window EXCEPT ![p].target = minute]
    BY BoardTerms DEF ReadMinute, ReadOnce, SlotChosen
  <1>4. QED
    BY <1>2, <1>3 DEF Board!Ask, Tellings

\* Who is refused by a limit has used it up, and has no comment yet.
LEMMA SlotRefines ==
  ASSUME BInv, NEW p \in Requests, TakeActorSlot(p) \/ TakeTargetSlot(p)
  PROVE  Board!Refuse(p) \/ UNCHANGED Board!vars
  <1> USE DEF BInv, IInv
  <1>1. Step(p) /\ ~CommitDurable(p) /\ ~ReadMinute(p) /\ Told(p) = "nothing"
    BY ToldNothing DEF Step, Progress, TakeActorSlot, TakeTargetSlot, CommitDurable,
       ReadMinute, Statements
  <1>2. CASE answer' = answer
    <2>1. Told(p)' = Told(p)
      BY <1>2 DEF TakeActorSlot, TakeTargetSlot, TakeSlot, Told, Route
    <2>2. QED
      BY <1>1, <2>1, Unobserved
  <1>3. CASE answer' # answer
    <2>1. /\ Told(p)' = "limited"
          /\ \/ /\ window[p].actor \in Minutes /\ ActorSlot(p) \in Scopes
                /\ ~(usage[ActorSlot(p)] < ActorLimit)
             \/ /\ Route(p) = "memory" /\ window[p].target \in Minutes
                /\ TargetSlot(p) \in Scopes /\ ~(usage[TargetSlot(p)] < TargetLimit)
      BY <1>3, CallType, LocksAreLocks
      DEF TakeActorSlot, TakeTargetSlot, TakeSlot, Refuse, Told, TypeOK, SlotChosen,
          ActorSlot, TargetSlot
    <2>2. Board!ActorFull(p) \/ Board!TargetFull(p)
      BY <2>1, FullIsUsedUp DEF TypeOK
    <2>3. Board!Unused(p)
      BY NoRowIsUnused DEF TakeActorSlot, TakeTargetSlot, ReservedStays, Reserving, Reserved
    <2>4. QED
      BY <1>1, <2>1, <2>2, <2>3, Observed DEF Board!Refuse
  <1>4. QED
    BY <1>2, <1>3

\* A comment appears at its COMMIT, where all that was read before still holds.
LEMMA CommitRefines ==
  ASSUME BInv, NEW p \in Requests, CommitDurable(p)
  PROVE  Board!Post(p) \/ UNCHANGED Board!vars
  <1> USE DEF BInv, IInv
  <1>1. /\ Step(p) /\ pc[p] = "committing"
        /\ UNCHANGED <<public, minute, call, window, result, answer>>
    BY DEF Step, Progress, CommitDurable
  <1>2. Tellings' = Tellings
    BY <1>1 DEF Tellings, Told, Route
  <1>3. CASE Inserting(p)
    <2>1. /\ p \notin Created /\ Created' = Created \cup {p}
          /\ ledger[KeyRow(p)] = NoRow
      BY <1>3, CommitCreates
    <2>2. comments[p] = "none" /\ comments' = [comments EXCEPT ![p] = "visible"]
      BY <1>3, <2>1 DEF CommitDurable, Inserting, Created
    <2>3. Board!Allowed(p) /\ Board!Unused(p)
      BY <1>1, <2>1, NoRowIsUnused, BoardTerms DEF AuthorizedStays, Authorized
    <2>4. /\ Room(p, ActorSlot(p), ActorLimit)
          /\ Route(p) = "memory" => Room(p, TargetSlot(p), TargetLimit)
      BY <1>3 DEF SlotsStay, Slotted, AllSlotted
    <2>5. /\ window[p].actor \in Minutes
          /\ Route(p) = "memory" => window[p].target \in Minutes
      BY <2>4, CallType DEF Room, Scopes, ActorSlot, TargetSlot, ActorScope, TargetScope
    <2>6. /\ ~Board!ActorFull(p) /\ window[p].actor # -1
          /\ Route(p) = "memory" => ~Board!TargetFull(p) /\ window[p].target # -1
      BY <2>4, <2>5, FullIsUsedUp DEF Room, Minutes, TypeOK
    <2>7. Route(p) # "memory" => Board!OnTree(p) /\ ~Board!TargetFull(p)
      BY CallType, BoardTerms DEF Routes, ReadOnce, Board!TargetFull
    <2>8. QED
      BY <1>1, <1>2, <2>2, <2>3, <2>6, <2>7 DEF Board!Post, Tellings
  <1>4. CASE ~Inserting(p)
    <2>1. comments' = comments
      BY <1>1, <1>4 DEF CommitDurable, Inserting
    <2>2. QED
      BY <1>1, <1>2, <2>1 DEF Board!vars, Tellings
  <1>5. QED
    BY <1>3, <1>4

\* A success is of a comment with the call of the request.
LEMMA AcknowledgeRefines ==
  ASSUME BInv, NEW p \in Requests, Acknowledge(p)
  PROVE  Board!Succeed(p) \/ UNCHANGED Board!vars
  <1> USE DEF BInv, IInv
  <1>1. /\ Step(p) /\ ~CommitDurable(p) /\ ~ReadMinute(p)
        /\ Told(p) = "nothing" /\ pc[p] = "committed"
    BY ToldNothing DEF Step, Progress, Acknowledge, CommitDurable, ReadMinute
  <1>2. CASE answer'[p] = "success"
    <2>1. Told(p)' = result[p]
      BY <1>2 DEF Acknowledge, Told
    <2>2. PICK q \in Created : result[p] = q /\ call[q] = call[p]
      BY <1>1 DEF NamedStays, Named, SameCall
    <2>3. Board!Say(p, q) /\ q \in Board!Posted
      BY <1>1, <2>1, <2>2, Observed, BoardTerms
    <2>4. QED
      BY <2>2, <2>3 DEF Board!Succeed
  <1>3. CASE answer'[p] = "unknown"
    <2>1. Told(p)' = "nothing"
      BY <1>3 DEF Told
    <2>2. QED
      BY <1>1, <2>1, Unobserved
  <1>4. QED
    BY <1>2, <1>3 DEF Acknowledge, TypeOK

\* Nothing is learnt from the other steps of a request.
LEMMA SilentRefines ==
  ASSUME BInv, NEW p \in Requests, ~CommitDurable(p), ~ReadMinute(p),
         \/ Complete(p) \/ CommitLost(p) \/ AnswerUnknown(p) \/ Fail(p) \/ Discard(p)
         \/ ledger[KeyRow(p)] = NoRow /\ (Lookup(p) \/ Reserve(p))
  PROVE  UNCHANGED Board!vars
  <1> USE DEF BInv, IInv
  <1>1. Step(p)
    BY DEF Step, Progress
  <1>2. CASE Fail(p) \/ CommitLost(p) \/ AnswerUnknown(p)
    <2>1. Told(p) = "nothing"
      BY <1>2, ToldNothing DEF Fail, CommitLost, AnswerUnknown
    <2>2. Told(p)' = "nothing"
      BY <1>2 DEF Fail, CommitLost, AnswerUnknown, Refuse, Told, TypeOK
    <2>3. QED
      BY <1>1, <2>1, <2>2, Unobserved
  <1>3. CASE Discard(p) \/ (ledger[KeyRow(p)] = NoRow /\ (Lookup(p) \/ Reserve(p)))
    <2>1. UNCHANGED <<answer, call, result>>
      BY <1>3 DEF Discard, Lookup, Reserve
    <2>2. Told(p)' = Told(p)
      BY <2>1 DEF Told, Route
    <2>3. QED
      BY <1>1, <2>2, Unobserved
  <1>4. CASE Complete(p)
    <2>1. Told(p) = "nothing" /\ answer' = answer /\ answer[p] = "none"
      BY <1>4, ToldNothing DEF Complete, NotToldYet, Statements
    <2>2. Told(p)' = "nothing"
      BY <2>1 DEF Told
    <2>3. QED
      BY <1>1, <2>1, <2>2, Unobserved
  <1>5. QED
    BY <1>2, <1>3, <1>4

\* The rest of the system is the rest of the board.
LEMMA WorldRefines ==
  ASSUME BInv, World
  PROVE  [Board!Next]_(Board!vars)
  <1> USE DEF BInv, IInv
  <1>1. window' = window /\ Tellings' = Tellings
    BY WorldEffect DEF World, RemoveComment, Flip, Tick, vars, Tellings, Told, Route
  <1>2. ASSUME NEW r \in Requests, RemoveComment(r)
        PROVE  Board!Remove(r)
    BY <1>1, <1>2, BoardTerms DEF RemoveComment, Board!Remove, Tellings
  <1>3. ASSUME NEW t \in Targets, Flip(t)
        PROVE  Board!Flip(t)
    BY <1>1, <1>3 DEF Flip, Board!Flip, Tellings
  <1>4. ASSUME Tick
        PROVE  Board!Tick
    BY <1>1, <1>4 DEF Tick, Board!Tick, Tellings
  <1>5. CASE UNCHANGED vars
    BY <1>1, <1>5 DEF vars, Board!vars, Tellings
  <1>6. QED
    BY <1>2, <1>3, <1>4, <1>5, BoardTerms DEF World, Board!Next

\* Every step of the routes is a step of the board, or leaves it alone.
LEMMA NextRefines ==
  ASSUME BInv, [Next]_vars
  PROVE  [Board!Next]_(Board!vars)
  <1>1. ASSUME NEW p \in Requests, Step(p)
        PROVE  \/ Board!Ask(p) \/ Board!Post(p) \/ Board!Succeed(p) \/ Board!Refuse(p)
               \/ UNCHANGED Board!vars
    <2>1. CASE (Lookup(p) \/ Reserve(p)) /\ ledger[KeyRow(p)] # NoRow
      <3>1. /\ pc[p] \in Statements /\ call' = call /\ ~CommitDurable(p)
            /\ ~ReadMinute(p) /\ Verify(p, ledger[KeyRow(p)])
        BY <2>1 DEF Lookup, Reserve, CommitDurable, ReadMinute, Statements
      <3>2. QED
        BY <1>1, <2>1, <3>1, VerifyRefines
    <2>2. QED
      BY <1>1, <2>1, AuthorizeRefines, ReadMinuteRefines, SlotRefines, CommitRefines,
         AcknowledgeRefines, SilentRefines DEF Step, Progress
  <1>2. QED
    BY <1>1, NextCases, WorldRefines DEF Board!Next

\* The initial states of the routes are initial states of the board.
LEMMA InitRefines == Init => Board!Init /\ NotToldYet /\ ReadOnce
  <1> SUFFICES ASSUME Init PROVE Board!Init /\ NotToldYet /\ ReadOnce
    OBVIOUS
  <1>1. NotToldYet /\ ReadOnce
    BY DEF Init, NotToldYet, ReadOnce
  <1>2. Tellings = [r \in Requests |-> "nothing"]
    BY DEF Init, Tellings, Told
  <1>3. QED
    BY <1>1, <1>2 DEF Init, Board!Init, Targets, Board!Targets, Calls, Tellings

\* Requests of both routes, retried and interleaved in any way, with any failures,
\* implement the board: a comment appears at its durable COMMIT, and what a caller is
\* told, be it a refusal, is true when the statement that decides it is executed.
THEOREM CommentsImplementBoard == Spec => ImplementsBoard
  <1>1. BInv /\ [Next]_vars => NotToldYet' /\ ReadOnce'
    BY NextNotToldYet, NextReadOnce DEF BInv, IInv
  <1>2. Spec => []BInv
    BY <1>1, InitRefines, CommentInvariant, PTL DEF Spec, BInv
  <1>3. QED
    BY <1>2, InitRefines, NextRefines, PTL DEF Spec, ImplementsBoard, Board!Spec
=============================================================================
