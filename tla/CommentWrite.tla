---------------------------- MODULE CommentWrite ----------------------------
(***************************************************************************)
(* Concurrent comment creation on two routes: POST /api/trees/:id/comments *)
(* and POST /api/memories/:id/comments.  Each request runs the             *)
(* runCommentWork of its route in a READ COMMITTED transaction, one        *)
(* statement at a time, interleaved with the other requests of both        *)
(* routes, with the owner changing the visibility of a target, with        *)
(* comment deletion and with the clock that names the rate-limit window.   *)
(* Statements, COMMITs and acknowledgements fail as in TreeLike.           *)
(*                                                                         *)
(* Source: src/functions/_shared/tree-comment-direct-neon.js and           *)
(* src/functions/_shared/memory-comment-direct-neon.js.                    *)
(***************************************************************************)
EXTENDS Integers, FiniteSets

CONSTANTS
  Actors,      \* verified principals
  Owner,       \* the actor who owns the targets
  Trees, Memories, \* what can be commented on; public at first
  Bodies,      \* comment texts
  Keys,        \* Idempotency-Key values, chosen by the clients
  Requests,    \* HTTP requests, retries of one another included
  ActorLimit,  \* comments of one actor per minute
  TargetLimit, \* comments of one actor per memory and minute (memory route)
  MaxMinute,   \* bound: how often the clock reaches a new minute
  MaxFlips     \* bound: how often the owner changes a visibility

ASSUME CommentWriteAssumption ==
  /\ Trees \cap Memories = {}
  /\ {ActorLimit, TargetLimit, MaxMinute, MaxFlips} \subseteq Nat
  /\ IsFiniteSet(Requests)

VARIABLES
  public,   \* targets whose committed visibility is 'public'
  flips,    \* visibility changes so far
  minute,   \* the current rate-limit window
  comments, \* committed comment of a request: "none", "visible" or "removed"
  usage,    \* committed social_rate_limits: [scope -> request_count]
  ledger,   \* committed social_idempotency rows, by actor, operation and key
  pc,       \* the statement a request executes next
  call,     \* actor, target, body and key of a request
  window,   \* minutes that a request has read off the clock for its slots, or -1
  result,   \* the comment (named by its request) that a request returns
  held,     \* row locks of the request's transaction
  answer    \* the HTTP answer

database == <<public, flips, minute, comments, usage, ledger>>
vars == <<public, flips, minute, comments, usage, ledger, pc, call, window,
          result, held, answer>>

-----------------------------------------------------------------------------
Targets == Trees \cup Memories

Routes == {"tree", "memory"}

Calls == [actor : Actors, target : Targets, body : Bodies, key : Keys]

Minutes == 0..MaxMinute

\* Scopes of social_rate_limits: one row per route, actor and minute, and on the
\* memory route another per actor, memory and minute.
ActorScope(route, a, m) == <<"actor", route, a, m>>
TargetScope(a, t, m)    == <<"target", a, t, m>>

Scopes == {ActorScope(route, a, m) : route \in Routes, a \in Actors, m \in Minutes}
          \cup {TargetScope(a, t, m) : a \in Actors, t \in Memories, m \in Minutes}

TargetRow(t) == <<"row", t>>     \* shared: FOR SHARE

\* Rows of social_idempotency: the routes have an operation name each, so that
\* one Idempotency-Key may serve on both.
KeyRows == Actors \X Routes \X Keys

Locks == Scopes \cup {TargetRow(t) : t \in Targets} \cup KeyRows

NoRow == [state |-> "absent"]

\* result_id is the uuid of the reservation or that of the comment.
Rows == {NoRow} \cup
  [state : {"pending", "completed"}, target : Targets, body : Bodies,
   id : {"reservation", "comment"}, of : Requests]

Statements == {"authorize", "lookup", "reserve", "actorSlot", "targetSlot",
               "complete"}

Answers == {"none", "success", "not_found", "key_reused", "gone", "unavailable",
            "limited", "failed", "unknown"}

TypeOK ==
  /\ public \subseteq Targets
  /\ flips \in 0..MaxFlips
  /\ minute \in Minutes
  /\ comments \in [Requests -> {"none", "visible", "removed"}]
  /\ usage \in [Scopes -> Nat]
  /\ ledger \in [KeyRows -> Rows]
  /\ pc \in [Requests -> Statements \cup {"actorMinute", "targetMinute", "committing",
                                          "committed", "aborting", "closed"}]
  /\ call \in [Requests -> Calls]
  /\ window \in [Requests -> [actor : Minutes \cup {-1}, target : Minutes \cup {-1}]]
  /\ result \in [Requests -> Requests \cup {"none"}]
  /\ held \in [Requests -> SUBSET Locks]
  /\ answer \in [Requests -> Answers]

Init ==
  /\ public = Targets
  /\ flips = 0
  /\ minute = 0
  /\ comments = [r \in Requests |-> "none"]
  /\ usage = [s \in Scopes |-> 0]
  /\ ledger = [row \in KeyRows |-> NoRow]
  /\ pc = [r \in Requests |-> "authorize"]
  /\ call \in [Requests -> Calls]
  /\ window = [r \in Requests |-> [actor |-> -1, target |-> -1]]
  /\ result = [r \in Requests |-> "none"]
  /\ held = [r \in Requests |-> {}]
  /\ answer = [r \in Requests |-> "none"]

-----------------------------------------------------------------------------
actor(r)  == call[r].actor
target(r) == call[r].target
Route(r)  == IF target(r) \in Trees THEN "tree" ELSE "memory"
KeyRow(r) == <<actor(r), Route(r), call[r].key>>

\* The slots of the minutes that r has read.
ActorSlot(r)  == ActorScope(Route(r), actor(r), window[r].actor)
TargetSlot(r) == TargetScope(actor(r), target(r), window[r].target)

Free(r, lock) == \A q \in Requests \ {r} : lock \notin held[q]
Hold(r, lock) == held' = [held EXCEPT ![r] = @ \cup {lock}]

At(r, statement) == pc[r] = statement
Go(r, statement) == pc' = [pc EXCEPT ![r] = statement]

\* The request has a statement to execute, or an end to come to, that need not wait
\* for an uncommitted row of its key or of the slot it takes.
Ready(r) ==
  /\ ~At(r, "closed")
  /\ At(r, "reserve")    => Free(r, KeyRow(r))
  /\ At(r, "actorSlot")  => Free(r, ActorSlot(r))
  /\ At(r, "targetSlot") => Free(r, TargetSlot(r))

\* work() throws with workSignal.outcome set: ROLLBACK, and that is the answer.
Refuse(r, code) ==
  /\ Go(r, "aborting")
  /\ answer' = [answer EXCEPT ![r] = code]

\* The memory route admits the owner of a private target, the tree route does not.
MayComment(r) ==
  target(r) \in public \/ (Route(r) = "memory" /\ actor(r) = Owner)

\* Mutant: the authorization read does not lock the target.
AuthorizeUnlocked(r) ==
  /\ At(r, "authorize")
  /\ IF MayComment(r)
     THEN Go(r, IF Route(r) = "tree" THEN "lookup" ELSE "reserve") /\ UNCHANGED answer
     ELSE Refuse(r, "not_found")
  /\ UNCHANGED <<database, call, window, result, held>>

\* The authorization read locks the target FOR SHARE.
Authorize(r) ==
  /\ At(r, "authorize")
  /\ IF MayComment(r)
     THEN /\ Hold(r, TargetRow(target(r)))
          /\ Go(r, IF Route(r) = "tree" THEN "lookup" ELSE "reserve")
          /\ UNCHANGED answer
     ELSE Refuse(r, "not_found") /\ UNCHANGED held
  /\ UNCHANGED <<database, call, window, result>>

\* What a replay re-reads by result_id is a visible comment.
Available(stored) == stored.id = "comment" /\ comments[stored.of] = "visible"

\* verifyIdempotencyRow, verifyLegacyIdempotencyRow.
Verdict(r, stored) ==
  IF stored.target # target(r) \/ stored.body # call[r].body THEN "key_reused"
  ELSE IF stored.state # "completed" THEN "unavailable"
  ELSE IF ~Available(stored) THEN "gone" ELSE "replay"

\* A completed row does not change any more, so the re-read of the comment is
\* taken together with the statement that returned the row.
Verify(r, stored) ==
  IF Verdict(r, stored) = "replay"
  THEN /\ result' = [result EXCEPT ![r] = stored.of]
       /\ Go(r, "committing")
       /\ UNCHANGED answer
  ELSE Refuse(r, Verdict(r, stored)) /\ UNCHANGED result

\* SELECT ... FROM social_idempotency (tree route): committed rows only.
Lookup(r) ==
  /\ At(r, "lookup")
  /\ LET stored == ledger[KeyRow(r)] IN
       IF stored = NoRow THEN Go(r, "reserve") /\ UNCHANGED <<result, answer>>
       ELSE Verify(r, stored)
  /\ UNCHANGED <<database, call, window, held>>

\* Mutant: a conflicting row is taken for the request's own reservation.
ReserveAlwaysFresh(r) ==
  /\ At(r, "reserve") /\ Ready(r)
  /\ Hold(r, KeyRow(r))
  /\ Go(r, "actorMinute")
  /\ UNCHANGED <<database, call, window, result, answer>>

\* INSERT ... ON CONFLICT DO UPDATE ... RETURNING waits for an uncommitted row.
Reserve(r) ==
  /\ At(r, "reserve") /\ Ready(r)
  /\ Hold(r, KeyRow(r))
  /\ LET stored == ledger[KeyRow(r)] IN
       IF stored = NoRow THEN Go(r, "actorMinute") /\ UNCHANGED <<result, answer>>
       ELSE Verify(r, stored)
  /\ UNCHANGED <<database, call, window>>

\* utcMinuteStart(): the minute is read before the INSERT that names it is sent, and is
\* what the INSERT waits for and counts in, whatever the clock says by then.  The clock
\* is read again for the second slot.
ReadMinute(r) ==
  /\ \/ /\ At(r, "actorMinute") /\ Go(r, "actorSlot")
        /\ window' = [window EXCEPT ![r].actor = minute]
     \/ /\ At(r, "targetMinute") /\ Go(r, "targetSlot")
        /\ window' = [window EXCEPT ![r].target = minute]
  /\ UNCHANGED <<database, call, result, held, answer>>

\* Mutant: the count is read first and incremented by a statement of its own.
TakeSlotUnlocked(r, scope, limit, next) ==
  /\ IF usage[scope] < limit THEN Go(r, next) /\ UNCHANGED answer
     ELSE Refuse(r, "limited")
  /\ UNCHANGED <<database, call, window, result, held>>

\* INSERT INTO social_rate_limits ... DO UPDATE ... WHERE request_count < limit:
\* the row stays locked until the transaction ends, and counts when it commits.
TakeSlot(r, scope, limit, next) ==
  /\ IF usage[scope] < limit THEN Hold(r, scope) /\ Go(r, next) /\ UNCHANGED answer
     ELSE Refuse(r, "limited") /\ UNCHANGED held
  /\ UNCHANGED <<database, call, window, result>>

TakeActorSlot(r) ==
  /\ At(r, "actorSlot") /\ Ready(r)
  /\ TakeSlot(r, ActorSlot(r), ActorLimit,
              IF Route(r) = "memory" THEN "targetMinute" ELSE "complete")

TakeTargetSlot(r) ==
  /\ At(r, "targetSlot") /\ Ready(r)
  /\ TakeSlot(r, TargetSlot(r), TargetLimit, "complete")

\* INSERT of the comment, UPDATE social_idempotency, audit; work() returns.
Complete(r) ==
  /\ At(r, "complete")
  /\ result' = [result EXCEPT ![r] = r]
  /\ Go(r, "committing")
  /\ UNCHANGED <<database, call, window, held, answer>>

-----------------------------------------------------------------------------
Fresh(r) == result[r] = r

\* Mutant: the memory route keeps the reservation's uuid as well.
StoredIdReservation(r) == "reservation"

\* result_id of the completed row: the tree route keeps the reservation's uuid,
\* the memory route stores the comment's.
StoredId(r) == IF Route(r) = "memory" THEN "comment" ELSE "reservation"

Charged(r) ==
  {ActorSlot(r)} \cup (IF Route(r) = "memory" THEN {TargetSlot(r)} ELSE {})

\* The server makes r's writes durable and releases its locks.
CommitDurable(r) ==
  /\ At(r, "committing")
  /\ IF Fresh(r)
     THEN /\ comments' = [comments EXCEPT ![r] = "visible"]
          /\ ledger' = [ledger EXCEPT ![KeyRow(r)] =
               [state |-> "completed", target |-> target(r),
                body |-> call[r].body, id |-> StoredId(r), of |-> r]]
          /\ usage' = [s \in Scopes |->
                         IF s \in Charged(r) THEN usage[s] + 1 ELSE usage[s]]
     ELSE UNCHANGED <<comments, ledger, usage>>
  /\ held' = [held EXCEPT ![r] = {}]
  /\ Go(r, IF answer[r] = "none" THEN "committed" ELSE "closed")
  /\ UNCHANGED <<public, flips, minute, call, window, result, answer>>

\* COMMIT never reaches the server, or is refused: nothing becomes durable.
CommitLost(r) ==
  /\ At(r, "committing")
  /\ held' = [held EXCEPT ![r] = {}]
  /\ Go(r, "closed")
  /\ answer' = [answer EXCEPT ![r] = "unknown"]
  /\ UNCHANGED <<database, call, window, result>>

\* The socket dies while COMMIT is in flight: the server decides after the answer.
AnswerUnknown(r) ==
  /\ At(r, "committing") /\ answer[r] = "none"
  /\ answer' = [answer EXCEPT ![r] = "unknown"]
  /\ UNCHANGED <<database, pc, call, window, result, held>>

\* The acknowledgement of a durable COMMIT arrives, or the socket died first.
Acknowledge(r) ==
  /\ At(r, "committed")
  /\ \E code \in {"success", "unknown"} : answer' = [answer EXCEPT ![r] = code]
  /\ Go(r, "closed")
  /\ UNCHANGED <<database, call, window, result, held>>

\* A statement rejects: connection lost, timeout, server error (500 or 503).
Fail(r) ==
  /\ pc[r] \in Statements
  /\ Refuse(r, "failed")
  /\ UNCHANGED <<database, call, window, result, held>>

\* Mutant: the session of a failed request is never ended.
DiscardKeepsLocks(r) ==
  /\ At(r, "aborting")
  /\ Go(r, "closed")
  /\ UNCHANGED <<database, call, window, result, held, answer>>

\* The server rolls the transaction back and releases its locks.
Discard(r) ==
  /\ At(r, "aborting")
  /\ held' = [held EXCEPT ![r] = {}]
  /\ Go(r, "closed")
  /\ UNCHANGED <<database, call, window, result, answer>>

-----------------------------------------------------------------------------
(* The rest of the system.                                                 *)

\* The owner's UPDATE of a visibility waits for every FOR SHARE holder.
Flip(t) ==
  /\ flips < MaxFlips
  /\ \A r \in Requests : TargetRow(t) \notin held[r]
  /\ public' = IF t \in public THEN public \ {t} ELSE public \cup {t}
  /\ flips' = flips + 1
  /\ UNCHANGED <<minute, comments, usage, ledger, pc, call, window, result,
                 held, answer>>

Tick ==
  /\ minute < MaxMinute
  /\ minute' = minute + 1
  /\ UNCHANGED <<public, flips, comments, usage, ledger, pc, call, window,
                 result, held, answer>>

\* Mutant: a deleted comment gets a status that its readers do not know.
RemoveCommentHidden(r) ==
  /\ Route(r) = "memory"
  /\ comments[r] = "visible"
  /\ comments' = [comments EXCEPT ![r] = "hidden"]
  /\ UNCHANGED <<public, flips, minute, usage, ledger, pc, call, window, result,
                 held, answer>>

\* Soft delete by comment-delete-direct-neon.js; tree comments are never deleted.
RemoveComment(r) ==
  /\ Route(r) = "memory"
  /\ comments[r] = "visible"
  /\ comments' = [comments EXCEPT ![r] = "removed"]
  /\ UNCHANGED <<public, flips, minute, usage, ledger, pc, call, window, result,
                 held, answer>>

Progress(r) ==
  \/ Authorize(r) \/ Lookup(r) \/ Reserve(r)
  \/ ReadMinute(r) \/ TakeActorSlot(r) \/ TakeTargetSlot(r) \/ Complete(r)
  \/ CommitDurable(r) \/ CommitLost(r) \/ Acknowledge(r) \/ Discard(r)

Finished ==
  /\ \A r \in Requests : At(r, "closed")
  /\ UNCHANGED vars

Next ==
  \/ \E r \in Requests :
       Progress(r) \/ AnswerUnknown(r) \/ Fail(r) \/ RemoveComment(r)
  \/ \E t \in Targets : Flip(t)
  \/ Tick
  \/ Finished

Spec == Init /\ [][Next]_vars

-----------------------------------------------------------------------------
(* Properties.                                                             *)

Created == {r \in Requests : comments[r] # "none"}

\* What a caller has been told of its request.  "failed" and "unknown" say nothing, and
\* the "gone" of the tree route is not true (OriginalIsReplayed).
Told(r) ==
  IF answer[r] = "success" THEN result[r]
  ELSE IF \/ answer[r] \in {"not_found", "key_reused", "limited"}
          \/ answer[r] = "gone" /\ Route(r) = "memory"
  THEN answer[r] ELSE "nothing"

Board == INSTANCE CommentBoard WITH
  board  <- comments,
  charge <- window,
  told   <- [r \in Requests |-> Told(r)]

\* Statements, retries, failures and lost acknowledgements in any order are as good as
\* comments that appear at one instant, at which the author may write them, their key
\* is unused and both limits have room; and whatever a caller is told, a refusal by
\* visibility, key or limit included, is true at the instant it is decided.
ImplementsBoard == Board!Spec

\* However often a request is retried, and whatever answers get lost, its key
\* creates at most one comment.
OneCommentPerKey ==
  \A r, q \in Created : KeyRow(r) = KeyRow(q) => r = q

\* A success names a comment that was created for r's very key, target and body, and
\* "gone" is said only after the comment was removed.
IsReplayed(r) ==
  /\ answer[r] = "success" => result[r] \in Created /\ call[result[r]] = call[r]
  /\ answer[r] = "gone" =>
       \E q \in Requests : call[q] = call[r] /\ comments[q] = "removed"

\* A retry on the memory route is answered with the comment that the first attempt
\* created, for as long as there is one.
MemoryOriginalIsReplayed ==
  \A r \in Requests : Route(r) = "memory" => IsReplayed(r)

\* The same of both routes: "re-read the ORIGINAL tree_comments row by result_id"
\* (src/functions/_shared/tree-comment-direct-neon.js:315).
OriginalIsReplayed == \A r \in Requests : IsReplayed(r)

ChargedTo(scope) == {r \in Created : scope \in Charged(r)}

\* Concurrent comments never exceed a rate limit, and each slot belongs to one
\* created comment: refused, failed, lost and replayed requests use none up.
WithinRateLimits ==
  \A s \in Scopes :
    /\ usage[s] = Cardinality(ChargedTo(s))
    /\ usage[s] <= (IF s[1] = "actor" THEN ActorLimit ELSE TargetLimit)

\* Once a change to private is committed, nobody but the owner adds a comment.
NoCommentAfterRevocation ==
  [][\A r \in Requests :
       comments[r] = "none" /\ comments'[r] # "none" => MayComment(r)]_vars

\* Requests never all wait on locks of each other, or of a request that has ended:
\* as long as one has not ended, one can go on without failing.
NoRequestIsStuck ==
  \A r \in Requests : At(r, "closed") \/ \E q \in Requests : Ready(q)
=============================================================================
