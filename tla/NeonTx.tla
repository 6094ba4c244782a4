------------------------------- MODULE NeonTx -------------------------------
(***************************************************************************)
(* One call of runTransaction(work) on the request-scoped Neon WebSocket   *)
(* transaction adapter, with the database session at the other end of the  *)
(* socket.  The adapter drives a private state machine and one client; the *)
(* connection may drop at any moment, before or after the server executed  *)
(* what was in flight, and the server discards a transaction whose client  *)
(* is gone.                                                                *)
(*                                                                         *)
(* Source: src/functions/_shared/db/neon-ws-transaction-adapter.js         *)
(***************************************************************************)
EXTENDS Naturals, CommitOutcome

CONSTANT MaxQueries  \* how many statements the work callback issues at most

ASSUME MaxQueriesAssumption == MaxQueries \in Nat

VARIABLES
  state,         \* machine.state
  beforeClose,   \* stateBeforeClose, read when the close failure is judged
  client,        \* the client: absent until constructed
  error,         \* pendingError: its code and the commitOutcome it carries
  commitOutcome, \* the local commitOutcome of runTransaction
  result,        \* how the promise of runTransaction settled
  awaiting,      \* the statement whose client.query() promise is outstanding
  queries,       \* statements issued by work
  link,          \* the WebSocket
  req, rep,      \* statement on its way to the server, answer on its way back
  server         \* the truth: what became of the transaction in the database

adapterVars == <<state, beforeClose, client, error, commitOutcome, result,
                 awaiting, queries>>
vars == <<state, beforeClose, client, error, commitOutcome, result,
          awaiting, queries, link, req, rep, server>>

-----------------------------------------------------------------------------
States == {"NEW", "CONNECTING", "READY", "BEGINNING", "ACTIVE", "COMMITTING",
           "COMMITTED", "COMMIT_OUTCOME_UNKNOWN", "ROLLING_BACK",
           "ROLLED_BACK", "FAILED", "CLOSING", "CLOSED"}

Outcomes == {"NOT_ATTEMPTED", "NOT_COMMITTED", "COMMITTED", "UNKNOWN"}

Codes == {"NONE", "CONNECTION_FAILURE", "BEGIN_FAILURE", "QUERY_FAILURE",
          "WORK_FAILURE", "ROLLBACK_FAILURE", "COMMIT_OUTCOME_UNKNOWN",
          "CONNECTION_CLOSE_FAILURE"}

Err(code, outcome) == [code |-> code, outcome |-> outcome]

NoError == Err("NONE", "NOT_ATTEMPTED")

ServerStates == {"none", "idle", "open", "failed", "committed", "discarded"}

Statements == {"BEGIN", "QUERY", "COMMIT", "ROLLBACK"}

TypeOK ==
  /\ state \in States
  /\ beforeClose \in States
  /\ client \in {"absent", "constructed"}
  /\ error \in [code : Codes, outcome : Outcomes]
  /\ commitOutcome \in Outcomes
  /\ result \in {"running", "returned", "threw"}
  /\ awaiting \in Statements \cup {"none"}
  /\ queries \in 0..MaxQueries
  /\ link \in {"none", "up", "down"}
  /\ req \in Statements \cup {"none"}
  /\ rep \in {"none", "ok", "err"}
  /\ server \in ServerStates

Init ==
  /\ state = "NEW"
  /\ beforeClose = "NEW"
  /\ client = "absent"
  /\ error = NoError
  /\ commitOutcome = "NOT_ATTEMPTED"
  /\ result = "running"
  /\ awaiting = "none"
  /\ queries = 0
  /\ link = "none"
  /\ req = "none"
  /\ rep = "none"
  /\ server = "none"

-----------------------------------------------------------------------------
(* ALLOWED_TRANSITIONS: safeTransition throws on any other step.           *)
AllowedTransitions ==
  [s \in States |->
     CASE s = "NEW"                    -> {"CONNECTING", "FAILED"}
       [] s = "CONNECTING"             -> {"READY", "FAILED"}
       [] s = "READY"                  -> {"BEGINNING", "CLOSING", "FAILED"}
       [] s = "BEGINNING"              -> {"ACTIVE", "FAILED"}
       [] s = "ACTIVE"                 -> {"COMMITTING", "ROLLING_BACK"}
       [] s = "COMMITTING"             -> {"COMMITTED", "COMMIT_OUTCOME_UNKNOWN"}
       [] s = "COMMITTED"              -> {"CLOSING"}
       [] s = "COMMIT_OUTCOME_UNKNOWN" -> {"CLOSING"}
       [] s = "ROLLING_BACK"           -> {"ROLLED_BACK", "FAILED"}
       [] s = "ROLLED_BACK"            -> {"CLOSING"}
       [] s = "FAILED"                 -> {"CLOSING", "CLOSED"}
       [] s = "CLOSING"                -> {"CLOSED"}
       [] s = "CLOSED"                 -> {}]

safeTransition(next) ==
  /\ next \in AllowedTransitions[state]
  /\ state' = next

\* client.query(): on a dead socket nothing more reaches the server.
Send(stmt) ==
  /\ awaiting' = stmt
  /\ req' = IF link = "up" THEN stmt ELSE req
  /\ UNCHANGED <<link, rep, server>>

\* The outstanding promise resolved, or rejected: by an error of the server or
\* because the socket is gone and no answer will come.
Resolved == awaiting # "none" /\ rep = "ok"
Rejected == awaiting # "none" /\ (rep = "err" \/ (rep = "none" /\ link = "down"))

Settle == awaiting' = "none" /\ rep' = "none"

Quiet == UNCHANGED <<link, req, rep, server, awaiting>>

-----------------------------------------------------------------------------
(* The adapter.                                                            *)

ConstructClient ==
  /\ state = "NEW"
  /\ safeTransition("CONNECTING")
  /\ client' = "constructed"
  /\ Quiet
  /\ UNCHANGED <<beforeClose, error, commitOutcome, result, queries>>

ConstructFails ==
  /\ state = "NEW"
  /\ safeTransition("FAILED")
  /\ error' = Err("CONNECTION_FAILURE", "NOT_COMMITTED")
  /\ Quiet
  /\ UNCHANGED <<beforeClose, client, commitOutcome, result, queries>>

Connect ==
  /\ state = "CONNECTING"
  /\ safeTransition("READY")
  /\ link' = "up" /\ server' = "idle"
  /\ UNCHANGED <<beforeClose, client, error, commitOutcome, result, queries,
                 awaiting, req, rep>>

ConnectFails ==
  /\ state = "CONNECTING"
  /\ safeTransition("FAILED")
  /\ error' = Err("CONNECTION_FAILURE", "NOT_COMMITTED")
  /\ Quiet
  /\ UNCHANGED <<beforeClose, client, commitOutcome, result, queries>>

SendBegin ==
  /\ state = "READY"
  /\ safeTransition("BEGINNING")
  /\ Send("BEGIN")
  /\ UNCHANGED <<beforeClose, client, error, commitOutcome, result, queries>>

BeginOk ==
  /\ state = "BEGINNING" /\ Resolved
  /\ safeTransition("ACTIVE")
  /\ Settle
  /\ UNCHANGED <<beforeClose, client, error, commitOutcome, result, queries,
                 link, req, server>>

BeginFails ==
  /\ state = "BEGINNING" /\ Rejected
  /\ safeTransition("FAILED")
  /\ error' = Err("BEGIN_FAILURE", "NOT_ATTEMPTED")
  /\ Settle
  /\ UNCHANGED <<beforeClose, client, commitOutcome, result, queries, link,
                 req, server>>

\* work() calls tx.query: only in ACTIVE, one statement awaited at a time.
WorkQuery ==
  /\ state = "ACTIVE" /\ awaiting = "none"
  /\ queries < MaxQueries
  /\ queries' = queries + 1
  /\ Send("QUERY")
  /\ UNCHANGED <<state, beforeClose, client, error, commitOutcome, result>>

WorkQueryOk ==
  /\ state = "ACTIVE" /\ Resolved
  /\ Settle
  /\ UNCHANGED <<state, beforeClose, client, error, commitOutcome, result,
                 queries, link, req, server>>

\* Every ROLLBACK starts the same way: leave ACTIVE, remember why, ask the server.
StartRollback(code) ==
  /\ safeTransition("ROLLING_BACK")
  /\ error' = Err(code, "NOT_ATTEMPTED")
  /\ awaiting' = "ROLLBACK"
  /\ rep' = "none"
  /\ req' = IF link = "up" THEN "ROLLBACK" ELSE req
  /\ UNCHANGED <<beforeClose, client, commitOutcome, result, queries, link,
                 server>>

\* Mutant: the work callback swallows a rejected tx.query and goes on.
WorkQueryFailsSwallowed ==
  /\ state = "ACTIVE" /\ Rejected
  /\ Settle
  /\ UNCHANGED <<state, beforeClose, client, error, commitOutcome, result,
                 queries, link, req, server>>

\* tx.query rejects; a work callback lets that pass or catches it and throws a
\* failure of its own (503 of the rate limits), so the adapter sees work() reject.
WorkQueryFails ==
  /\ state = "ACTIVE" /\ Rejected
  /\ \E code \in {"QUERY_FAILURE", "WORK_FAILURE"} : StartRollback(code)

\* work() throws a decision of its own (404, 409, 429, ...).
WorkThrows ==
  /\ state = "ACTIVE" /\ awaiting = "none"
  /\ StartRollback("WORK_FAILURE")

RollbackOk ==
  /\ state = "ROLLING_BACK" /\ Resolved
  /\ safeTransition("ROLLED_BACK")
  /\ commitOutcome' = "NOT_COMMITTED"
  /\ error' = [error EXCEPT !.outcome = "NOT_COMMITTED"]
  /\ Settle
  /\ UNCHANGED <<beforeClose, client, result, queries, link, req, server>>

RollbackFails ==
  /\ state = "ROLLING_BACK" /\ Rejected
  /\ safeTransition("FAILED")
  /\ error' = Err("ROLLBACK_FAILURE", "NOT_COMMITTED")
  /\ Settle
  /\ UNCHANGED <<beforeClose, client, commitOutcome, result, queries, link,
                 req, server>>

WorkReturns ==
  /\ state = "ACTIVE" /\ awaiting = "none"
  /\ safeTransition("COMMITTING")
  /\ Send("COMMIT")
  /\ UNCHANGED <<beforeClose, client, error, commitOutcome, result, queries>>

CommitOk ==
  /\ state = "COMMITTING" /\ Resolved
  /\ safeTransition("COMMITTED")
  /\ commitOutcome' = "COMMITTED"
  /\ Settle
  /\ UNCHANGED <<beforeClose, client, error, result, queries, link, req,
                 server>>

\* Mutant: a rejected COMMIT is taken for a transaction that did not commit.
CommitRejectedAsNotCommitted ==
  /\ state = "COMMITTING" /\ Rejected
  /\ safeTransition("COMMIT_OUTCOME_UNKNOWN")
  /\ commitOutcome' = "NOT_COMMITTED"
  /\ error' = Err("QUERY_FAILURE", "NOT_COMMITTED")
  /\ Settle
  /\ UNCHANGED <<beforeClose, client, result, queries, link, req, server>>

\* Mutant: the arguments of makeError are swapped.
CommitRejectedSwapped ==
  /\ state = "COMMITTING" /\ Rejected
  /\ safeTransition("COMMIT_OUTCOME_UNKNOWN")
  /\ commitOutcome' = "UNKNOWN"
  /\ error' = Err("UNKNOWN", "COMMIT_OUTCOME_UNKNOWN")
  /\ Settle
  /\ UNCHANGED <<beforeClose, client, result, queries, link, req, server>>

\* Any rejection of COMMIT, an error of the server included, is "unknown":
\* neither ROLLBACK nor a second COMMIT follows.
CommitRejected ==
  /\ state = "COMMITTING" /\ Rejected
  /\ safeTransition("COMMIT_OUTCOME_UNKNOWN")
  /\ commitOutcome' = "UNKNOWN"
  /\ error' = Err("COMMIT_OUTCOME_UNKNOWN", "UNKNOWN")
  /\ Settle
  /\ UNCHANGED <<beforeClose, client, result, queries, link, req, server>>

Settled == {"COMMITTED", "ROLLED_BACK", "COMMIT_OUTCOME_UNKNOWN", "FAILED"}

\* closeClient() without a client: construction failed, nothing to end.
CloseWithoutClient ==
  /\ state \in Settled /\ client = "absent"
  /\ state = "FAILED" /\ safeTransition("CLOSED")
  /\ beforeClose' = state
  /\ result' = IF error.code = "NONE" THEN "returned" ELSE "threw"
  /\ Quiet
  /\ UNCHANGED <<client, error, commitOutcome, queries>>

StartClose ==
  /\ state \in Settled /\ client = "constructed"
  /\ beforeClose' = state
  /\ safeTransition("CLOSING")
  /\ Quiet
  /\ UNCHANGED <<client, error, commitOutcome, result, queries>>

outcomeForState(s) ==
  IF s \in {"COMMITTED", "CLOSING", "CLOSED"} THEN "COMMITTED"
  ELSE IF s = "COMMIT_OUTCOME_UNKNOWN" THEN "UNKNOWN" ELSE "NOT_COMMITTED"

\* Mutant: every failing client.end() becomes the call's error.
EndCloseAlwaysJudged(end) ==
  /\ state = "CLOSING"
  /\ safeTransition("CLOSED")
  /\ error' = IF end = "rejected" /\ error.code = "NONE"
                THEN Err("CONNECTION_CLOSE_FAILURE", outcomeForState(beforeClose))
                ELSE error
  /\ result' = IF error'.code = "NONE" THEN "returned" ELSE "threw"
  /\ link' = IF link = "up" THEN "down" ELSE link
  /\ UNCHANGED <<beforeClose, client, commitOutcome, awaiting, queries, req,
                 rep, server>>

\* Mutant: client.end() is never called, the socket stays open.
EndCloseKeepsLink(end) ==
  /\ state = "CLOSING"
  /\ safeTransition("CLOSED")
  /\ result' = IF error.code = "NONE" THEN "returned" ELSE "threw"
  /\ UNCHANGED <<beforeClose, client, error, commitOutcome, awaiting, queries,
                 link, req, rep, server>>

\* client.end() resolves or rejects; either way the session is over.  A failed
\* close becomes an error only when no COMMIT is known to have succeeded.
EndClose(end) ==
  /\ state = "CLOSING"
  /\ safeTransition("CLOSED")
  /\ error' = IF /\ end = "rejected"
                 /\ error.code = "NONE"
                 /\ outcomeForState(beforeClose) # "COMMITTED"
                THEN Err("CONNECTION_CLOSE_FAILURE", outcomeForState(beforeClose))
                ELSE error
  /\ result' = IF error'.code = "NONE" THEN "returned" ELSE "threw"
  /\ link' = IF link = "up" THEN "down" ELSE link
  /\ UNCHANGED <<beforeClose, client, commitOutcome, awaiting, queries, req,
                 rep, server>>

-----------------------------------------------------------------------------
(* The environment: the socket and the PostgreSQL session behind it.       *)

Reply(r) == rep' = IF link = "up" THEN r ELSE "none"

\* The server executes the statement in flight, also when the client is gone.
ServerBegin ==
  /\ req = "BEGIN" /\ server = "idle"
  /\ \/ server' = "open" /\ Reply("ok")
     \/ server' = "idle" /\ Reply("err")

\* An error inside a transaction leaves it failed: nothing can commit it.
ServerQuery ==
  /\ req = "QUERY" /\ server \in {"open", "failed"}
  /\ \/ server = "open" /\ server' = "open" /\ Reply("ok")
     \/ server' = "failed" /\ Reply("err")

\* COMMIT of a failed transaction rolls it back and still answers success.
ServerCommit ==
  /\ req = "COMMIT" /\ server \in {"open", "failed"}
  /\ \/ server = "open" /\ server' = "committed" /\ Reply("ok")
     \/ server = "open" /\ server' = "discarded" /\ Reply("err")
     \/ server = "failed" /\ server' = "discarded" /\ Reply("ok")

ServerRollback ==
  /\ req = "ROLLBACK" /\ server \in {"open", "failed"}
  /\ server' = "discarded" /\ Reply("ok")

ServerExecutes ==
  /\ ServerBegin \/ ServerQuery \/ ServerCommit \/ ServerRollback
  /\ req' = "none"
  /\ UNCHANGED <<adapterVars, link>>

\* The socket dies: what travels in either direction may be lost or may not.
LinkDrops ==
  /\ link = "up"
  /\ link' = "down"
  /\ req' \in {req, "none"}
  /\ rep' \in {rep, "none"}
  /\ UNCHANGED <<adapterVars, server>>

\* The server notices that its client is gone and ends the session.
ServerDiscards ==
  /\ link = "down" /\ server \in {"idle", "open", "failed"}
  /\ server' = "discarded"
  /\ req' = "none"
  /\ UNCHANGED <<adapterVars, link, rep>>

-----------------------------------------------------------------------------
Adapter ==
  \/ ConstructClient \/ ConstructFails
  \/ Connect \/ ConnectFails
  \/ SendBegin \/ BeginOk \/ BeginFails
  \/ WorkQuery \/ WorkQueryOk \/ WorkQueryFails
  \/ WorkThrows \/ WorkReturns
  \/ RollbackOk \/ RollbackFails
  \/ CommitOk \/ CommitRejected
  \/ CloseWithoutClient \/ StartClose
  \/ \E end \in {"resolved", "rejected"} : EndClose(end)

Server == ServerExecutes \/ ServerDiscards

\* The call has settled and the session, if there ever was one, is over.
Finished ==
  /\ result # "running" /\ server \in {"none", "committed", "discarded"}
  /\ UNCHANGED vars

Next == Adapter \/ Server \/ LinkDrops \/ Finished

Spec == Init /\ [][Next]_vars

\* The event loop runs the adapter whenever a promise has settled, and the
\* server answers what it received; nothing obliges the socket to fail.
FairSpec == Spec /\ WF_vars(Adapter) /\ WF_vars(Server)

-----------------------------------------------------------------------------
(* What the module promises to its callers.                                *)

Fate == IF server \in {"committed", "discarded"} THEN server ELSE "undecided"

\* What a handler makes of the settled promise.
Report ==
  IF result = "running" THEN "none"
  ELSE IF result = "returned" THEN "committed"
  ELSE IF error.code = "COMMIT_OUTCOME_UNKNOWN" THEN "unknown"
  ELSE "not_committed"

Contract == INSTANCE WriteOutcome WITH fate <- Fate, report <- Report

\* The adapter implements the contract of a write: one fate, one truthful
\* answer, and no write that becomes durable after the caller was told that it
\* is not (a COMMIT still in flight is answered "unknown" and never otherwise).
ImplementsContract == Contract!Spec

\* Whatever the caller is told is true of the database: success means durable,
\* an error other than COMMIT_OUTCOME_UNKNOWN means not durable.
Agreement == Report # "none" => Report \in Truthful(Fate)

\* #4410: once COMMIT was acknowledged, a failing client.end() cannot turn the
\* write into an error, and what was acknowledged is in the database.
AckedCommitIsReturned ==
  commitOutcome = "COMMITTED" => server = "committed" /\ result # "threw"

\* Every call settles and leaves no session behind, idle or inside a transaction: a
\* dead socket rejects what is awaited, so the adapter always reaches CLOSED, and
\* the only client of the call is ended on every path on which it was connected.
CallEnds == <>[](result # "running" /\ server \notin {"idle", "open", "failed"})

-----------------------------------------------------------------------------
(* The inductive invariant behind Agreement and ImplementsContract.        *)

\* The adapter's state, read through the close.
Phase == IF state \in {"CLOSING", "CLOSED"} THEN beforeClose ELSE state

CommitPhases == {"COMMITTING", "COMMITTED", "COMMIT_OUTCOME_UNKNOWN"}

\* COMMIT is on the wire or took effect only after the adapter chose to commit.
CommitOnlyWhenChosen ==
  req = "COMMIT" \/ server = "committed" => Phase \in CommitPhases

\* A statement in flight is the one that is awaited, or one whose promise was
\* rejected by a dead socket; what is awaited is determined by the state.
InFlight ==
  /\ rep # "none" => req = "none" /\ awaiting # "none"
  /\ req # "none" =>
       \/ awaiting = req
       \/ link = "down" /\ Phase \in {"FAILED", "ROLLING_BACK"}
       \/ link = "down" /\ Phase = "COMMIT_OUTCOME_UNKNOWN" /\ req = "COMMIT"
  /\ link = "none" => req = "none"
  /\ state \in {"NEW", "CONNECTING"} => link = "none" /\ server = "none"
  /\ awaiting = "BEGIN" <=> state = "BEGINNING"
  /\ awaiting = "QUERY" => state = "ACTIVE"
  /\ awaiting = "COMMIT" <=> state = "COMMITTING"
  /\ awaiting = "ROLLBACK" <=> state = "ROLLING_BACK"

\* A failed transaction is known to the adapter, or its error is on its way.
FailedIsNoticed ==
  server = "failed" =>
    \/ state = "ACTIVE" /\ awaiting # "none" /\ rep # "ok" /\ (rep = "err" \/ link = "down")
    \/ Phase \in {"ROLLING_BACK", "FAILED"}

\* An acknowledged COMMIT is a durable one, an acknowledged ROLLBACK a final one.
AckIsTrue ==
  /\ state = "ROLLING_BACK" /\ rep = "ok" => server = "discarded"
  /\ state = "COMMITTING" /\ rep = "ok" => server = "committed"
  /\ Phase = "COMMITTED" => server = "committed"

\* pendingError, commitOutcome and the settled promise agree with the state.
BookKeeping ==
  /\ error.code = "COMMIT_OUTCOME_UNKNOWN" <=> Phase = "COMMIT_OUTCOME_UNKNOWN"
  /\ error.code = "NONE" <=> Phase \notin {"FAILED", "ROLLING_BACK", "ROLLED_BACK",
                                       "COMMIT_OUTCOME_UNKNOWN"}
  /\ commitOutcome = "COMMITTED" <=> Phase = "COMMITTED"
  /\ result = "running" <=> state # "CLOSED"
  /\ result = "returned" => error.code = "NONE"
  /\ result = "threw" => error.code # "NONE"
  /\ state \in {"CLOSING", "CLOSED"} => beforeClose \in Settled

IInv ==
  /\ TypeOK
  /\ CommitOnlyWhenChosen
  /\ InFlight
  /\ FailedIsNoticed
  /\ AckIsTrue
  /\ BookKeeping
=============================================================================
