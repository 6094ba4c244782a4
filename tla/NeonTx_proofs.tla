---------------------------- MODULE NeonTx_proofs ----------------------------
(***************************************************************************)
(* Proofs about NeonTx, for any number of statements of the work callback. *)
(***************************************************************************)
EXTENDS NeonTx, TLAPS

\* Everything a step of the adapter or of the server is built from.
USE DEF States, Outcomes, Codes, ServerStates, Statements, Err, NoError,
        safeTransition, Send, Settle, Quiet, Resolved,
        Rejected, Reply, Settled, outcomeForState, Phase, CommitPhases

\* The type invariant together with the five facts that tie the adapter's state
\* to the statement in flight and to the server holds initially.
LEMMA InitIInv == Init => IInv
  BY MaxQueriesAssumption
  DEF Init, IInv, TypeOK, CommitOnlyWhenChosen, InFlight, FailedIsNoticed,
      AckIsTrue, BookKeeping

\* Every step of the adapter and of its environment preserves IInv.
LEMMA NextIInv == IInv /\ [Next]_vars => IInv'
  <1> SUFFICES ASSUME IInv, [Next]_vars
               PROVE  IInv'
    OBVIOUS
  <1> USE MaxQueriesAssumption
      DEF IInv, TypeOK, CommitOnlyWhenChosen, InFlight, FailedIsNoticed,
          AckIsTrue, BookKeeping
  <1>1. CASE ConstructClient   BY <1>1 DEF ConstructClient
  <1>2. CASE ConstructFails    BY <1>2 DEF ConstructFails
  <1>3. CASE Connect           BY <1>3 DEF Connect
  <1>4. CASE ConnectFails      BY <1>4 DEF ConnectFails
  <1>5. CASE SendBegin         BY <1>5 DEF SendBegin
  <1>6. CASE BeginOk           BY <1>6 DEF BeginOk
  <1>7. CASE BeginFails        BY <1>7 DEF BeginFails
  <1>8. CASE WorkQuery         BY <1>8 DEF WorkQuery
  <1>9. CASE WorkQueryOk       BY <1>9 DEF WorkQueryOk
  <1>10. CASE WorkQueryFails   BY <1>10 DEF WorkQueryFails, StartRollback
  <1>11. CASE WorkThrows       BY <1>11 DEF WorkThrows, StartRollback
  <1>12. CASE WorkReturns      BY <1>12 DEF WorkReturns
  <1>13. CASE RollbackOk       BY <1>13 DEF RollbackOk
  <1>14. CASE RollbackFails    BY <1>14 DEF RollbackFails
  <1>15. CASE CommitOk         BY <1>15 DEF CommitOk
  <1>16. CASE CommitRejected   BY <1>16 DEF CommitRejected
  <1>17. CASE CloseWithoutClient BY <1>17 DEF CloseWithoutClient
  <1>18. CASE StartClose       BY <1>18 DEF StartClose
  <1>19. ASSUME NEW end \in {"resolved", "rejected"}, EndClose(end)
         PROVE  IInv'
    BY <1>19 DEF EndClose
  <1>20. CASE ServerExecutes
    <2>1. CASE ServerBegin
      BY <1>20, <2>1 DEF ServerExecutes, ServerBegin, adapterVars
    <2>2. CASE ServerQuery
      BY <1>20, <2>2 DEF ServerExecutes, ServerQuery, adapterVars
    <2>3. CASE ServerCommit
      BY <1>20, <2>3 DEF ServerExecutes, ServerCommit, adapterVars
    <2>4. CASE ServerRollback
      BY <1>20, <2>4 DEF ServerExecutes, ServerRollback, adapterVars
    <2>5. QED
      BY <1>20, <2>1, <2>2, <2>3, <2>4 DEF ServerExecutes
  <1>21. CASE LinkDrops        BY <1>21 DEF LinkDrops, adapterVars
  <1>22. CASE ServerDiscards   BY <1>22 DEF ServerDiscards, adapterVars
  <1>23. CASE Finished         BY <1>23 DEF Finished, vars
  <1>24. CASE UNCHANGED vars   BY <1>24 DEF vars
  <1>25. QED
    BY <1>1, <1>2, <1>3, <1>4, <1>5, <1>6, <1>7, <1>8, <1>9, <1>10, <1>11,
       <1>12, <1>13, <1>14, <1>15, <1>16, <1>17, <1>18, <1>19, <1>20, <1>21,
       <1>22, <1>23, <1>24
    DEF Next, Adapter, Server

\* IInv holds in every reachable state.
THEOREM Invariance == Spec => []IInv
  <1>1. QED
    BY InitIInv, NextIInv, PTL DEF Spec

\* Type correctness of the adapter, its client, the socket and the session.
THEOREM TypeCorrect == Spec => []TypeOK
  <1>1. IInv => TypeOK
    BY DEF IInv
  <1>2. QED
    BY <1>1, Invariance, PTL

\* Whatever runTransaction tells its caller is true of the database, for any
\* number of statements, losses and failures.
THEOREM AgreementHolds == Spec => []Agreement
  <1>1. IInv => Agreement
    BY DEF IInv, TypeOK, Agreement, Report, Fate, Truthful, BookKeeping,
           AckIsTrue, CommitOnlyWhenChosen
  <1>2. QED
    BY <1>1, Invariance, PTL

\* #4410: an acknowledged COMMIT is durable and never turned into an error by
\* a failing close.
THEOREM AckedCommitReturned == Spec => []AckedCommitIsReturned
  <1>1. IInv => AckedCommitIsReturned
    BY DEF IInv, TypeOK, AckedCommitIsReturned, BookKeeping, AckIsTrue
  <1>2. QED
    BY <1>1, Invariance, PTL

-----------------------------------------------------------------------------
(* The adapter implements the contract of a write.                         *)

\* Every step of the adapter and its environment is a step of the contract,
\* read through Fate and Report, or changes neither.
LEMMA StepRefines ==
  ASSUME IInv, IInv', [Next]_vars
  PROVE  [Contract!Next]_(Contract!vars)
  <1> USE DEF IInv, TypeOK, BookKeeping, Fate, Report, Contract!Next,
              Contract!vars, Contract!Commit, Contract!Discard,
              Contract!Answer
  <1>1. ASSUME UNCHANGED server, UNCHANGED result, result = "running" \/ UNCHANGED error
        PROVE  UNCHANGED Contract!vars
    BY <1>1
  <1>2. ASSUME UNCHANGED server, result = "running", state' = "CLOSED"
        PROVE  Contract!Answer
    <2>1. beforeClose' \in Settled /\ Phase' = beforeClose'
      BY <1>2
    <2>2. CASE result' = "returned"
      <3>1. error'.code = "NONE" /\ beforeClose' = "COMMITTED"
        BY <2>1, <2>2
      <3>2. server = "committed"
        BY <1>2, <3>1 DEF AckIsTrue
      <3>3. QED
        BY <1>2, <2>2, <3>2 DEF Contract!Truthful
    <2>3. CASE result' = "threw"
      <3>1. error'.code = "COMMIT_OUTCOME_UNKNOWN" \/ server # "committed"
        BY <1>2, <2>1, <2>3 DEF CommitOnlyWhenChosen
      <3>2. QED
        BY <1>2, <2>3, <3>1 DEF Contract!Truthful
    <2>4. QED
      BY <1>2, <2>2, <2>3
  <1>3. ASSUME UNCHANGED <<result, error, state, beforeClose>>, server' \in ServerStates,
               server \notin {"committed", "discarded"} \/ UNCHANGED server
        PROVE  [Contract!Next]_(Contract!vars)
    BY <1>3 DEF CommitOnlyWhenChosen
  <1>4. CASE ServerExecutes \/ ServerDiscards \/ LinkDrops
    BY <1>3, <1>4 DEF ServerExecutes, ServerBegin, ServerQuery, ServerCommit,
       ServerRollback, ServerDiscards, LinkDrops, adapterVars
  <1>5. CASE \/ ConstructClient \/ ConstructFails \/ ConnectFails
             \/ SendBegin \/ BeginOk \/ BeginFails
             \/ WorkQuery \/ WorkQueryOk
    BY <1>1, <1>5 DEF ConstructClient, ConstructFails, ConnectFails, SendBegin,
       BeginOk, BeginFails, WorkQuery, WorkQueryOk
  <1>11. CASE WorkQueryFails \/ WorkThrows \/ WorkReturns
    BY <1>1, <1>11 DEF StartRollback, WorkQueryFails, WorkThrows, WorkReturns
  <1>12. CASE RollbackOk \/ RollbackFails
    BY <1>1, <1>12 DEF RollbackOk, RollbackFails
  <1>13. CASE CommitOk
    BY <1>1, <1>13 DEF CommitOk
  <1>15. CASE CommitRejected
    <2>1. state = "COMMITTING" /\ UNCHANGED <<server, result>>
      BY <1>15 DEF CommitRejected
    <2>2. result = "running"
      BY <2>1
    <2>3. QED
      BY <1>1, <2>1, <2>2
  <1>14. CASE StartClose
    BY <1>1, <1>14 DEF StartClose
  <1>6. CASE Connect
    <2>1. state = "CONNECTING" /\ UNCHANGED <<result, error>>
      BY <1>6 DEF Connect
    <2>2. server = "none" /\ server' = "idle"
      BY <1>6, <2>1 DEF Connect, InFlight
    <2>3. UNCHANGED <<Fate, Report>>
      BY <2>1, <2>2
    <2>4. QED
      BY <2>2, <2>3
  <1>7. CASE CloseWithoutClient
    BY <1>2, <1>7 DEF CloseWithoutClient
  <1>8. ASSUME NEW end \in {"resolved", "rejected"}, EndClose(end)
        PROVE  Contract!Answer
    BY <1>2, <1>8 DEF EndClose
  <1>9. CASE Finished \/ UNCHANGED vars
    BY <1>9 DEF Finished, vars
  <1>10. QED
    BY <1>4, <1>5, <1>6, <1>7, <1>8, <1>9, <1>11,
       <1>12, <1>13, <1>14, <1>15 DEF Next, Adapter, Server

\* For any number of statements the adapter implements the write contract.
THEOREM Refinement == Spec => ImplementsContract
  <1>1. Init => Contract!Init
    BY DEF Init, Contract!Init, Fate, Report
  <1>2. QED
    BY <1>1, StepRefines, Invariance, PTL DEF Spec, ImplementsContract, Contract!Spec
=============================================================================
