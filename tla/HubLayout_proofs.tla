-------------------------- MODULE HubLayout_proofs --------------------------
(***************************************************************************)
(* Proofs about HubLayout, for any number of saves and any base revisions. *)
(***************************************************************************)
EXTENDS HubLayout, TLAPS

USE HubLayoutAssumption
    DEF Statements, Callers, Answers, LockKeys, LockKey, Go, Refuse, Release, Exists, LostCommit

\* The strengthened invariant holds initially.
LEMMA InitIInv == Init => IInv
  BY DEF Init, IInv, TypeOK, LockProtects, BaseStaysLatest, RowPinsTree,
         RowsAreCommitted, AnswersFollow, NoOrphanLayouts, LinearHistory, IsLatest

\* Types are preserved by every step.
LEMMA NextTypeOK == IInv /\ [Next]_vars => TypeOK'
  <1> SUFFICES ASSUME IInv, [Next]_vars
               PROVE  TypeOK'
    OBVIOUS
  <1> USE DEF IInv, TypeOK
  <1>1. ASSUME NEW s \in Saves, Progress(s)
        PROVE  TypeOK'
    <2>1. CASE CheckOwner(s)       BY <2>1 DEF CheckOwner
    <2>2. CASE Lock(s)             BY <2>2 DEF Lock
    <2>3. CASE CompareRevision(s)  BY <2>3 DEF CompareRevision
    <2>4. CASE Insert(s)           BY <2>4 DEF Insert
    <2>5. CASE CommitDurable(s)    BY <2>5 DEF CommitDurable
    <2>6. CASE CommitLost(s)       BY <2>6 DEF CommitLost
    <2>7. CASE Acknowledge(s)      BY <2>7 DEF Acknowledge
    <2>8. CASE Discard(s)          BY <2>8 DEF Discard
    <2>9. QED
      BY <1>1, <2>1, <2>2, <2>3, <2>4, <2>5, <2>6, <2>7, <2>8 DEF Progress
  <1>2. ASSUME NEW s \in Saves, AnswerUnknown(s) \/ Fail(s)
        PROVE  TypeOK'
    BY <1>2 DEF AnswerUnknown, Fail
  <1>3. CASE StartDelete \/ CommitDelete \/ RollBackDelete
    BY <1>3 DEF StartDelete, CommitDelete, RollBackDelete
  <1>4. CASE Finished \/ UNCHANGED vars
    BY <1>4 DEF Finished, vars
  <1>5. QED
    BY <1>1, <1>2, <1>3, <1>4 DEF Next

\* The advisory lock keeps excluding and covering.
LEMMA NextLockProtects == IInv /\ [Next]_vars => LockProtects'
  <1> SUFFICES ASSUME IInv, [Next]_vars, TypeOK'
               PROVE  LockProtects'
    BY NextTypeOK
  <1> USE DEF IInv, TypeOK, LockProtects
  <1>1. ASSUME NEW s \in Saves, Progress(s)
        PROVE  LockProtects'
    <2>1. CASE CheckOwner(s)      BY <2>1 DEF CheckOwner
    <2>2. CASE Lock(s)
      <3>1. \A q \in Saves \ {s} : locks[q] = {} /\ locks'[q] = {}
        BY <2>2 DEF Lock
      <3>2. locks'[s] = {LockKey(s)} /\ pc' = [pc EXCEPT ![s] = "latest"]
        BY <2>2 DEF Lock
      <3>3. \A q \in Saves : locks'[q] \subseteq {LockKey(q)}
        BY <3>1, <3>2
      <3>4. \A q \in Saves : pc'[q] \in {"latest", "insert", "committing"} =>
                locks'[q] # {}
        <4>1. locks'[s] # {}
          BY <3>2
        <4>2. \A q \in Saves \ {s} : locks[q] = {} /\ pc'[q] = pc[q]
          BY <3>1, <3>2
        <4>3. \A q \in Saves \ {s} : pc[q] \notin {"latest", "insert", "committing"}
          BY <4>2
        <4>4. QED
          BY <4>1, <4>2, <4>3
      <3>5. \A p, q \in Saves : locks'[p] # {} /\ locks'[q] # {} => p = q
        BY <3>1
      <3>6. QED
        BY <3>3, <3>4, <3>5
    <2>3. CASE CompareRevision(s) BY <2>3 DEF CompareRevision
    <2>4. CASE Insert(s)          BY <2>4 DEF Insert
    <2>5. CASE CommitDurable(s)   BY <2>5 DEF CommitDurable
    <2>6. CASE CommitLost(s)      BY <2>6 DEF CommitLost
    <2>7. CASE Acknowledge(s)     BY <2>7 DEF Acknowledge
    <2>8. CASE Discard(s)         BY <2>8 DEF Discard
    <2>9. QED
      BY <1>1, <2>1, <2>2, <2>3, <2>4, <2>5, <2>6, <2>7, <2>8 DEF Progress
  <1>2. ASSUME NEW s \in Saves, AnswerUnknown(s) \/ Fail(s)
        PROVE  LockProtects'
    BY <1>2 DEF AnswerUnknown, Fail
  <1>3. CASE StartDelete \/ CommitDelete \/ RollBackDelete
    BY <1>3 DEF StartDelete, CommitDelete, RollBackDelete
  <1>4. CASE Finished \/ UNCHANGED vars
    BY <1>4 DEF Finished, vars
  <1>5. QED
    BY <1>1, <1>2, <1>3, <1>4 DEF Next

\* What was compared stays the latest revision: only the lock holder commits.
LEMMA NextBaseStaysLatest == IInv /\ [Next]_vars => BaseStaysLatest'
  <1> SUFFICES ASSUME IInv, [Next]_vars, TypeOK'
               PROVE  BaseStaysLatest'
    BY NextTypeOK
  <1> USE DEF IInv, TypeOK, BaseStaysLatest, LockProtects, RowPinsTree, NoOrphanLayouts, IsLatest
  <1>1. ASSUME NEW s \in Saves, Progress(s)
        PROVE  BaseStaysLatest'
    <2>1. CASE CheckOwner(s)      BY <2>1 DEF CheckOwner
    <2>2. CASE Lock(s)            BY <2>2 DEF Lock
    <2>3. CASE CompareRevision(s) BY <2>3 DEF CompareRevision
    <2>4. CASE Insert(s)          BY <2>4 DEF Insert
    <2>5. CASE CommitDurable(s)   BY <2>5 DEF CommitDurable
    <2>6. CASE CommitLost(s)      BY <2>6 DEF CommitLost
    <2>7. CASE Acknowledge(s)     BY <2>7 DEF Acknowledge
    <2>8. CASE Discard(s)         BY <2>8 DEF Discard
    <2>9. QED
      BY <1>1, <2>1, <2>2, <2>3, <2>4, <2>5, <2>6, <2>7, <2>8 DEF Progress
  <1>2. ASSUME NEW s \in Saves, AnswerUnknown(s) \/ Fail(s)
        PROVE  BaseStaysLatest'
    BY <1>2 DEF AnswerUnknown, Fail
  <1>3. CASE StartDelete \/ CommitDelete \/ RollBackDelete
    BY <1>3 DEF StartDelete, CommitDelete, RollBackDelete
  <1>4. CASE Finished \/ UNCHANGED vars
    BY <1>4 DEF Finished, vars
  <1>5. QED
    BY <1>1, <1>2, <1>3, <1>4 DEF Next

\* An uncommitted row keeps its tree.
LEMMA NextRowPinsTree == IInv /\ [Next]_vars => RowPinsTree'
  <1> SUFFICES ASSUME IInv, [Next]_vars, TypeOK'
               PROVE  RowPinsTree'
    BY NextTypeOK
  <1> USE DEF IInv, TypeOK, RowPinsTree
  <1>1. ASSUME NEW s \in Saves, Progress(s)
        PROVE  RowPinsTree'
    <2>1. CASE CheckOwner(s)      BY <2>1 DEF CheckOwner
    <2>2. CASE Lock(s)            BY <2>2 DEF Lock
    <2>3. CASE CompareRevision(s) BY <2>3 DEF CompareRevision
    <2>4. CASE Insert(s)          BY <2>4 DEF Insert
    <2>5. CASE CommitDurable(s)   BY <2>5 DEF CommitDurable
    <2>6. CASE CommitLost(s)      BY <2>6 DEF CommitLost
    <2>7. CASE Acknowledge(s)     BY <2>7 DEF Acknowledge
    <2>8. CASE Discard(s)         BY <2>8 DEF Discard
    <2>9. QED
      BY <1>1, <2>1, <2>2, <2>3, <2>4, <2>5, <2>6, <2>7, <2>8 DEF Progress
  <1>2. ASSUME NEW s \in Saves, AnswerUnknown(s) \/ Fail(s)
        PROVE  RowPinsTree'
    BY <1>2 DEF AnswerUnknown, Fail
  <1>3. CASE StartDelete \/ CommitDelete \/ RollBackDelete
    BY <1>3 DEF StartDelete, CommitDelete, RollBackDelete
  <1>4. CASE Finished \/ UNCHANGED vars
    BY <1>4 DEF Finished, vars
  <1>5. QED
    BY <1>1, <1>2, <1>3, <1>4 DEF Next

\* Rows stay those of committed saves.
LEMMA NextRowsAreCommitted == IInv /\ [Next]_vars => RowsAreCommitted'
  <1> SUFFICES ASSUME IInv, [Next]_vars, TypeOK'
               PROVE  RowsAreCommitted'
    BY NextTypeOK
  <1> USE DEF IInv, TypeOK, RowsAreCommitted
  <1>1. ASSUME NEW s \in Saves, Progress(s)
        PROVE  RowsAreCommitted'
    <2>1. CASE CheckOwner(s)      BY <2>1 DEF CheckOwner
    <2>2. CASE Lock(s)            BY <2>2 DEF Lock
    <2>3. CASE CompareRevision(s) BY <2>3 DEF CompareRevision
    <2>4. CASE Insert(s)          BY <2>4 DEF Insert
    <2>5. CASE CommitDurable(s)   BY <2>5 DEF CommitDurable
    <2>6. CASE CommitLost(s)      BY <2>6 DEF CommitLost
    <2>7. CASE Acknowledge(s)     BY <2>7 DEF Acknowledge
    <2>8. CASE Discard(s)         BY <2>8 DEF Discard
    <2>9. QED
      BY <1>1, <2>1, <2>2, <2>3, <2>4, <2>5, <2>6, <2>7, <2>8 DEF Progress
  <1>2. ASSUME NEW s \in Saves, AnswerUnknown(s) \/ Fail(s)
        PROVE  RowsAreCommitted'
    BY <1>2 DEF AnswerUnknown, Fail
  <1>3. CASE StartDelete \/ CommitDelete \/ RollBackDelete
    BY <1>3 DEF StartDelete, CommitDelete, RollBackDelete
  <1>4. CASE Finished \/ UNCHANGED vars
    BY <1>4 DEF Finished, vars
  <1>5. QED
    BY <1>1, <1>2, <1>3, <1>4 DEF Next

\* Answers keep following the transaction.
LEMMA NextAnswersFollow == IInv /\ [Next]_vars => AnswersFollow'
  <1> SUFFICES ASSUME IInv, [Next]_vars, TypeOK'
               PROVE  AnswersFollow'
    BY NextTypeOK
  <1> USE DEF IInv, TypeOK, AnswersFollow, RowsAreCommitted
  <1>1. ASSUME NEW s \in Saves, Progress(s)
        PROVE  AnswersFollow'
    <2>1. CASE CheckOwner(s)      BY <2>1 DEF CheckOwner
    <2>2. CASE Lock(s)            BY <2>2 DEF Lock
    <2>3. CASE CompareRevision(s) BY <2>3 DEF CompareRevision
    <2>4. CASE Insert(s)          BY <2>4 DEF Insert
    <2>5. CASE CommitDurable(s)   BY <2>5 DEF CommitDurable
    <2>6. CASE CommitLost(s)      BY <2>6 DEF CommitLost
    <2>7. CASE Acknowledge(s)     BY <2>7 DEF Acknowledge
    <2>8. CASE Discard(s)         BY <2>8 DEF Discard
    <2>9. QED
      BY <1>1, <2>1, <2>2, <2>3, <2>4, <2>5, <2>6, <2>7, <2>8 DEF Progress
  <1>2. ASSUME NEW s \in Saves, AnswerUnknown(s) \/ Fail(s)
        PROVE  AnswersFollow'
    BY <1>2 DEF AnswerUnknown, Fail
  <1>3. CASE StartDelete \/ CommitDelete \/ RollBackDelete
    BY <1>3 DEF StartDelete, CommitDelete, RollBackDelete
  <1>4. CASE Finished \/ UNCHANGED vars
    BY <1>4 DEF Finished, vars
  <1>5. QED
    BY <1>1, <1>2, <1>3, <1>4 DEF Next

\* No layout outlives its tree.
LEMMA NextNoOrphanLayouts == IInv /\ [Next]_vars => NoOrphanLayouts'
  <1> SUFFICES ASSUME IInv, [Next]_vars, TypeOK'
               PROVE  NoOrphanLayouts'
    BY NextTypeOK
  <1> USE DEF IInv, TypeOK, NoOrphanLayouts, RowPinsTree
  <1>1. ASSUME NEW s \in Saves, Progress(s)
        PROVE  NoOrphanLayouts'
    <2>1. CASE CheckOwner(s)      BY <2>1 DEF CheckOwner
    <2>2. CASE Lock(s)            BY <2>2 DEF Lock
    <2>3. CASE CompareRevision(s) BY <2>3 DEF CompareRevision
    <2>4. CASE Insert(s)          BY <2>4 DEF Insert
    <2>5. CASE CommitDurable(s)   BY <2>5 DEF CommitDurable
    <2>6. CASE CommitLost(s)      BY <2>6 DEF CommitLost
    <2>7. CASE Acknowledge(s)     BY <2>7 DEF Acknowledge
    <2>8. CASE Discard(s)         BY <2>8 DEF Discard
    <2>9. QED
      BY <1>1, <2>1, <2>2, <2>3, <2>4, <2>5, <2>6, <2>7, <2>8 DEF Progress
  <1>2. ASSUME NEW s \in Saves, AnswerUnknown(s) \/ Fail(s)
        PROVE  NoOrphanLayouts'
    BY <1>2 DEF AnswerUnknown, Fail
  <1>3. CASE StartDelete \/ CommitDelete \/ RollBackDelete
    BY <1>3 DEF StartDelete, CommitDelete, RollBackDelete
  <1>4. CASE Finished \/ UNCHANGED vars
    BY <1>4 DEF Finished, vars
  <1>5. QED
    BY <1>1, <1>2, <1>3, <1>4 DEF Next

\* A commit extends the history by the next revision.
LEMMA NextLinearHistory == IInv /\ [Next]_vars => LinearHistory'
  <1> SUFFICES ASSUME IInv, [Next]_vars, TypeOK'
               PROVE  LinearHistory'
    BY NextTypeOK
  <1> USE DEF IInv, TypeOK, LinearHistory, BaseStaysLatest, IsLatest, NoOrphanLayouts, RowsAreCommitted
  <1>1. ASSUME NEW s \in Saves, Progress(s)
        PROVE  LinearHistory'
    <2>1. CASE CheckOwner(s)      BY <2>1 DEF CheckOwner
    <2>2. CASE Lock(s)            BY <2>2 DEF Lock
    <2>3. CASE CompareRevision(s) BY <2>3 DEF CompareRevision
    <2>4. CASE Insert(s)          BY <2>4 DEF Insert
    <2>5. CASE CommitDurable(s)   BY <2>5 DEF CommitDurable
    <2>6. CASE CommitLost(s)      BY <2>6 DEF CommitLost
    <2>7. CASE Acknowledge(s)     BY <2>7 DEF Acknowledge
    <2>8. CASE Discard(s)         BY <2>8 DEF Discard
    <2>9. QED
      BY <1>1, <2>1, <2>2, <2>3, <2>4, <2>5, <2>6, <2>7, <2>8 DEF Progress
  <1>2. ASSUME NEW s \in Saves, AnswerUnknown(s) \/ Fail(s)
        PROVE  LinearHistory'
    BY <1>2 DEF AnswerUnknown, Fail
  <1>3. CASE StartDelete \/ CommitDelete \/ RollBackDelete
    BY <1>3 DEF StartDelete, CommitDelete, RollBackDelete
  <1>4. CASE Finished \/ UNCHANGED vars
    BY <1>4 DEF Finished, vars
  <1>5. QED
    BY <1>1, <1>2, <1>3, <1>4 DEF Next

\* IInv holds in every reachable state.
THEOREM Invariance == Spec => []IInv
  <1>1. IInv /\ [Next]_vars => IInv'
    BY NextTypeOK, NextLockProtects, NextBaseStaysLatest, NextRowPinsTree,
       NextRowsAreCommitted, NextAnswersFollow, NextNoOrphanLayouts,
       NextLinearHistory DEF IInv
  <1>2. QED
    BY InitIInv, <1>1, PTL DEF Spec

\* Type correctness of the saves, their locks and the committed layouts.
THEOREM TypeCorrect == Spec => []TypeOK
  <1>1. IInv => TypeOK
    BY DEF IInv
  <1>2. QED
    BY <1>1, Invariance, PTL

\* No lost update, for any number of concurrent saves of either runtime.
THEOREM HistoryIsLinear == Spec => []LinearHistory
  <1>1. IInv => LinearHistory
    BY DEF IInv
  <1>2. QED
    BY <1>1, Invariance, PTL

\* Every answer other than 502 is true of the database.
THEOREM AnswersTrue == Spec => []AnswersAreTrue
  <1>1. IInv => AnswersAreTrue
    BY DEF IInv, TypeOK, AnswersAreTrue, AnswersFollow, RowsAreCommitted
  <1>2. QED
    BY <1>1, Invariance, PTL

\* A save racing with the deletion of its tree leaves no layout behind.
THEOREM NoOrphans == Spec => []NoOrphanLayouts
  <1>1. IInv => NoOrphanLayouts
    BY DEF IInv
  <1>2. QED
    BY <1>1, Invariance, PTL

-----------------------------------------------------------------------------
(* The saves implement a compare-and-set register.                         *)

\* Every step is a step of the register or changes nothing of it.
LEMMA StepRefines ==
  ASSUME IInv, [Next]_vars
  PROVE  [Register!Next]_(Register!vars)
  <1> USE DEF IInv, TypeOK, Register!Next, Register!vars
  <1>1. ASSUME NEW s \in Saves, Progress(s)
        PROVE  [Register!Next]_(Register!vars)
    <2>1. CASE CheckOwner(s)       BY <2>1 DEF CheckOwner, AnswersFollow
    <2>2. CASE Lock(s)             BY <2>2 DEF Lock
    <2>3. CASE CompareRevision(s)  BY <2>3 DEF CompareRevision, AnswersFollow
    <2>4. CASE Insert(s)           BY <2>4 DEF Insert, AnswersFollow
    <2>5. CASE CommitDurable(s)
      <3>1. Register!CompareAndSet(s)
        BY <2>5 DEF CommitDurable, Register!CompareAndSet, Register!IsLatest,
           BaseStaysLatest, IsLatest, RowsAreCommitted, NoOrphanLayouts
      <3>2. QED
        BY <3>1
    <2>6. CASE CommitLost(s)       BY <2>6 DEF CommitLost, AnswersFollow
    <2>7. CASE Acknowledge(s)
      <3>1. Register!Tell(s) \/ UNCHANGED Register!vars
        BY <2>7 DEF Acknowledge, Register!Tell, AnswersFollow
      <3>2. QED
        BY <3>1
    <2>8. CASE Discard(s)          BY <2>8 DEF Discard
    <2>9. QED
      BY <1>1, <2>1, <2>2, <2>3, <2>4, <2>5, <2>6, <2>7, <2>8 DEF Progress
  <1>2. ASSUME NEW s \in Saves, AnswerUnknown(s) \/ Fail(s)
        PROVE  UNCHANGED Register!vars
    BY <1>2 DEF AnswerUnknown, Fail, AnswersFollow
  <1>3. CASE StartDelete \/ RollBackDelete
    BY <1>3 DEF StartDelete, RollBackDelete
  <1>4. CASE CommitDelete
    <2>1. Register!Delete
      BY <1>4 DEF CommitDelete, Register!Delete
    <2>2. QED
      BY <2>1
  <1>5. CASE Finished \/ UNCHANGED vars
    BY <1>5 DEF Finished, vars
  <1>6. QED
    BY <1>1, <1>2, <1>3, <1>4, <1>5 DEF Next

\* For any number of saves the code implements the compare-and-set register.
THEOREM Refinement == Spec => ImplementsRegister
  <1>1. Init => Register!Init
    BY DEF Init, Register!Init
  <1>2. QED
    BY <1>1, StepRefines, Invariance, PTL DEF Spec, ImplementsRegister, Register!Spec
=============================================================================
