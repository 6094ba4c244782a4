------------------------ MODULE TreeCreation_proofs ------------------------
(***************************************************************************)
(* Proofs about TreeCreation, for any owners, requests, source and limit.  *)
(* The argument: what a request relies on at COMMIT is locked from the     *)
(* statement that read it, so it is still so; in particular the forks of   *)
(* one owner are serialized by ForkLock from the lookup to COMMIT.         *)
(***************************************************************************)
EXTENDS TreeCreation, TLAPS

-----------------------------------------------------------------------------
(* The inductive invariant.                                                *)

Copying   == {"existing", "rereadExisting", "snapshot", "locking"}
ForkOnly  == {"forkLock", "source"} \cup Copying
Finishing == {"insert", "committing"}

\* A fork is serialized with its owner's others, and has locked its source.
Serialized(r) == Op(r) = "fork" /\ pc[r] \in {"source"} \cup Copying \cup Finishing
Authorized(r) == Op(r) = "fork" /\ pc[r] \in Copying \cup Finishing

\* A fork that found none of its owner, and is going to commit one.
Fresh(r) ==
  /\ Op(r) = "fork"
  /\ \/ pc[r] \in {"snapshot", "locking", "insert"}
     \/ pc[r] = "committing" /\ result[r] = r

OnlyForksFork == \A r \in Requests : pc[r] \in ForkOnly => Op(r) = "fork"

NotYetThere ==
  \A r \in Requests : r \in trees => pc[r] \in {"committed", "closed"}

Exclusive ==
  /\ \A r \in Requests : Serialized(r) => ForkLock(owner(r)) \in held[r]
  /\ \A r, q \in Requests :
       Serialized(r) /\ Serialized(q) /\ owner(r) = owner(q) => r = q

FreshIsFirst == \A r \in Requests : Fresh(r) => ForksOf(owner(r)) = {}

SourceIsPublic ==
  \A r \in Requests : Authorized(r) => SourceShare \in held[r] /\ source = "public"

\* The rows that were returned are locked, and as they were read.
TakenStays ==
  \A r \in Requests : \A m \in taken[r] :
    /\ {SourceShare, MemoryShare(m)} \subseteq held[r]
    /\ m \in shown
    /\ read[r][m] = parent[m]

\* Until it is finished, the statement has yet to take what it has not taken.
NothingSkipped ==
  \A r \in Requests :
    /\ lasting[r] \subseteq shown
    /\ lasting[r] \subseteq taken[r] \cup todo[r]
    /\ pc[r] \notin {"locking", "aborting"} => todo[r] = {}

\* A private creation holds the users row that entitled it.
EntitledStays ==
  \A r \in Requests :
    Op(r) = "private" /\ pc[r] \in {"bootstrap"} \cup Finishing =>
      UserShare(owner(r)) \in held[r] /\ owner(r) \in entitled

IInv ==
  /\ TypeOK
  /\ OnlyForksFork /\ NotYetThere
  /\ Exclusive /\ FreshIsFirst /\ OneForkPerOwner
  /\ SourceIsPublic /\ TakenStays /\ NothingSkipped
  /\ EntitledStays

-----------------------------------------------------------------------------
USE TreeCreationAssumption
    DEF database, copying, At, Op, owner

\* The locks that the statements take are locks.
LEMMA LocksAreLocks ==
  /\ \A o \in Owners : {UserRow(o), UserShare(o), ForkLock(o)} \subseteq Locks
  /\ SourceShare \in Locks
  /\ \A m \in Memories : MemoryShare(m) \in Locks
  BY DEF Locks

\* Holding some more keeps the type of held, forgetting that of what was read.
LEMMA HoldType ==
  ASSUME held \in [Requests -> SUBSET Locks], NEW r \in Requests,
         NEW locks \in SUBSET Locks, Hold(r, locks)
  PROVE  held' \in [Requests -> SUBSET Locks]
  BY DEF Hold

LEMMA ForgetType ==
  ASSUME TypeOK, NEW r \in Requests, Forget(r)
  PROVE  /\ todo' \in [Requests -> SUBSET Memories]
         /\ taken' \in [Requests -> SUBSET Memories]
         /\ read' \in [Requests -> [Memories -> Parents]]
         /\ lasting' \in [Requests -> SUBSET Memories]
  BY DEF TypeOK, Forget, Parents

\* Another edit is still within the bound.
LEMMA EditType ==
  ASSUME TypeOK, Edit
  PROVE  edits' \in 0..MaxEdits
  BY DEF TypeOK, Edit

\* Types are preserved.
LEMMA NextTypeOK ==
  ASSUME TypeOK, [Next]_vars
  PROVE  TypeOK'
  <1> USE DEF TypeOK, Statements, Answers, Calls
  <1>1. ASSUME NEW p \in Requests, Transaction(p)
        PROVE  TypeOK'
    <2>1. CASE RequireEntitlement(p)
      <3>1. held' \in [Requests -> SUBSET Locks]
        BY <2>1, LocksAreLocks, HoldType DEF RequireEntitlement
      <3>2. QED
        BY <2>1, <3>1 DEF RequireEntitlement, Refuse, Go
    <2>2. CASE EnsureOwner(p)
      <3>1. held' \in [Requests -> SUBSET Locks]
        BY <2>2, LocksAreLocks, HoldType DEF EnsureOwner
      <3>2. QED
        BY <2>2, <3>1 DEF EnsureOwner, Go
    <2>3. CASE TakeForkLock(p)
      <3>1. held' \in [Requests -> SUBSET Locks]
        BY <2>3, LocksAreLocks, HoldType DEF TakeForkLock
      <3>2. QED
        BY <2>3, <3>1 DEF TakeForkLock, Go
    <2>4. CASE ReadSource(p)
      <3>1. held' \in [Requests -> SUBSET Locks]
        BY <2>4, LocksAreLocks, HoldType DEF ReadSource
      <3>2. QED
        BY <2>4, <3>1 DEF ReadSource, Refuse, Go
    <2>5. CASE FindExisting(p)
      <3>1. result' \in [Requests -> Requests \cup {"none"}]
        BY <2>5 DEF FindExisting, ForksOf
      <3>2. QED
        BY <2>5, <3>1 DEF FindExisting, Go
    <2>6. CASE RereadExisting(p)
      BY <2>6 DEF RereadExisting, Refuse, Go
    <2>7. CASE Snapshot(p)
      BY <2>7 DEF Snapshot, Go
    <2>8. CASE LockMemory(p)
      <3>1. PICK m \in todo[p] :
              /\ todo' = [todo EXCEPT ![p] = @ \ {m}]
              /\ IF m \in shown
                 THEN /\ Hold(p, {MemoryShare(m)})
                      /\ taken' = [taken EXCEPT ![p] = @ \cup {m}]
                      /\ read' = [read EXCEPT ![p][m] = parent[m]]
                 ELSE UNCHANGED <<held, taken, read>>
        BY <2>8 DEF LockMemory
      <3>2. m \in Memories /\ held' \in [Requests -> SUBSET Locks]
        BY <3>1, LocksAreLocks, HoldType
      <3>3. /\ todo' \in [Requests -> SUBSET Memories]
            /\ taken' \in [Requests -> SUBSET Memories]
            /\ read' \in [Requests -> [Memories -> Parents]]
        <4>1. taken' \in [Requests -> SUBSET Memories]
          <5>1. taken[p] \cup {m} \in SUBSET Memories
            BY <3>2
          <5>2. taken' \in {taken, [taken EXCEPT ![p] = taken[p] \cup {m}]}
            BY <3>1
          <5>3. QED
            BY <5>1, <5>2
        <4>2. read' \in [Requests -> [Memories -> Parents]]
          <5>1. [read[p] EXCEPT ![m] = parent[m]] \in [Memories -> Parents]
            BY <3>2
          <5>2. CASE m \in shown
            BY <3>1, <5>1, <5>2
          <5>3. CASE m \notin shown
            BY <3>1, <5>3
          <5>4. QED
            BY <5>2, <5>3
        <4>3. QED
          BY <3>1, <3>2, <4>1, <4>2
      <3>4. QED
        BY <2>8, <3>2, <3>3 DEF LockMemory
    <2>9. CASE CheckSize(p)
      BY <2>9 DEF CheckSize, Refuse, Go
    <2>10. CASE InsertTree(p)
      <3>1. result' \in [Requests -> Requests \cup {"none"}]
        BY <2>10 DEF InsertTree
      <3>2. QED
        BY <2>10, <3>1 DEF InsertTree, Refuse, Go
    <2>11. CASE CommitDurable(p)
      <3>1. users' \subseteq Owners /\ entitled' \subseteq users' /\ trees' \subseteq Requests
        BY <2>11 DEF CommitDurable, Calls
      <3>2. QED
        BY <2>11, <3>1, ForgetType DEF CommitDurable, Go
    <2>12. CASE CommitLost(p)
      BY <2>12, ForgetType DEF CommitLost, Go
    <2>13. CASE AnswerUnknown(p)
      BY <2>13 DEF AnswerUnknown
    <2>14. CASE Acknowledge(p)
      BY <2>14 DEF Acknowledge, Go
    <2>15. CASE Fail(p)
      BY <2>15, ForgetType DEF Fail, Refuse, Go
    <2>16. CASE Discard(p)
      BY <2>16, ForgetType DEF Discard, Go
    <2>17. QED
      BY <1>1, <2>1, <2>2, <2>3, <2>4, <2>5, <2>6, <2>7, <2>8, <2>9, <2>10, <2>11,
         <2>12, <2>13, <2>14, <2>15, <2>16 DEF Transaction
  <1>2. ASSUME Others
        PROVE  TypeOK'
    <2>1. ASSUME NEW v \in {"public", "private", "absent"}, ChangeSource(v)
          PROVE  TypeOK'
      <3>1. lasting' \in [Requests -> SUBSET Memories] /\ shown' \subseteq Memories
        BY <2>1 DEF ChangeSource
      <3>2. edits' \in 0..MaxEdits
        BY <2>1, EditType DEF ChangeSource
      <3>3. QED
        BY <2>1, <3>1, <3>2 DEF ChangeSource, requesting
    <2>2. ASSUME NEW m \in Memories, Show(m)
          PROVE  TypeOK'
      <3>1. shown' \subseteq Memories
        BY <2>2 DEF Show
      <3>2. edits' \in 0..MaxEdits
        BY <2>2, EditType DEF Show
      <3>3. QED
        BY <2>2, <3>1, <3>2 DEF Show, requesting
    <2>3. ASSUME NEW m \in Memories, Hide(m)
          PROVE  TypeOK'
      <3>1. lasting' \in [Requests -> SUBSET Memories] /\ shown' \subseteq Memories
        BY <2>3 DEF Hide
      <3>2. edits' \in 0..MaxEdits
        BY <2>3, EditType DEF Hide
      <3>3. QED
        BY <2>3, <3>1, <3>2 DEF Hide, requesting
    <2>4. ASSUME NEW m \in Memories, NEW n \in Parents, Move(m, n)
          PROVE  TypeOK'
      <3>1. edits' \in 0..MaxEdits
        BY <2>4, EditType DEF Move
      <3>2. QED
        BY <2>4, <3>1 DEF Move, requesting
    <2>5. ASSUME NEW o \in Owners, ChangeEntitlement(o)
          PROVE  TypeOK'
      <3>1. edits' \in 0..MaxEdits
        BY <2>5, EditType DEF ChangeEntitlement
      <3>2. QED
        BY <2>5, <3>1 DEF ChangeEntitlement, requesting
    <2>6. ASSUME NEW q \in Requests, DeleteTree(q)
          PROVE  TypeOK'
      <3>1. edits' \in 0..MaxEdits
        BY <2>6, EditType DEF DeleteTree
      <3>2. QED
        BY <2>6, <3>1 DEF DeleteTree, requesting
    <2>7. QED
      BY <1>2, <2>1, <2>2, <2>3, <2>4, <2>5, <2>6 DEF Others
  <1>3. CASE UNCHANGED vars
    BY <1>3 DEF vars
  <1>4. QED
    BY <1>1, <1>2, <1>3 DEF Next, Finished

\* Only forks get to the statements of runForkWork.
LEMMA NextOnlyForksFork ==
  ASSUME TypeOK, OnlyForksFork, [Next]_vars
  PROVE  OnlyForksFork'
  <1> USE DEF TypeOK, OnlyForksFork, ForkOnly, Copying
  <1>1. ASSUME NEW p \in Requests, Transaction(p)
        PROVE  OnlyForksFork'
    <2>1. CASE RequireEntitlement(p)
      BY <2>1 DEF RequireEntitlement, Refuse, Go
    <2>2. CASE EnsureOwner(p)
      BY <2>2 DEF EnsureOwner, Go
    <2>3. CASE TakeForkLock(p)
      BY <2>3 DEF TakeForkLock, Go
    <2>4. CASE ReadSource(p)
      BY <2>4 DEF ReadSource, Refuse, Go
    <2>5. CASE FindExisting(p)
      BY <2>5 DEF FindExisting, Go
    <2>6. CASE RereadExisting(p)
      BY <2>6 DEF RereadExisting, Refuse, Go
    <2>7. CASE Snapshot(p)
      BY <2>7 DEF Snapshot, Go
    <2>8. CASE LockMemory(p)
      BY <2>8 DEF LockMemory
    <2>9. CASE CheckSize(p)
      BY <2>9 DEF CheckSize, Refuse, Go
    <2>10. CASE InsertTree(p)
      BY <2>10 DEF InsertTree, Refuse, Go
    <2>11. CASE CommitDurable(p)
      BY <2>11 DEF CommitDurable, Go
    <2>12. CASE CommitLost(p)
      BY <2>12 DEF CommitLost, Go
    <2>13. CASE AnswerUnknown(p)
      BY <2>13 DEF AnswerUnknown
    <2>14. CASE Acknowledge(p)
      BY <2>14 DEF Acknowledge, Go
    <2>15. CASE Fail(p)
      BY <2>15 DEF Fail, Refuse, Go
    <2>16. CASE Discard(p)
      BY <2>16 DEF Discard, Go
    <2>17. QED
      BY <1>1, <2>1, <2>2, <2>3, <2>4, <2>5, <2>6, <2>7, <2>8, <2>9, <2>10, <2>11,
         <2>12, <2>13, <2>14, <2>15, <2>16 DEF Transaction
  <1>2. ASSUME Others
        PROVE  OnlyForksFork'
    <2>1. ASSUME NEW v \in {"public", "private", "absent"}, ChangeSource(v)
          PROVE  OnlyForksFork'
      BY <2>1 DEF ChangeSource, Edit, requesting
    <2>2. ASSUME NEW m \in Memories, Show(m)
          PROVE  OnlyForksFork'
      BY <2>2 DEF Show, Edit, requesting
    <2>3. ASSUME NEW m \in Memories, Hide(m)
          PROVE  OnlyForksFork'
      BY <2>3 DEF Hide, Edit, requesting
    <2>4. ASSUME NEW m \in Memories, NEW n \in Parents, Move(m, n)
          PROVE  OnlyForksFork'
      BY <2>4 DEF Move, Edit, requesting
    <2>5. ASSUME NEW o \in Owners, ChangeEntitlement(o)
          PROVE  OnlyForksFork'
      BY <2>5 DEF ChangeEntitlement, Edit, requesting
    <2>6. ASSUME NEW q \in Requests, DeleteTree(q)
          PROVE  OnlyForksFork'
      BY <2>6 DEF DeleteTree, Edit, requesting
    <2>7. QED
      BY <1>2, <2>1, <2>2, <2>3, <2>4, <2>5, <2>6 DEF Others
  <1>3. CASE UNCHANGED vars
    BY <1>3 DEF vars
  <1>4. QED
    BY <1>1, <1>2, <1>3 DEF Next, Finished

\* A tree is there once its request has committed it, and not before.
LEMMA NextNotYetThere ==
  ASSUME TypeOK, NotYetThere, [Next]_vars
  PROVE  NotYetThere'
  <1> USE DEF TypeOK, NotYetThere
  <1>1. ASSUME NEW p \in Requests, Transaction(p)
        PROVE  NotYetThere'
    <2>1. CASE RequireEntitlement(p)
      BY <2>1 DEF RequireEntitlement, Refuse, Go
    <2>2. CASE EnsureOwner(p)
      BY <2>2 DEF EnsureOwner, Go
    <2>3. CASE TakeForkLock(p)
      BY <2>3 DEF TakeForkLock, Go
    <2>4. CASE ReadSource(p)
      BY <2>4 DEF ReadSource, Refuse, Go
    <2>5. CASE FindExisting(p)
      BY <2>5 DEF FindExisting, Go
    <2>6. CASE RereadExisting(p)
      BY <2>6 DEF RereadExisting, Refuse, Go
    <2>7. CASE Snapshot(p)
      BY <2>7 DEF Snapshot, Go
    <2>8. CASE LockMemory(p)
      BY <2>8 DEF LockMemory
    <2>9. CASE CheckSize(p)
      BY <2>9 DEF CheckSize, Refuse, Go
    <2>10. CASE InsertTree(p)
      BY <2>10 DEF InsertTree, Refuse, Go
    <2>11. CASE CommitDurable(p)
      BY <2>11 DEF CommitDurable, Go
    <2>12. CASE CommitLost(p)
      BY <2>12 DEF CommitLost, Go
    <2>13. CASE AnswerUnknown(p)
      BY <2>13 DEF AnswerUnknown
    <2>14. CASE Acknowledge(p)
      BY <2>14 DEF Acknowledge, Go
    <2>15. CASE Fail(p)
      BY <2>15 DEF Fail, Refuse, Go, Statements
    <2>16. CASE Discard(p)
      BY <2>16 DEF Discard, Go
    <2>17. QED
      BY <1>1, <2>1, <2>2, <2>3, <2>4, <2>5, <2>6, <2>7, <2>8, <2>9, <2>10, <2>11,
         <2>12, <2>13, <2>14, <2>15, <2>16 DEF Transaction
  <1>2. ASSUME Others
        PROVE  NotYetThere'
    <2>1. ASSUME NEW v \in {"public", "private", "absent"}, ChangeSource(v)
          PROVE  NotYetThere'
      BY <2>1 DEF ChangeSource, Edit, requesting
    <2>2. ASSUME NEW m \in Memories, Show(m)
          PROVE  NotYetThere'
      BY <2>2 DEF Show, Edit, requesting
    <2>3. ASSUME NEW m \in Memories, Hide(m)
          PROVE  NotYetThere'
      BY <2>3 DEF Hide, Edit, requesting
    <2>4. ASSUME NEW m \in Memories, NEW n \in Parents, Move(m, n)
          PROVE  NotYetThere'
      BY <2>4 DEF Move, Edit, requesting
    <2>5. ASSUME NEW o \in Owners, ChangeEntitlement(o)
          PROVE  NotYetThere'
      BY <2>5 DEF ChangeEntitlement, Edit, requesting
    <2>6. ASSUME NEW q \in Requests, DeleteTree(q)
          PROVE  NotYetThere'
      BY <2>6 DEF DeleteTree, Edit, requesting
    <2>7. QED
      BY <1>2, <2>1, <2>2, <2>3, <2>4, <2>5, <2>6 DEF Others
  <1>3. CASE UNCHANGED vars
    BY <1>3 DEF vars
  <1>4. QED
    BY <1>1, <1>2, <1>3 DEF Next, Finished

\* Taking a row lets go of none.
LEMMA LockMemoryHolds ==
  ASSUME TypeOK, NEW p \in Requests, LockMemory(p)
  PROVE  UNCHANGED <<pc, call, source>> /\ \A r \in Requests : held[r] \subseteq held'[r]
  <1>1. PICK m \in todo[p] : IF m \in shown THEN Hold(p, {MemoryShare(m)})
                             ELSE UNCHANGED held
    BY DEF LockMemory
  <1>2. CASE UNCHANGED held
    BY <1>2 DEF LockMemory
  <1>3. CASE Hold(p, {MemoryShare(m)})
    <2>1. held' = [held EXCEPT ![p] = held[p] \cup {MemoryShare(m)}]
      BY <1>3 DEF Hold
    <2>2. \A r \in Requests : held[r] \subseteq held'[r]
      BY <2>1 DEF TypeOK
    <2>3. QED
      BY <2>2 DEF LockMemory
  <1>4. QED
    BY <1>1, <1>2, <1>3

\* It is enough that nobody becomes serialized and nobody who stays so lets go.
LEMMA ExclusiveStays ==
  ASSUME Exclusive, UNCHANGED call,
         \A r \in Requests :
           Serialized(r)' => Serialized(r) /\ held[r] \subseteq held'[r]
  PROVE  Exclusive'
  BY DEF Exclusive

\* The advisory lock keeps the forks of one owner apart from the lookup to COMMIT.
LEMMA NextExclusive ==
  ASSUME TypeOK, OnlyForksFork, Exclusive, [Next]_vars
  PROVE  Exclusive'
  <1> USE DEF TypeOK
  <1>1. ASSUME NEW p \in Requests, Transaction(p)
        PROVE  Exclusive'
    <2>1. CASE RequireEntitlement(p)
      <3>1. \A r \in Requests :
              Serialized(r)' => Serialized(r) /\ held[r] \subseteq held'[r]
        BY <2>1 DEF RequireEntitlement, Hold, Refuse, Go, Serialized, Copying, Finishing
      <3>2. QED
        BY <2>1, <3>1, ExclusiveStays DEF RequireEntitlement
    <2>2. CASE EnsureOwner(p)
      <3>1. \A r \in Requests :
              Serialized(r)' => Serialized(r) /\ held[r] \subseteq held'[r]
        BY <2>2 DEF EnsureOwner, Hold, Go, Serialized, Copying, Finishing, OnlyForksFork, ForkOnly
      <3>2. QED
        BY <2>2, <3>1, ExclusiveStays DEF EnsureOwner
    <2>3. CASE TakeForkLock(p)
      <3>1. \A r \in Requests :
              /\ Serialized(r)' => r = p \/ Serialized(r)
              /\ held[r] \subseteq held'[r]
        BY <2>3 DEF TakeForkLock, Hold, Go, Serialized, Copying, Finishing
      <3>2. ForkLock(owner(p)) \in held'[p]
        BY <2>3 DEF TakeForkLock, Hold
      <3>3. \A r \in Requests : Serialized(r) /\ owner(r) = owner(p) => r = p
        BY <2>3 DEF TakeForkLock, Free, Exclusive
      <3>4. QED
        BY <2>3, <3>1, <3>2, <3>3 DEF TakeForkLock, Exclusive
    <2>4. CASE ReadSource(p)
      <3>1. \A r \in Requests :
              Serialized(r)' => Serialized(r) /\ held[r] \subseteq held'[r]
        BY <2>4 DEF ReadSource, Hold, Refuse, Go, Serialized, Copying, Finishing
      <3>2. QED
        BY <2>4, <3>1, ExclusiveStays DEF ReadSource
    <2>5. CASE FindExisting(p)
      <3>1. \A r \in Requests :
              Serialized(r)' => Serialized(r) /\ held[r] \subseteq held'[r]
        BY <2>5 DEF FindExisting, Go, Serialized, Copying, Finishing
      <3>2. QED
        BY <2>5, <3>1, ExclusiveStays DEF FindExisting
    <2>6. CASE RereadExisting(p)
      <3>1. \A r \in Requests :
              Serialized(r)' => Serialized(r) /\ held[r] \subseteq held'[r]
        BY <2>6 DEF RereadExisting, Refuse, Go, Serialized, Copying, Finishing
      <3>2. QED
        BY <2>6, <3>1, ExclusiveStays DEF RereadExisting
    <2>7. CASE Snapshot(p)
      <3>1. \A r \in Requests :
              Serialized(r)' => Serialized(r) /\ held[r] \subseteq held'[r]
        BY <2>7 DEF Snapshot, Go, Serialized, Copying, Finishing
      <3>2. QED
        BY <2>7, <3>1, ExclusiveStays DEF Snapshot
    <2>8. CASE LockMemory(p)
      <3>1. \A r \in Requests :
              Serialized(r)' => Serialized(r) /\ held[r] \subseteq held'[r]
        <4>1. UNCHANGED <<pc, call>> /\ \A r \in Requests : held[r] \subseteq held'[r]
          BY <2>8, LockMemoryHolds
        <4>2. QED
          BY <4>1 DEF Serialized
      <3>2. QED
        BY <2>8, <3>1, ExclusiveStays DEF LockMemory
    <2>9. CASE CheckSize(p)
      <3>1. \A r \in Requests :
              Serialized(r)' => Serialized(r) /\ held[r] \subseteq held'[r]
        BY <2>9 DEF CheckSize, Refuse, Go, Serialized, Copying, Finishing
      <3>2. QED
        BY <2>9, <3>1, ExclusiveStays DEF CheckSize
    <2>10. CASE InsertTree(p)
      <3>1. \A r \in Requests :
              Serialized(r)' => Serialized(r) /\ held[r] \subseteq held'[r]
        BY <2>10 DEF InsertTree, Refuse, Go, Serialized, Copying, Finishing
      <3>2. QED
        BY <2>10, <3>1, ExclusiveStays DEF InsertTree
    <2>11. CASE CommitDurable(p)
      <3>1. \A r \in Requests :
              Serialized(r)' => Serialized(r) /\ held[r] \subseteq held'[r]
        BY <2>11 DEF CommitDurable, Go, Serialized, Copying, Finishing
      <3>2. QED
        BY <2>11, <3>1, ExclusiveStays DEF CommitDurable
    <2>12. CASE CommitLost(p)
      <3>1. \A r \in Requests :
              Serialized(r)' => Serialized(r) /\ held[r] \subseteq held'[r]
        BY <2>12 DEF CommitLost, Go, Serialized, Copying, Finishing
      <3>2. QED
        BY <2>12, <3>1, ExclusiveStays DEF CommitLost
    <2>13. CASE AnswerUnknown(p)
      <3>1. \A r \in Requests :
              Serialized(r)' => Serialized(r) /\ held[r] \subseteq held'[r]
        BY <2>13 DEF AnswerUnknown, Serialized, Copying, Finishing
      <3>2. QED
        BY <2>13, <3>1, ExclusiveStays DEF AnswerUnknown
    <2>14. CASE Acknowledge(p)
      <3>1. \A r \in Requests :
              Serialized(r)' => Serialized(r) /\ held[r] \subseteq held'[r]
        BY <2>14 DEF Acknowledge, Go, Serialized, Copying, Finishing
      <3>2. QED
        BY <2>14, <3>1, ExclusiveStays DEF Acknowledge
    <2>15. CASE Fail(p)
      <3>1. \A r \in Requests :
              Serialized(r)' => Serialized(r) /\ held[r] \subseteq held'[r]
        BY <2>15 DEF Fail, Refuse, Go, Serialized, Copying, Finishing
      <3>2. QED
        BY <2>15, <3>1, ExclusiveStays DEF Fail
    <2>16. CASE Discard(p)
      <3>1. \A r \in Requests :
              Serialized(r)' => Serialized(r) /\ held[r] \subseteq held'[r]
        BY <2>16 DEF Discard, Go, Serialized, Copying, Finishing
      <3>2. QED
        BY <2>16, <3>1, ExclusiveStays DEF Discard
    <2>17. QED
      BY <1>1, <2>1, <2>2, <2>3, <2>4, <2>5, <2>6, <2>7, <2>8, <2>9, <2>10, <2>11,
         <2>12, <2>13, <2>14, <2>15, <2>16 DEF Transaction
  <1>2. ASSUME Others
        PROVE  Exclusive'
    <2>1. ASSUME NEW v \in {"public", "private", "absent"}, ChangeSource(v)
          PROVE  Exclusive'
      <3>1. \A r \in Requests :
              Serialized(r)' => Serialized(r) /\ held[r] \subseteq held'[r]
        BY <2>1 DEF ChangeSource, requesting, Serialized, Copying, Finishing
      <3>2. QED
        BY <2>1, <3>1, ExclusiveStays DEF ChangeSource, requesting
    <2>2. ASSUME NEW m \in Memories, Show(m)
          PROVE  Exclusive'
      <3>1. \A r \in Requests :
              Serialized(r)' => Serialized(r) /\ held[r] \subseteq held'[r]
        BY <2>2 DEF Show, requesting, Serialized, Copying, Finishing
      <3>2. QED
        BY <2>2, <3>1, ExclusiveStays DEF Show, requesting
    <2>3. ASSUME NEW m \in Memories, Hide(m)
          PROVE  Exclusive'
      <3>1. \A r \in Requests :
              Serialized(r)' => Serialized(r) /\ held[r] \subseteq held'[r]
        BY <2>3 DEF Hide, requesting, Serialized, Copying, Finishing
      <3>2. QED
        BY <2>3, <3>1, ExclusiveStays DEF Hide, requesting
    <2>4. ASSUME NEW m \in Memories, NEW n \in Parents, Move(m, n)
          PROVE  Exclusive'
      <3>1. \A r \in Requests :
              Serialized(r)' => Serialized(r) /\ held[r] \subseteq held'[r]
        BY <2>4 DEF Move, requesting, Serialized, Copying, Finishing
      <3>2. QED
        BY <2>4, <3>1, ExclusiveStays DEF Move, requesting
    <2>5. ASSUME NEW o \in Owners, ChangeEntitlement(o)
          PROVE  Exclusive'
      <3>1. \A r \in Requests :
              Serialized(r)' => Serialized(r) /\ held[r] \subseteq held'[r]
        BY <2>5 DEF ChangeEntitlement, requesting, Serialized, Copying, Finishing
      <3>2. QED
        BY <2>5, <3>1, ExclusiveStays DEF ChangeEntitlement, requesting
    <2>6. ASSUME NEW q \in Requests, DeleteTree(q)
          PROVE  Exclusive'
      <3>1. \A r \in Requests :
              Serialized(r)' => Serialized(r) /\ held[r] \subseteq held'[r]
        BY <2>6 DEF DeleteTree, requesting, Serialized, Copying, Finishing
      <3>2. QED
        BY <2>6, <3>1, ExclusiveStays DEF DeleteTree, requesting
    <2>7. QED
      BY <1>2, <2>1, <2>2, <2>3, <2>4, <2>5, <2>6 DEF Others
  <1>3. CASE UNCHANGED vars
    BY <1>3 DEF vars, Exclusive, Serialized
  <1>4. QED
    BY <1>1, <1>2, <1>3 DEF Next, Finished

\* So nobody commits a fork of an owner whose fork found none.
LEMMA NextFreshIsFirst ==
  ASSUME TypeOK, OnlyForksFork, NotYetThere, Exclusive, FreshIsFirst, [Next]_vars
  PROVE  FreshIsFirst'
  <1> USE DEF TypeOK, FreshIsFirst, Fresh, ForksOf
  <1>1. ASSUME NEW p \in Requests, Transaction(p)
        PROVE  FreshIsFirst'
    <2>1. CASE RequireEntitlement(p)
      BY <2>1 DEF RequireEntitlement, Refuse, Go
    <2>2. CASE EnsureOwner(p)
      BY <2>2 DEF EnsureOwner, Go
    <2>3. CASE TakeForkLock(p)
      BY <2>3 DEF TakeForkLock, Go
    <2>4. CASE ReadSource(p)
      BY <2>4 DEF ReadSource, Refuse, Go
    <2>5. CASE FindExisting(p)
      BY <2>5 DEF FindExisting, Go, OnlyForksFork, ForkOnly, Copying
    <2>6. CASE RereadExisting(p)
      BY <2>6 DEF RereadExisting, Refuse, Go, NotYetThere
    <2>7. CASE Snapshot(p)
      BY <2>7 DEF Snapshot, Go
    <2>8. CASE LockMemory(p)
      BY <2>8 DEF LockMemory
    <2>9. CASE CheckSize(p)
      BY <2>9 DEF CheckSize, Refuse, Go
    <2>10. CASE InsertTree(p)
      BY <2>10 DEF InsertTree, Refuse, Go
    <2>11. CASE CommitDurable(p)
      <3>1. ASSUME NEW r \in Requests, Fresh(r)'
            PROVE  ForksOf(owner(r)) = {} /\ r # p
        BY <2>11, <3>1 DEF CommitDurable, Go
      <3>2. ASSUME NEW r \in Requests, Fresh(r), r # p, result[p] = p, Op(p) = "fork"
            PROVE  owner(p) # owner(r)
        BY <2>11, <3>2 DEF CommitDurable, Exclusive, Serialized, Copying, Finishing
      <3>3. ASSUME NEW r \in Requests, Fresh(r)'
            PROVE  (ForksOf(owner(r)) = {})'
        <4>1. Fresh(r)
          BY <2>11, <3>1, <3>3 DEF CommitDurable, Go
        <4>2. QED
          BY <2>11, <3>1, <3>2, <3>3, <4>1 DEF CommitDurable
      <3>4. QED
        BY <3>3
    <2>12. CASE CommitLost(p)
      BY <2>12 DEF CommitLost, Go
    <2>13. CASE AnswerUnknown(p)
      BY <2>13 DEF AnswerUnknown
    <2>14. CASE Acknowledge(p)
      BY <2>14 DEF Acknowledge, Go
    <2>15. CASE Fail(p)
      BY <2>15 DEF Fail, Refuse, Go
    <2>16. CASE Discard(p)
      BY <2>16 DEF Discard, Go
    <2>17. QED
      BY <1>1, <2>1, <2>2, <2>3, <2>4, <2>5, <2>6, <2>7, <2>8, <2>9, <2>10, <2>11,
         <2>12, <2>13, <2>14, <2>15, <2>16 DEF Transaction
  <1>2. ASSUME Others
        PROVE  FreshIsFirst'
    <2>1. ASSUME NEW v \in {"public", "private", "absent"}, ChangeSource(v)
          PROVE  FreshIsFirst'
      BY <2>1 DEF ChangeSource, Edit, requesting
    <2>2. ASSUME NEW m \in Memories, Show(m)
          PROVE  FreshIsFirst'
      BY <2>2 DEF Show, Edit, requesting
    <2>3. ASSUME NEW m \in Memories, Hide(m)
          PROVE  FreshIsFirst'
      BY <2>3 DEF Hide, Edit, requesting
    <2>4. ASSUME NEW m \in Memories, NEW n \in Parents, Move(m, n)
          PROVE  FreshIsFirst'
      BY <2>4 DEF Move, Edit, requesting
    <2>5. ASSUME NEW o \in Owners, ChangeEntitlement(o)
          PROVE  FreshIsFirst'
      BY <2>5 DEF ChangeEntitlement, Edit, requesting
    <2>6. ASSUME NEW q \in Requests, DeleteTree(q)
          PROVE  FreshIsFirst'
      BY <2>6 DEF DeleteTree, Edit, requesting
    <2>7. QED
      BY <1>2, <2>1, <2>2, <2>3, <2>4, <2>5, <2>6 DEF Others
  <1>3. CASE UNCHANGED vars
    BY <1>3 DEF vars
  <1>4. QED
    BY <1>1, <1>2, <1>3 DEF Next, Finished

\* A fork that commits is the first of its owner.
LEMMA NextOneForkPerOwner ==
  ASSUME TypeOK, FreshIsFirst, OneForkPerOwner, [Next]_vars
  PROVE  OneForkPerOwner'
  <1> USE DEF TypeOK, OneForkPerOwner
  <1>1. ASSUME NEW p \in Requests, Transaction(p)
        PROVE  OneForkPerOwner'
    <2>1. CASE RequireEntitlement(p)
      BY <2>1 DEF RequireEntitlement, Refuse, Go
    <2>2. CASE EnsureOwner(p)
      BY <2>2 DEF EnsureOwner, Go
    <2>3. CASE TakeForkLock(p)
      BY <2>3 DEF TakeForkLock, Go
    <2>4. CASE ReadSource(p)
      BY <2>4 DEF ReadSource, Refuse, Go
    <2>5. CASE FindExisting(p)
      BY <2>5 DEF FindExisting, Go
    <2>6. CASE RereadExisting(p)
      BY <2>6 DEF RereadExisting, Refuse, Go
    <2>7. CASE Snapshot(p)
      BY <2>7 DEF Snapshot, Go
    <2>8. CASE LockMemory(p)
      BY <2>8 DEF LockMemory
    <2>9. CASE CheckSize(p)
      BY <2>9 DEF CheckSize, Refuse, Go
    <2>10. CASE InsertTree(p)
      BY <2>10 DEF InsertTree, Refuse, Go
    <2>11. CASE CommitDurable(p)
      BY <2>11 DEF CommitDurable, FreshIsFirst, Fresh, ForksOf
    <2>12. CASE CommitLost(p)
      BY <2>12 DEF CommitLost, Go
    <2>13. CASE AnswerUnknown(p)
      BY <2>13 DEF AnswerUnknown
    <2>14. CASE Acknowledge(p)
      BY <2>14 DEF Acknowledge, Go
    <2>15. CASE Fail(p)
      BY <2>15 DEF Fail, Refuse, Go
    <2>16. CASE Discard(p)
      BY <2>16 DEF Discard, Go
    <2>17. QED
      BY <1>1, <2>1, <2>2, <2>3, <2>4, <2>5, <2>6, <2>7, <2>8, <2>9, <2>10, <2>11,
         <2>12, <2>13, <2>14, <2>15, <2>16 DEF Transaction
  <1>2. ASSUME Others
        PROVE  OneForkPerOwner'
    <2>1. ASSUME NEW v \in {"public", "private", "absent"}, ChangeSource(v)
          PROVE  OneForkPerOwner'
      BY <2>1 DEF ChangeSource, Edit, requesting
    <2>2. ASSUME NEW m \in Memories, Show(m)
          PROVE  OneForkPerOwner'
      BY <2>2 DEF Show, Edit, requesting
    <2>3. ASSUME NEW m \in Memories, Hide(m)
          PROVE  OneForkPerOwner'
      BY <2>3 DEF Hide, Edit, requesting
    <2>4. ASSUME NEW m \in Memories, NEW n \in Parents, Move(m, n)
          PROVE  OneForkPerOwner'
      BY <2>4 DEF Move, Edit, requesting
    <2>5. ASSUME NEW o \in Owners, ChangeEntitlement(o)
          PROVE  OneForkPerOwner'
      BY <2>5 DEF ChangeEntitlement, Edit, requesting
    <2>6. ASSUME NEW q \in Requests, DeleteTree(q)
          PROVE  OneForkPerOwner'
      BY <2>6 DEF DeleteTree, Edit, requesting
    <2>7. QED
      BY <1>2, <2>1, <2>2, <2>3, <2>4, <2>5, <2>6 DEF Others
  <1>3. CASE UNCHANGED vars
    BY <1>3 DEF vars
  <1>4. QED
    BY <1>1, <1>2, <1>3 DEF Next, Finished

\* A source that was found public is locked until the fork ends.
LEMMA NextSourceIsPublic ==
  ASSUME TypeOK, OnlyForksFork, SourceIsPublic, [Next]_vars
  PROVE  SourceIsPublic'
  <1> USE DEF TypeOK, OnlyForksFork, ForkOnly, SourceIsPublic, Authorized, Copying, Finishing
  <1>1. ASSUME NEW p \in Requests, Transaction(p)
        PROVE  SourceIsPublic'
    <2>1. CASE RequireEntitlement(p)
      BY <2>1 DEF RequireEntitlement, Hold, Refuse, Go
    <2>2. CASE EnsureOwner(p)
      BY <2>2 DEF EnsureOwner, Hold, Go
    <2>3. CASE TakeForkLock(p)
      BY <2>3 DEF TakeForkLock, Hold, Go
    <2>4. CASE ReadSource(p)
      BY <2>4 DEF ReadSource, Hold, Refuse, Go
    <2>5. CASE FindExisting(p)
      BY <2>5 DEF FindExisting, Go
    <2>6. CASE RereadExisting(p)
      BY <2>6 DEF RereadExisting, Refuse, Go
    <2>7. CASE Snapshot(p)
      BY <2>7 DEF Snapshot, Go
    <2>8. CASE LockMemory(p)
      <3>1. UNCHANGED <<pc, call, source>> /\ \A r \in Requests : held[r] \subseteq held'[r]
        BY <2>8, LockMemoryHolds
      <3>2. QED
        BY <3>1
    <2>9. CASE CheckSize(p)
      BY <2>9 DEF CheckSize, Refuse, Go
    <2>10. CASE InsertTree(p)
      BY <2>10 DEF InsertTree, Refuse, Go
    <2>11. CASE CommitDurable(p)
      BY <2>11 DEF CommitDurable, Go
    <2>12. CASE CommitLost(p)
      BY <2>12 DEF CommitLost, Go
    <2>13. CASE AnswerUnknown(p)
      BY <2>13 DEF AnswerUnknown
    <2>14. CASE Acknowledge(p)
      BY <2>14 DEF Acknowledge, Go
    <2>15. CASE Fail(p)
      BY <2>15 DEF Fail, Refuse, Go
    <2>16. CASE Discard(p)
      BY <2>16 DEF Discard, Go
    <2>17. QED
      BY <1>1, <2>1, <2>2, <2>3, <2>4, <2>5, <2>6, <2>7, <2>8, <2>9, <2>10, <2>11,
         <2>12, <2>13, <2>14, <2>15, <2>16 DEF Transaction
  <1>2. ASSUME Others
        PROVE  SourceIsPublic'
    <2>1. ASSUME NEW v \in {"public", "private", "absent"}, ChangeSource(v)
          PROVE  SourceIsPublic'
      BY <2>1 DEF ChangeSource, Unlocked, requesting
    <2>2. ASSUME NEW m \in Memories, Show(m)
          PROVE  SourceIsPublic'
      BY <2>2 DEF Show, Edit, requesting
    <2>3. ASSUME NEW m \in Memories, Hide(m)
          PROVE  SourceIsPublic'
      BY <2>3 DEF Hide, Edit, requesting
    <2>4. ASSUME NEW m \in Memories, NEW n \in Parents, Move(m, n)
          PROVE  SourceIsPublic'
      BY <2>4 DEF Move, Edit, requesting
    <2>5. ASSUME NEW o \in Owners, ChangeEntitlement(o)
          PROVE  SourceIsPublic'
      BY <2>5 DEF ChangeEntitlement, Edit, requesting
    <2>6. ASSUME NEW q \in Requests, DeleteTree(q)
          PROVE  SourceIsPublic'
      BY <2>6 DEF DeleteTree, Edit, requesting
    <2>7. QED
      BY <1>2, <2>1, <2>2, <2>3, <2>4, <2>5, <2>6 DEF Others
  <1>3. CASE UNCHANGED vars
    BY <1>3 DEF vars
  <1>4. QED
    BY <1>1, <1>2, <1>3 DEF Next, Finished

\* The rows that were returned are locked as well.
LEMMA NextTakenStays ==
  ASSUME TypeOK, OnlyForksFork, SourceIsPublic, TakenStays, [Next]_vars
  PROVE  TakenStays'
  <1> USE DEF TypeOK, TakenStays
  <1>1. ASSUME NEW p \in Requests, Transaction(p)
        PROVE  TakenStays'
    <2>1. CASE RequireEntitlement(p)
      BY <2>1 DEF RequireEntitlement, Hold, Refuse, Go
    <2>2. CASE EnsureOwner(p)
      <3>1. \A r \in Requests : held[r] \subseteq held'[r]
        BY <2>2 DEF EnsureOwner, Hold
      <3>2. QED
        BY <2>2, <3>1 DEF EnsureOwner
    <2>3. CASE TakeForkLock(p)
      BY <2>3 DEF TakeForkLock, Hold, Go
    <2>4. CASE ReadSource(p)
      BY <2>4 DEF ReadSource, Hold, Refuse, Go
    <2>5. CASE FindExisting(p)
      BY <2>5 DEF FindExisting, Go
    <2>6. CASE RereadExisting(p)
      BY <2>6 DEF RereadExisting, Refuse, Go
    <2>7. CASE Snapshot(p)
      BY <2>7 DEF Snapshot, Go
    <2>8. CASE LockMemory(p)
      <3>1. SourceShare \in held[p]
        BY <2>8 DEF LockMemory, OnlyForksFork, SourceIsPublic, Authorized, ForkOnly, Copying
      <3>2. QED
        BY <2>8, <3>1 DEF LockMemory, Hold
    <2>9. CASE CheckSize(p)
      BY <2>9 DEF CheckSize, Refuse, Go
    <2>10. CASE InsertTree(p)
      BY <2>10 DEF InsertTree, Refuse, Go
    <2>11. CASE CommitDurable(p)
      BY <2>11 DEF CommitDurable, Go, Forget
    <2>12. CASE CommitLost(p)
      BY <2>12 DEF CommitLost, Go, Forget
    <2>13. CASE AnswerUnknown(p)
      BY <2>13 DEF AnswerUnknown
    <2>14. CASE Acknowledge(p)
      BY <2>14 DEF Acknowledge, Go
    <2>15. CASE Fail(p)
      BY <2>15 DEF Fail, Refuse, Go, Forget
    <2>16. CASE Discard(p)
      BY <2>16 DEF Discard, Go, Forget
    <2>17. QED
      BY <1>1, <2>1, <2>2, <2>3, <2>4, <2>5, <2>6, <2>7, <2>8, <2>9, <2>10, <2>11,
         <2>12, <2>13, <2>14, <2>15, <2>16 DEF Transaction
  <1>2. ASSUME Others
        PROVE  TakenStays'
    <2>1. ASSUME NEW v \in {"public", "private", "absent"}, ChangeSource(v)
          PROVE  TakenStays'
      BY <2>1 DEF ChangeSource, Unlocked, requesting
    <2>2. ASSUME NEW m \in Memories, Show(m)
          PROVE  TakenStays'
      BY <2>2 DEF Show, Edit, requesting
    <2>3. ASSUME NEW m \in Memories, Hide(m)
          PROVE  TakenStays'
      BY <2>3 DEF Hide, Unlocked, requesting
    <2>4. ASSUME NEW m \in Memories, NEW n \in Parents, Move(m, n)
          PROVE  TakenStays'
      BY <2>4 DEF Move, Unlocked, requesting
    <2>5. ASSUME NEW o \in Owners, ChangeEntitlement(o)
          PROVE  TakenStays'
      BY <2>5 DEF ChangeEntitlement, Edit, requesting
    <2>6. ASSUME NEW q \in Requests, DeleteTree(q)
          PROVE  TakenStays'
      BY <2>6 DEF DeleteTree, Edit, requesting
    <2>7. QED
      BY <1>2, <2>1, <2>2, <2>3, <2>4, <2>5, <2>6 DEF Others
  <1>3. CASE UNCHANGED vars
    BY <1>3 DEF vars
  <1>4. QED
    BY <1>1, <1>2, <1>3 DEF Next, Finished

\* The rows of the snapshot are taken, or were hidden, or are still to be taken.
LEMMA NextNothingSkipped ==
  ASSUME TypeOK, NothingSkipped, [Next]_vars
  PROVE  NothingSkipped'
  <1> USE DEF TypeOK, NothingSkipped
  <1>1. ASSUME NEW p \in Requests, Transaction(p)
        PROVE  NothingSkipped'
    <2>1. CASE RequireEntitlement(p)
      BY <2>1 DEF RequireEntitlement, Hold, Refuse, Go
    <2>2. CASE EnsureOwner(p)
      BY <2>2 DEF EnsureOwner, Hold, Go
    <2>3. CASE TakeForkLock(p)
      BY <2>3 DEF TakeForkLock, Hold, Go
    <2>4. CASE ReadSource(p)
      BY <2>4 DEF ReadSource, Hold, Refuse, Go
    <2>5. CASE FindExisting(p)
      BY <2>5 DEF FindExisting, Go
    <2>6. CASE RereadExisting(p)
      BY <2>6 DEF RereadExisting, Refuse, Go
    <2>7. CASE Snapshot(p)
      BY <2>7 DEF Snapshot, Go
    <2>8. CASE LockMemory(p)
      <3>1. PICK m \in todo[p] :
              /\ todo' = [todo EXCEPT ![p] = @ \ {m}]
              /\ m \in shown => taken' = [taken EXCEPT ![p] = @ \cup {m}]
              /\ m \notin shown => taken' = taken
        BY <2>8 DEF LockMemory
      <3>2. lasting[p] \subseteq taken'[p] \cup todo'[p]
        BY <3>1
      <3>3. QED
        BY <2>8, <3>1, <3>2 DEF LockMemory
    <2>9. CASE CheckSize(p)
      BY <2>9 DEF CheckSize, Refuse, Go
    <2>10. CASE InsertTree(p)
      BY <2>10 DEF InsertTree, Refuse, Go
    <2>11. CASE CommitDurable(p)
      BY <2>11 DEF CommitDurable, Go, Forget
    <2>12. CASE CommitLost(p)
      BY <2>12 DEF CommitLost, Go, Forget
    <2>13. CASE AnswerUnknown(p)
      BY <2>13 DEF AnswerUnknown
    <2>14. CASE Acknowledge(p)
      BY <2>14 DEF Acknowledge, Go
    <2>15. CASE Fail(p)
      BY <2>15 DEF Fail, Refuse, Go, Forget
    <2>16. CASE Discard(p)
      BY <2>16 DEF Discard, Go, Forget
    <2>17. QED
      BY <1>1, <2>1, <2>2, <2>3, <2>4, <2>5, <2>6, <2>7, <2>8, <2>9, <2>10, <2>11,
         <2>12, <2>13, <2>14, <2>15, <2>16 DEF Transaction
  <1>2. ASSUME Others
        PROVE  NothingSkipped'
    <2>1. ASSUME NEW v \in {"public", "private", "absent"}, ChangeSource(v)
          PROVE  NothingSkipped'
      BY <2>1 DEF ChangeSource, Edit, requesting
    <2>2. ASSUME NEW m \in Memories, Show(m)
          PROVE  NothingSkipped'
      BY <2>2 DEF Show, Edit, requesting
    <2>3. ASSUME NEW m \in Memories, Hide(m)
          PROVE  NothingSkipped'
      BY <2>3 DEF Hide, Edit, requesting
    <2>4. ASSUME NEW m \in Memories, NEW n \in Parents, Move(m, n)
          PROVE  NothingSkipped'
      BY <2>4 DEF Move, Edit, requesting
    <2>5. ASSUME NEW o \in Owners, ChangeEntitlement(o)
          PROVE  NothingSkipped'
      BY <2>5 DEF ChangeEntitlement, Edit, requesting
    <2>6. ASSUME NEW q \in Requests, DeleteTree(q)
          PROVE  NothingSkipped'
      BY <2>6 DEF DeleteTree, Edit, requesting
    <2>7. QED
      BY <1>2, <2>1, <2>2, <2>3, <2>4, <2>5, <2>6 DEF Others
  <1>3. CASE UNCHANGED vars
    BY <1>3 DEF vars
  <1>4. QED
    BY <1>1, <1>2, <1>3 DEF Next, Finished

\* The entitlement stays as it was read.
LEMMA NextEntitledStays ==
  ASSUME TypeOK, OnlyForksFork, EntitledStays, [Next]_vars
  PROVE  EntitledStays'
  <1> USE DEF TypeOK, OnlyForksFork, ForkOnly, EntitledStays, Copying, Finishing
  <1>1. ASSUME NEW p \in Requests, Transaction(p)
        PROVE  EntitledStays'
    <2>1. CASE RequireEntitlement(p)
      BY <2>1 DEF RequireEntitlement, Hold, Refuse, Go
    <2>2. CASE EnsureOwner(p)
      <3>1. \A r \in Requests : held[r] \subseteq held'[r]
        BY <2>2 DEF EnsureOwner, Hold
      <3>2. QED
        BY <2>2, <3>1 DEF EnsureOwner, Go
    <2>3. CASE TakeForkLock(p)
      BY <2>3 DEF TakeForkLock, Hold, Go
    <2>4. CASE ReadSource(p)
      BY <2>4 DEF ReadSource, Hold, Refuse, Go
    <2>5. CASE FindExisting(p)
      BY <2>5 DEF FindExisting, Go
    <2>6. CASE RereadExisting(p)
      BY <2>6 DEF RereadExisting, Refuse, Go
    <2>7. CASE Snapshot(p)
      BY <2>7 DEF Snapshot, Go
    <2>8. CASE LockMemory(p)
      BY <2>8 DEF LockMemory, Hold
    <2>9. CASE CheckSize(p)
      BY <2>9 DEF CheckSize, Refuse, Go
    <2>10. CASE InsertTree(p)
      BY <2>10 DEF InsertTree, Refuse, Go
    <2>11. CASE CommitDurable(p)
      BY <2>11 DEF CommitDurable, Go
    <2>12. CASE CommitLost(p)
      BY <2>12 DEF CommitLost, Go
    <2>13. CASE AnswerUnknown(p)
      BY <2>13 DEF AnswerUnknown
    <2>14. CASE Acknowledge(p)
      BY <2>14 DEF Acknowledge, Go
    <2>15. CASE Fail(p)
      BY <2>15 DEF Fail, Refuse, Go
    <2>16. CASE Discard(p)
      BY <2>16 DEF Discard, Go
    <2>17. QED
      BY <1>1, <2>1, <2>2, <2>3, <2>4, <2>5, <2>6, <2>7, <2>8, <2>9, <2>10, <2>11,
         <2>12, <2>13, <2>14, <2>15, <2>16 DEF Transaction
  <1>2. ASSUME Others
        PROVE  EntitledStays'
    <2>1. ASSUME NEW v \in {"public", "private", "absent"}, ChangeSource(v)
          PROVE  EntitledStays'
      BY <2>1 DEF ChangeSource, Edit, requesting
    <2>2. ASSUME NEW m \in Memories, Show(m)
          PROVE  EntitledStays'
      BY <2>2 DEF Show, Edit, requesting
    <2>3. ASSUME NEW m \in Memories, Hide(m)
          PROVE  EntitledStays'
      BY <2>3 DEF Hide, Edit, requesting
    <2>4. ASSUME NEW m \in Memories, NEW n \in Parents, Move(m, n)
          PROVE  EntitledStays'
      BY <2>4 DEF Move, Edit, requesting
    <2>5. ASSUME NEW o \in Owners, ChangeEntitlement(o)
          PROVE  EntitledStays'
      BY <2>5 DEF ChangeEntitlement, Unlocked, requesting
    <2>6. ASSUME NEW q \in Requests, DeleteTree(q)
          PROVE  EntitledStays'
      BY <2>6 DEF DeleteTree, Edit, requesting
    <2>7. QED
      BY <1>2, <2>1, <2>2, <2>3, <2>4, <2>5, <2>6 DEF Others
  <1>3. CASE UNCHANGED vars
    BY <1>3 DEF vars
  <1>4. QED
    BY <1>1, <1>2, <1>3 DEF Next, Finished

\* It holds initially: nothing is done, locked or read.
LEMMA InitIInv == Init => IInv
  <1> SUFFICES ASSUME Init PROVE IInv
    OBVIOUS
  <1>1. TypeOK
    BY DEF Init, TypeOK, Statements, Answers, Calls, Parents
  <1>2. \A r \in Requests : pc[r] \in {"entitlement", "bootstrap"}
    BY DEF Init
  <1>3. OnlyForksFork /\ Exclusive /\ FreshIsFirst /\ SourceIsPublic
    BY <1>2 DEF OnlyForksFork, ForkOnly, Copying, Finishing, Exclusive, Serialized,
       FreshIsFirst, Fresh, SourceIsPublic, Authorized
  <1>4. NotYetThere /\ OneForkPerOwner /\ TakenStays /\ NothingSkipped
    BY DEF Init, NotYetThere, OneForkPerOwner, TakenStays, NothingSkipped
  <1>5. EntitledStays
    BY DEF Init, EntitledStays, Finishing
  <1>6. QED
    BY <1>1, <1>3, <1>4, <1>5 DEF IInv

\* And every step preserves it.
LEMMA NextIInv == IInv /\ [Next]_vars => IInv'
  BY NextTypeOK, NextOnlyForksFork, NextNotYetThere, NextExclusive, NextFreshIsFirst,
     NextOneForkPerOwner, NextSourceIsPublic, NextTakenStays, NextNothingSkipped,
     NextEntitledStays
  DEF IInv

-----------------------------------------------------------------------------
(* The theorems.                                                           *)

\* The inductive invariant.
THEOREM CreationInvariant == Spec => []IInv
  BY InitIInv, NextIInv, PTL DEF Spec

\* Type correctness.
THEOREM CreationTypeCorrect == Spec => []TypeOK
  <1>1. IInv => TypeOK
    BY DEF IInv
  <1>2. QED
    BY <1>1, CreationInvariant, PTL

\* The advisory lock of runForkWork gives an owner at most one fork of the source,
\* with and without a bootstrap that locks the users row.
THEOREM ForksAreUnique == Spec => []OneForkPerOwner
  <1>1. IInv => OneForkPerOwner
    BY DEF IInv
  <1>2. QED
    BY <1>1, CreationInvariant, PTL

\* A tree is created by the durable COMMIT of its own request.
LEMMA CreatedByCommit ==
  ASSUME IInv, [Next]_vars, NEW r \in Requests, Created(r)
  PROVE  /\ pc[r] = "committing" /\ result[r] = r
         /\ UNCHANGED <<source, shown, parent, entitled>>
  <1>1. trees' # trees /\ ~(trees' \subseteq trees)
    BY DEF Created
  <1>2. PICK p \in Requests : Transaction(p)
    BY <1>1 DEF Next, Others, Finished, vars, database, ChangeSource, Show, Hide, Move,
       ChangeEntitlement, DeleteTree
  <1>3. CommitDurable(p)
    BY <1>1, <1>2 DEF Transaction, database, RequireEntitlement, EnsureOwner,
       TakeForkLock, ReadSource, FindExisting, RereadExisting, Snapshot, LockMemory,
       CheckSize, InsertTree, CommitLost, AnswerUnknown, Acknowledge, Fail, Discard
  <1>4. QED
    BY <1>3 DEF Created, CommitDurable

\* FOR SHARE on the source and on every row that is copied, held until COMMIT, makes
\* a fork the public part of its source at that moment.
THEOREM ForksAreTheSource == Spec => ForkIsTheSource
  <1> DEFINE Faithful(r) ==
        /\ source = "public"
        /\ taken[r] \subseteq shown
        /\ lasting[r] \subseteq taken[r]
        /\ \A m \in taken[r] :
             Copied(r, m) = IF parent[m] \in taken[r] THEN parent[m] ELSE Root
  <1>1. ASSUME IInv, [Next]_vars, NEW r \in Requests, Created(r), Op(r) = "fork"
        PROVE  Faithful(r)
    <2>1. pc[r] = "committing"
      BY <1>1, CreatedByCommit
    <2>2. source = "public"
      BY <1>1, <2>1 DEF IInv, SourceIsPublic, Authorized, Finishing
    <2>3. lasting[r] \subseteq taken[r]
      BY <1>1, <2>1 DEF IInv, NothingSkipped
    <2>4. QED
      BY <1>1, <2>2, <2>3 DEF IInv, TakenStays, Copied
  <1>2. IInv /\ [Next]_vars =>
          [\A r \in Requests : Created(r) /\ Op(r) = "fork" => Faithful(r)]_vars
    BY <1>1
  <1>3. QED
    BY <1>2, CreationInvariant, PTL DEF Spec, ForkIsTheSource

\* FOR SHARE on the users row, held until COMMIT, makes the entitlement that was
\* read the one under which a private tree becomes durable.
THEOREM PrivateTreesAreEntitled == Spec => PrivateIsEntitled
  <1>1. ASSUME IInv, [Next]_vars, NEW r \in Requests, Created(r), Op(r) = "private"
        PROVE  owner(r) \in entitled
    <2>1. pc[r] = "committing"
      BY <1>1, CreatedByCommit
    <2>2. QED
      BY <1>1, <2>1 DEF IInv, EntitledStays, Finishing
  <1>2. IInv /\ [Next]_vars =>
          [\A r \in Requests :
             Created(r) /\ Op(r) = "private" => owner(r) \in entitled]_vars
    BY <1>1
  <1>3. QED
    BY <1>2, CreationInvariant, PTL DEF Spec, PrivateIsEntitled
=============================================================================
