------------------------ MODULE MemoryForest_proofs ------------------------
(***************************************************************************)
(* Proofs about MemoryForest, for any trees, memories, keys, requests and  *)
(* starting forests.  The first invariant, IInv, is about row versions and *)
(* locks: from it follow type correctness, one memory per client key, and  *)
(* the canonical reread that never misses.  The second, FInv, rests on it  *)
(* and is about the forest: references hold, no reparenting closes a       *)
(* cycle, answers stay true, a move stands.  With the third, AInv, every   *)
(* step is one of the abstract AtomicForest, or a stutter.                 *)
(***************************************************************************)
EXTENDS MemoryForest, TLAPS

-----------------------------------------------------------------------------
(* The first inductive invariant.                                          *)

\* The owner check told a transaction its tree; a parent that is to be locked or
\* tested was asked for; the ancestor walk stands on a memory.
InPlace ==
  \A r \in Requests :
    /\ pc[r] \in Statements \ {"owner"} => home[r] \in Trees
    /\ pc[r] \in {"parent", "graphLock", "source", "target"} => parent(r) # "none"
    /\ pc[r] = "ancestors" => walk[r].at # "none"

\* Statements of a creation or a reparenting that come before its first write, and
\* the places after the end of a transaction.
Early == {"owner", "parent", "existing", "insert", "graphLock", "source",
          "target", "ancestors", "update", "rereadExisting", "rereadConflict",
          "committed", "closed"}

Unwritten ==
  \A r \in Requests : pc[r] \in Early => writes[r] = Nothing

\* No two transactions write one row, and only a creation writes a row that is
\* not there, its own.
Exclusive ==
  \A r, q \in Requests, o \in Objects :
    writes[r][o] # Untouched =>
      /\ q # r => writes[q][o] = Untouched
      /\ rows[o] # Absent \/ o = r

\* The memory of a request appears when the request commits.
Born ==
  \A r \in Requests : rows[r] # Absent => pc[r] \in {"committed", "closed"}

\* Nobody changes the tree or the key of a memory.
KeepsKey ==
  \A r \in Requests, o \in Objects :
    writes[r][o] \in Rows /\ rows[o] # Absent =>
      writes[r][o].tree = rows[o].tree /\ writes[r][o].key = rows[o].key

\* A row that is locked FOR KEY SHARE is there, and is not being deleted.
SharedStays ==
  \A r \in Requests : \A o \in shared[r] :
    rows[o] # Absent /\ \A q \in Requests \ {r} : writes[q][o] # Absent

\* The committed row of a memory, and those its writers are about to commit.
Version(m, row) == row = rows[m] \/ \E q \in Requests : row = writes[q][m]

\* Among all versions, committed or not, a key of a tree belongs to one memory.
KeyBelongsToOne ==
  \A m, n \in Memories : \A row, other \in Rows :
    Version(m, row) /\ Version(n, other) /\ row.key # "none"
    /\ row.key = other.key /\ row.tree = other.tree => m = n

\* What the key pre-check found is still there, under the lock.
FoundStays ==
  \A r \in Requests :
    pc[r] = "rereadExisting" =>
      \E m \in Memories : m \in shared[r] /\ Bound(r, rows[m])

IInv ==
  /\ TypeOK
  /\ InPlace
  /\ Unwritten
  /\ Exclusive
  /\ Born
  /\ KeepsKey
  /\ SharedStays
  /\ KeyBelongsToOne
  /\ FoundStays
  /\ NeverMissing

-----------------------------------------------------------------------------
(* Facts about rows and statements.                                        *)

\* The three kinds of row versions are different.
LEMMA Sorts ==
  /\ Absent \notin Rows /\ Untouched \notin Rows /\ Absent # Untouched
  /\ \A row \in Rows : row # Absent /\ row # Untouched
  BY MemoryForestAssumption DEF Rows, Absent, Untouched

\* What a transaction sees of an object is a row or its absence.
LEMMA SeenType ==
  ASSUME TypeOK, NEW r \in Requests, NEW o \in Objects
  PROVE  Seen(r, o) \in Rows \cup {Absent}
  BY Sorts DEF TypeOK, Seen

\* What a request names is an object, and its parent a memory if it has one.
LEMMA CallType ==
  ASSUME TypeOK, NEW r \in Requests
  PROVE  /\ call[r].of \in Objects /\ parent(r) \in Memories \cup {"none"}
         /\ call[r].key \in Keys \cup {"none"}
         /\ call[r].op \in {"create", "update", "delete", "drop"}
  BY DEF TypeOK, Calls, parent, Objects

\* The statements that may follow the owner check.
LEMMA AfterOwnerIn ==
  ASSUME TypeOK, NEW r \in Requests
  PROVE  /\ AfterOwner(r) \in {"parent", "existing", "insert", "graphLock",
                               "update", "clear"}
         /\ AfterOwner(r) \in {"parent", "graphLock"} => parent(r) # "none"
  BY CallType DEF AfterOwner, Op

\* The statements that may follow a multi-row statement.
LEMMA AfterSweepIn ==
  ASSUME NEW r \in Requests, NEW sweep \in Sweeps
  PROVE  /\ AfterSweep(r, sweep) \in {"remove", "erase", "orphan", "committing",
                                      "dropTree"}
         /\ Taking[sweep] \in {"clearing", "erasing", "orphaning", "cascading"}
  BY DEF AfterSweep, Sweeps, Taking

\* A row whose parent is changed is a row, of the same tree and with the same key.
LEMMA Reparented ==
  ASSUME NEW row \in Rows, NEW p \in Memories \cup {"none"}
  PROVE  /\ [row EXCEPT !.parent = p] \in Rows
         /\ [row EXCEPT !.parent = p].tree = row.tree
         /\ [row EXCEPT !.parent = p].key = row.key
  BY DEF Rows

\* The names of all statements.
LEMMA StatementNames ==
  Statements = {"clear", "erase", "orphan", "cascade", "clearing", "erasing",
    "orphaning", "cascading", "rereadExisting", "rereadConflict",
    "rereadInserted", "owner", "parent", "existing", "insert", "reference",
    "graphLock", "source", "target", "ancestors", "update", "remove", "dropTree"}
  BY DEF Statements, Sweeps, Takings, Taking, Rereads

-----------------------------------------------------------------------------
(* Initial states.                                                         *)

\* The strengthened invariant holds initially.
LEMMA InitIInv == Init => IInv
  <1> SUFFICES ASSUME Init
               PROVE  IInv
    OBVIOUS
  <1>1. PICK forest \in Forests :
          rows = [o \in Objects |-> IF o \in Trees THEN TreeRow(o)
                                    ELSE IF o \in Seeds THEN forest[o] ELSE Absent]
    BY DEF Init
  <1>2. forest \in [Seeds -> Rows]
    BY MemoryForestAssumption
  <1>3. \A t \in Trees : TreeRow(t) \in Rows
    BY DEF TreeRow, Rows
  <1>4. /\ rows \in [Objects -> Rows \cup {Absent}]
        /\ \A r \in Requests : rows[r] = Absent
        /\ \A m \in Seeds : rows[m] = forest[m]
    BY <1>1, <1>2, <1>3, MemoryForestAssumption DEF Objects, Memories
  <1>5. /\ writes = [r \in Requests |-> Nothing]
        /\ \A r \in Requests, o \in Objects : writes[r][o] = Untouched
    BY DEF Init, Nothing
  <1>6. /\ pc = [r \in Requests |-> "owner"] /\ call \in [Requests -> Calls]
        /\ answer = [r \in Requests |-> "none"]
    BY MemoryForestAssumption DEF Init
  <1>7. TypeOK
    <2>1. writes \in [Requests -> [Objects -> Rows \cup {Absent, Untouched}]]
      BY <1>5 DEF Nothing
    <2>2. QED
      BY <1>4, <1>6, <2>1, StatementNames DEF Init, TypeOK, Idle, Nobody, Answers
  <1>8. InPlace /\ Unwritten /\ Exclusive /\ Born /\ KeepsKey /\ SharedStays
        /\ FoundStays /\ NeverMissing
    BY <1>4, <1>5, <1>6, Sorts
       DEF Init, InPlace, Unwritten, Early, Exclusive, Born, KeepsKey, SharedStays,
           FoundStays, NeverMissing, Nothing
  <1>9. KeyBelongsToOne
    <2> SUFFICES ASSUME NEW m \in Memories, NEW n \in Memories, NEW row \in Rows,
                        NEW other \in Rows, Version(m, row), Version(n, other),
                        row.key # "none", row.key = other.key,
                        row.tree = other.tree
                 PROVE  m = n
      BY DEF KeyBelongsToOne
    <2>1. row = rows[m] /\ other = rows[n]
      BY <1>5, Sorts DEF Version, Objects
    <2>2. m \in Seeds /\ n \in Seeds
      BY <1>4, <2>1, Sorts DEF Memories
    <2>3. QED
      BY <1>4, <2>1, <2>2, MemoryForestAssumption
  <1>10. QED
    BY <1>7, <1>8, <1>9 DEF IInv

-----------------------------------------------------------------------------
(* Types.                                                                  *)

\* Writing a row, or ending a transaction, keeps the types of rows and locks.
LEMMA WriteType ==
  ASSUME TypeOK, NEW r \in Requests, NEW o, NEW row \in Rows \cup {Absent},
         Write(r, o, row)
  PROVE  writes' \in [Requests -> [Objects -> Rows \cup {Absent, Untouched}]]
  BY DEF TypeOK, Write

\* Taking share locks keeps their type.
LEMMA ShareType ==
  ASSUME TypeOK, NEW r \in Requests, NEW os \in SUBSET Objects, Share(r, os)
  PROVE  shared' \in [Requests -> SUBSET Objects]
  BY DEF TypeOK, Share

\* Where a request may stand.
Places == Statements \cup {"committing", "committed", "aborting", "closed"}

\* Going to a statement keeps the type of pc.
LEMMA GoType ==
  ASSUME TypeOK, NEW r \in Requests, NEW statement \in Places, Go(r, statement)
  PROVE  pc' \in [Requests -> Places]
  BY DEF TypeOK, Go, Places

\* Refusing keeps the types of pc and of the answers.
LEMMA RefuseType ==
  ASSUME TypeOK, NEW r \in Requests, NEW code \in Answers, Refuse(r, code)
  PROVE  pc' \in [Requests -> Places] /\ answer' \in [Requests -> Answers]
  <1>1. Go(r, "aborting") /\ "aborting" \in Places
    BY DEF Refuse, Places
  <1>2. pc' \in [Requests -> Places]
    BY <1>1, GoType
  <1>3. QED
    BY <1>2 DEF TypeOK, Refuse

\* The end of a transaction keeps the types of rows and locks.
LEMMA ReleaseType ==
  ASSUME TypeOK, NEW r \in Requests, Release(r)
  PROVE  /\ writes' \in [Requests -> [Objects -> Rows \cup {Absent, Untouched}]]
         /\ shared' \in [Requests -> SUBSET Objects]
         /\ graph' \in [Trees -> Requests \cup {Nobody}]
  BY DEF TypeOK, Release, Nothing

\* Types are preserved by every step.
LEMMA NextTypeOK == IInv /\ [Next]_vars => TypeOK'
  <1> SUFFICES ASSUME IInv, [Next]_vars
               PROVE  TypeOK'
    OBVIOUS
  <1>a. TypeOK /\ InPlace
    BY DEF IInv
  <1>b. /\ {"parent", "existing", "insert", "graphLock", "update", "clear", "remove",
            "erase", "orphan", "dropTree", "cascade", "clearing", "erasing",
            "orphaning", "cascading", "rereadExisting", "rereadConflict",
            "rereadInserted", "reference", "source", "target", "ancestors"}
           \subseteq Statements
        /\ Statements \subseteq Places
        /\ {"committing", "committed", "aborting", "closed"} \subseteq Places
        /\ {"none", "refused", "conflict", "missing", "failed", "unknown", "success"}
           \subseteq Answers
    BY StatementNames DEF Places, Answers
  <1>c. \A r \in Requests : pc[r] \in Statements \ {"owner"} => home[r] \in Trees
    BY <1>a DEF InPlace
  <1>1. ASSUME NEW r \in Requests, ReadOwner(r)
        PROVE  TypeOK'
    <2>1. CASE Owned(r)
      <3>1. rows[call[r].of].tree \in Trees
        BY <1>a, <2>1, CallType DEF TypeOK, Owned, Rows
      <3>2. home' \in [Requests -> Trees \cup {"none"}]
        BY <1>a, <1>1, <2>1, <3>1 DEF TypeOK, ReadOwner
      <3>3. Go(r, AfterOwner(r)) /\ AfterOwner(r) \in Places
        BY <1>a, <1>b, <1>1, <2>1, AfterOwnerIn DEF ReadOwner
      <3>4. pc' \in [Requests -> Places]
        BY <1>a, <3>3, GoType
      <3>5. QED
        BY <1>a, <1>1, <2>1, <3>2, <3>4 DEF TypeOK, ReadOwner, Places, locks
    <2>2. CASE ~Owned(r)
      <3>1. pc' \in [Requests -> Places] /\ answer' \in [Requests -> Answers]
        BY <1>a, <1>b, <1>1, <2>2, RefuseType DEF ReadOwner
      <3>2. QED
        BY <1>a, <1>1, <2>2, <3>1 DEF TypeOK, ReadOwner, Places, locks
    <2>3. QED
      BY <2>1, <2>2
  <1>2. ASSUME NEW r \in Requests, LockParent(r)
        PROVE  TypeOK'
    <2>1. parent(r) \in Objects
      BY <1>a, <1>2, CallType DEF LockParent, InPlace, Objects, At
    <2>2. pc' \in [Requests -> Places] /\ answer' \in [Requests -> Answers]
      BY <1>a, <1>b, <1>2, GoType, RefuseType DEF TypeOK, LockParent
    <2>3. shared' \in [Requests -> SUBSET Objects]
      BY <1>a, <1>2, <2>1, ShareType DEF TypeOK, LockParent
    <2>4. QED
      BY <1>a, <1>2, <2>1, <2>2, <2>3 DEF TypeOK, Places, LockParent
  <1>3. ASSUME NEW r \in Requests, FindExisting(r)
        PROVE  TypeOK'
    <2>1. pc' \in [Requests -> Places] /\ answer' \in [Requests -> Answers]
      BY <1>a, <1>b, <1>3, GoType, RefuseType DEF TypeOK, FindExisting
    <2>2. shared' \in [Requests -> SUBSET Objects]
      BY <1>a, <1>3, ShareType DEF FindExisting, Objects
    <2>3. QED
      BY <1>a, <1>3, <2>1, <2>2 DEF TypeOK, Places, FindExisting
  <1>4. ASSUME NEW r \in Requests, Insert(r)
        PROVE  TypeOK'
    <2>1. NewRow(r) \in Rows
      BY <1>a, <1>b, <1>c, <1>4, CallType DEF Insert, NewRow, Rows, At
    <2>2. pc' \in [Requests -> Places] /\ answer' \in [Requests -> Answers]
      BY <1>a, <1>b, <1>4, GoType, RefuseType DEF TypeOK, Insert
    <2>3. Write(r, r, NewRow(r)) \/ writes' = writes
      BY <1>4 DEF Insert
    <2>4. writes' \in [Requests -> [Objects -> Rows \cup {Absent, Untouched}]]
      BY <1>a, <2>1, <2>3, WriteType DEF TypeOK
    <2>5. QED
      BY <1>a, <1>4, <2>1, <2>2, <2>3, <2>4 DEF TypeOK, Places, Insert
  <1>5. ASSUME NEW r \in Requests, CheckReferences(r)
        PROVE  TypeOK'
    <2>1. Referenced(r) \subseteq Objects
      BY <1>a, <1>b, <1>c, <1>5, CallType DEF CheckReferences, Referenced, Objects, At
    <2>2. pc' \in [Requests -> Places] /\ answer' \in [Requests -> Answers]
      BY <1>a, <1>b, <1>5, GoType, RefuseType DEF TypeOK, CheckReferences
    <2>3. shared' \in [Requests -> SUBSET Objects]
      BY <1>a, <1>5, <2>1, ShareType DEF TypeOK, CheckReferences
    <2>4. QED
      BY <1>a, <1>5, <2>1, <2>2, <2>3 DEF TypeOK, Places, CheckReferences
  <1>6. ASSUME NEW r \in Requests, Reread(r)
        PROVE  TypeOK'
    <2>1. pc' \in [Requests -> Places] /\ answer' \in [Requests -> Answers]
      BY <1>a, <1>b, <1>6, GoType, RefuseType DEF TypeOK, Reread
    <2>2. result' \in [Requests -> Memories \cup {"none"}]
      <3>1. \/ result' = result
            \/ \E m \in Memories : result' = [result EXCEPT ![r] = m]
        <4>1. CASE At(r, "rereadInserted")
          BY <1>6, <4>1 DEF Reread, Memories
        <4>2. CASE ~At(r, "rereadInserted")
          BY <1>6, <4>2 DEF Reread
        <4>3. QED
          BY <4>1, <4>2
      <3>2. QED
        BY <1>a, <3>1 DEF TypeOK
    <2>3. QED
      BY <1>a, <1>6, <2>1, <2>2 DEF TypeOK, Places, Reread, locks
  <1>7. ASSUME NEW r \in Requests, TakeGraphLock(r) \/ ReadSource(r)
        PROVE  TypeOK'
    <2>1. pc' \in [Requests -> Places] /\ answer' \in [Requests -> Answers]
      BY <1>a, <1>b, <1>7, GoType, RefuseType DEF TypeOK, TakeGraphLock, ReadSource
    <2>2. graph' \in [Trees -> Requests \cup {Nobody}]
      <3>1. graph' = graph \/ graph' = [graph EXCEPT ![home[r]] = r]
        BY <1>7 DEF TakeGraphLock, ReadSource, locks
      <3>2. QED
        BY <1>a, <3>1 DEF TypeOK
    <2>3. QED
      BY <1>a, <1>7, <2>1, <2>2 DEF TypeOK, Places, TakeGraphLock, ReadSource, locks
  <1>8. ASSUME NEW r \in Requests, ReadTarget(r)
        PROVE  TypeOK'
    <2>1. pc' \in [Requests -> Places] /\ answer' \in [Requests -> Answers]
      BY <1>a, <1>b, <1>8, GoType, RefuseType DEF TypeOK, ReadTarget
    <2>2. walk' \in [Requests -> [at : Memories \cup {"none"}, seen : SUBSET Memories]]
      <3>1. parent(r) \in Memories
        BY <1>a, <1>8, CallType DEF InPlace, ReadTarget, At
      <3>2. walk' = walk \/ walk' = [walk EXCEPT ![r].at = parent(r)]
        BY <1>8 DEF ReadTarget
      <3>3. [walk[r] EXCEPT !.at = parent(r)] \in
              [at : Memories \cup {"none"}, seen : SUBSET Memories]
        <4>1. walk[r] \in [at : Memories \cup {"none"}, seen : SUBSET Memories]
          BY <1>a DEF TypeOK
        <4>2. QED
          BY <3>1, <4>1
      <3>4. QED
        BY <1>a, <3>2, <3>3 DEF TypeOK
    <2>3. QED
      BY <1>a, <1>8, <2>1, <2>2 DEF TypeOK, Places, ReadTarget, locks
  <1>9. ASSUME NEW r \in Requests, ReadAncestor(r)
        PROVE  TypeOK'
    <2>1. walk[r].at \in Memories /\ walk[r].seen \in SUBSET Memories
      BY <1>a, <1>9 DEF TypeOK, ReadAncestor, InPlace, At
    <2>2. rows[walk[r].at].parent \in Memories \cup {"none"}
      BY <1>a, <2>1 DEF TypeOK, Objects, Rows, Absent
    <2>3. pc' \in [Requests -> Places] /\ answer' \in [Requests -> Answers]
      BY <1>a, <1>b, <1>9, GoType, RefuseType DEF TypeOK, ReadAncestor, Places
    <2>4. walk' \in [Requests -> [at : Memories \cup {"none"}, seen : SUBSET Memories]]
      <3>1. \/ walk' = [walk EXCEPT ![r] = Idle]
            \/ rows[walk[r].at].parent # "none" /\
               walk' = [walk EXCEPT ![r] =
                 [at |-> rows[walk[r].at].parent, seen |-> @.seen \cup {walk[r].at}]]
        BY <1>9 DEF ReadAncestor
      <3>2. /\ [at |-> rows[walk[r].at].parent,
                seen |-> walk[r].seen \cup {walk[r].at}] \in
                  [at : Memories \cup {"none"}, seen : SUBSET Memories]
            /\ Idle \in [at : Memories \cup {"none"}, seen : SUBSET Memories]
        BY <2>1, <2>2 DEF Idle
      <3>3. \E there \in [at : Memories \cup {"none"}, seen : SUBSET Memories] :
              walk' = [walk EXCEPT ![r] = there]
        BY <3>1, <3>2
      <3>4. QED
        BY <1>a, <3>3 DEF TypeOK
    <2>5. QED
      BY <1>a, <1>9, <2>1, <2>2, <2>3, <2>4 DEF TypeOK, Places, ReadAncestor, locks
  <1>10. ASSUME NEW r \in Requests, Update(r)
        PROVE  TypeOK'
    <2>1. rows[call[r].of] # Absent =>
            [rows[call[r].of] EXCEPT !.parent = parent(r)] \in Rows
      <3>1. rows[call[r].of] \in Rows \cup {Absent}
        BY <1>a, CallType DEF TypeOK
      <3>2. QED
        BY <1>a, <3>1, CallType, Reparented
    <2>2. pc' \in [Requests -> Places] /\ answer' \in [Requests -> Answers]
      BY <1>a, <1>b, <1>10, GoType, RefuseType DEF TypeOK, Update
    <2>3. writes' \in [Requests -> [Objects -> Rows \cup {Absent, Untouched}]]
      BY <1>a, <1>10, <2>1, WriteType DEF TypeOK, Update
    <2>4. QED
      BY <1>a, <1>10, <2>1, <2>2, <2>3 DEF TypeOK, Places, Update
  <1>11. ASSUME NEW r \in Requests, NEW sweep \in Sweeps, Scan(r, sweep)
        PROVE  TypeOK'
    <2>1. pc' \in [Requests -> Places] /\ answer' \in [Requests -> Answers]
      BY <1>a, <1>b, <1>11, GoType, RefuseType, AfterSweepIn DEF TypeOK, Scan
    <2>2. todo' \in [Requests -> SUBSET Memories]
      BY <1>a, <1>11 DEF TypeOK, Scan
    <2>3. QED
      BY <1>a, <1>11, <2>1, <2>2 DEF TypeOK, Places, Scan, locks
  <1>12. ASSUME NEW r \in Requests, NEW sweep \in Sweeps, NEW m \in Memories,
               Take(r, sweep, m)
        PROVE  TypeOK'
    <2>1. Qualifies(r, sweep, m) => [Seen(r, m) EXCEPT !.parent = "none"] \in Rows
      BY <1>a, SeenType DEF Qualifies, Rows, Objects
    <2>2. pc' \in [Requests -> Places] /\ answer' \in [Requests -> Answers]
      BY <1>a, <1>b, <1>12, GoType, RefuseType, AfterSweepIn DEF TypeOK, Take
    <2>3. writes' \in [Requests -> [Objects -> Rows \cup {Absent, Untouched}]]
      BY <1>a, <1>12, <2>1, WriteType DEF TypeOK, Take
    <2>4. todo' \in [Requests -> SUBSET Memories]
      BY <1>a, <1>12 DEF TypeOK, Take
    <2>5. QED
      BY <1>a, <1>12, <2>1, <2>2, <2>3, <2>4 DEF TypeOK, Places, Take
  <1>13. ASSUME NEW r \in Requests, NEW o, NEW next \in {"orphan", "cascade"},
                Delete(r, o, next)
        PROVE  TypeOK'
    <2>1. pc' \in [Requests -> Places] /\ answer' \in [Requests -> Answers]
      BY <1>a, <1>b, <1>13, GoType, RefuseType DEF TypeOK, Delete
    <2>2. writes' \in [Requests -> [Objects -> Rows \cup {Absent, Untouched}]]
      BY <1>a, <1>13, WriteType DEF TypeOK, Delete
    <2>3. QED
      BY <1>a, <1>13, <2>1, <2>2 DEF TypeOK, Places, Delete
  <1>14. ASSUME NEW r \in Requests, CommitDurable(r)
        PROVE  TypeOK'
    <2>1. rows' \in [Objects -> Rows \cup {Absent}]
      BY <1>a, <1>14, SeenType DEF CommitDurable
    <2>2. pc' \in [Requests -> Places] /\ answer' \in [Requests -> Answers]
      BY <1>a, <1>b, <1>14, GoType, RefuseType DEF TypeOK, CommitDurable
    <2>3. QED
      BY <1>a, <1>14, <2>1, <2>2, ReleaseType DEF TypeOK, Places, CommitDurable
  <1>15. ASSUME NEW r \in Requests, CommitLost(r) \/ Discard(r)
        PROVE  TypeOK'
    <2>1. pc' \in [Requests -> Places] /\ answer' \in [Requests -> Answers]
      BY <1>a, <1>b, <1>15, GoType, RefuseType DEF TypeOK, CommitLost, Discard
    <2>2. todo' \in [Requests -> SUBSET Memories]
      BY <1>a, <1>15 DEF TypeOK, CommitLost, Discard
    <2>3. QED
      BY <1>a, <1>15, <2>1, <2>2, ReleaseType DEF TypeOK, Places, CommitLost, Discard
  <1>16. ASSUME NEW r \in Requests, AnswerUnknown(r) \/ Acknowledge(r)
        PROVE  TypeOK'
    <2>1. pc' \in [Requests -> Places]
      <3>1. pc' = pc \/ Go(r, "closed")
        BY <1>16 DEF AnswerUnknown, Acknowledge
      <3>2. QED
        BY <1>a, <1>b, <3>1, GoType DEF TypeOK, Places
    <2>2. answer' \in [Requests -> Answers]
      <3>1. \E code \in {"success", "unknown"} : answer' = [answer EXCEPT ![r] = code]
        BY <1>16 DEF AnswerUnknown, Acknowledge
      <3>2. QED
        BY <1>a, <1>b, <3>1 DEF TypeOK
    <2>3. QED
      BY <1>a, <1>16, <2>1, <2>2 DEF TypeOK, Places, AnswerUnknown, Acknowledge, locks
  <1>17. ASSUME NEW r \in Requests, Fail(r)
        PROVE  TypeOK'
    <2>1. pc' \in [Requests -> Places] /\ answer' \in [Requests -> Answers]
      BY <1>a, <1>b, <1>17, RefuseType DEF Fail
    <2>2. walk' \in [Requests -> [at : Memories \cup {"none"}, seen : SUBSET Memories]]
      BY <1>a, <1>17 DEF TypeOK, Fail, Idle
    <2>3. QED
      BY <1>a, <1>17, <2>1, <2>2 DEF TypeOK, Places, Fail, locks
  <1>18. CASE Finished \/ UNCHANGED vars
    BY <1>a, <1>18 DEF TypeOK, Finished, vars, locks
  <1>19. QED
    BY <1>1, <1>2, <1>3, <1>4, <1>5, <1>6, <1>7, <1>8, <1>9, <1>10, <1>11, <1>12, <1>13,
       <1>14, <1>15, <1>16, <1>17,
       <1>18 DEF Next, RemoveMemory, DropTree

-----------------------------------------------------------------------------
(* What the step of one request does to rows and locks.                    *)

Step(r) ==
  \/ ReadOwner(r)
  \/ LockParent(r) \/ FindExisting(r) \/ Insert(r) \/ CheckReferences(r)
  \/ Reread(r)
  \/ TakeGraphLock(r) \/ ReadSource(r) \/ ReadTarget(r) \/ ReadAncestor(r)
  \/ Update(r)
  \/ \E sweep \in Sweeps :
       Scan(r, sweep) \/ \E m \in Memories : Take(r, sweep, m)
  \/ RemoveMemory(r) \/ DropTree(r)
  \/ CommitDurable(r) \/ CommitLost(r) \/ AnswerUnknown(r) \/ Acknowledge(r)
  \/ Fail(r) \/ Discard(r)

\* The state of one request.
State(r) ==
  <<pc[r], answer[r], home[r], walk[r], writes[r], shared[r], todo[r], result[r]>>

\* It writes its own row, and no version of another memory has the same key.
Creates(r) ==
  /\ pc[r] = "insert" /\ Write(r, r, NewRow(r))
  /\ call[r].key # "none" =>
       /\ \A m \in Memories : ~Bound(r, rows[m])
       /\ \A q \in Requests \ {r}, m \in Memories :
            writes[q][m] # Untouched => ~Bound(r, writes[q][m])

\* It deletes a row that nobody locks, or changes the parent of one.
Rewrites(r, o) ==
  /\ Seen(r, o) # Absent /\ NoWriter(r, o)
  /\ \/ Write(r, o, Absent) /\ NoSharer(r, o)
     \/ \E p \in Memories \cup {"none"} : Write(r, o, [Seen(r, o) EXCEPT !.parent = p])

\* It locks living rows that nobody deletes.
Locks(r) ==
  \E os \in SUBSET Objects :
    /\ Share(r, os)
    /\ \A o \in os : rows[o] # Absent /\ NoDeleter(r, o)

Commits(r) == pc[r] = "committing" /\ rows' = [o \in Objects |-> Seen(r, o)]

Effect(r) ==
  \/ UNCHANGED <<rows, writes, shared>>
  \/ Creates(r) /\ UNCHANGED <<rows, shared>>
  \/ (\E o \in Objects : Rewrites(r, o)) /\ UNCHANGED <<rows, shared>>
  \/ Locks(r) /\ UNCHANGED <<rows, writes>>
  \/ Release(r) /\ (Commits(r) \/ UNCHANGED rows)

\* A request moves alone: nobody's call changes, nor the state of another request.
LEMMA StepAlone ==
  ASSUME TypeOK, NEW r \in Requests, Step(r)
  PROVE  call' = call /\ \A q \in Requests \ {r} : State(q)' = State(q)
  <1> USE DEF State, Go, Refuse, Share, Write, Release, locks
  <1>1. CASE ReadOwner(r)
    BY <1>1 DEF TypeOK, ReadOwner
  <1>2. CASE LockParent(r)
    BY <1>2 DEF TypeOK, LockParent
  <1>3. CASE FindExisting(r)
    BY <1>3 DEF TypeOK, FindExisting
  <1>4. CASE Insert(r)
    BY <1>4 DEF TypeOK, Insert
  <1>5. CASE CheckReferences(r)
    BY <1>5 DEF TypeOK, CheckReferences
  <1>6. CASE Reread(r)
    BY <1>6 DEF TypeOK, Reread
  <1>7. CASE TakeGraphLock(r) \/ ReadSource(r)
    BY <1>7 DEF TypeOK, TakeGraphLock, ReadSource
  <1>8. CASE ReadTarget(r)
    BY <1>8 DEF TypeOK, ReadTarget
  <1>9. CASE ReadAncestor(r)
    BY <1>9 DEF TypeOK, ReadAncestor
  <1>10. CASE Update(r)
    BY <1>10 DEF TypeOK, Update
  <1>11. ASSUME NEW sweep \in Sweeps, Scan(r, sweep)
         PROVE  call' = call /\ \A q \in Requests \ {r} : State(q)' = State(q)
    BY <1>11 DEF TypeOK, Scan
  <1>12. ASSUME NEW sweep \in Sweeps, NEW m \in Memories, Take(r, sweep, m)
         PROVE  call' = call /\ \A q \in Requests \ {r} : State(q)' = State(q)
    BY <1>12 DEF TypeOK, Take
  <1>13. CASE RemoveMemory(r) \/ DropTree(r)
    BY <1>13 DEF TypeOK, RemoveMemory, DropTree, Delete
  <1>14. CASE CommitDurable(r)
    BY <1>14 DEF TypeOK, CommitDurable
  <1>15. CASE CommitLost(r) \/ Discard(r)
    BY <1>15 DEF TypeOK, CommitLost, Discard
  <1>16. CASE AnswerUnknown(r) \/ Acknowledge(r)
    BY <1>16 DEF TypeOK, AnswerUnknown, Acknowledge
  <1>17. CASE Fail(r)
    BY <1>17 DEF TypeOK, Fail
  <1>18. QED
    BY <1>1, <1>2, <1>3, <1>4, <1>5, <1>6, <1>7, <1>8, <1>9, <1>10, <1>11, <1>12,
       <1>13, <1>14, <1>15, <1>16, <1>17 DEF Step

\* What each statement does to rows and locks.
LEMMA StepEffect ==
  ASSUME IInv, NEW r \in Requests, Step(r)
  PROVE  Effect(r)
  <1>a. TypeOK /\ InPlace /\ Unwritten
    BY DEF IInv
  <1>1. CASE \/ ReadOwner(r) \/ Reread(r) \/ TakeGraphLock(r) \/ ReadSource(r)
             \/ ReadTarget(r) \/ ReadAncestor(r) \/ AnswerUnknown(r)
             \/ Acknowledge(r) \/ Fail(r)
    BY <1>1 DEF Effect, locks, ReadOwner, Reread, TakeGraphLock, ReadSource, ReadTarget,
                ReadAncestor, AnswerUnknown, Acknowledge, Fail
  <1>2. CASE LockParent(r)
    <2>1. parent(r) \in Objects
      BY <1>a, <1>2, CallType DEF LockParent, InPlace, Objects, At
    <2>2. Locks(r) \/ UNCHANGED shared
      BY <1>2, <2>1 DEF LockParent, Locks
    <2>3. QED
      BY <1>2, <2>2 DEF LockParent, Effect
  <1>3. CASE FindExisting(r)
    <2> DEFINE found == {m \in Memories : Bound(r, rows[m])}
    <2>1. home[r] \in Trees
      BY <1>a, <1>3, StatementNames DEF FindExisting, InPlace, At
    <2>2. \A m \in found : m \in Objects /\ rows[m] # Absent /\ NoDeleter(r, m)
      BY <1>3, <2>1, MemoryForestAssumption DEF FindExisting, Bound, Absent, Objects
    <2>3. Locks(r)
      BY <1>3, <2>2 DEF FindExisting, Locks
    <2>4. QED
      BY <1>3, <2>3 DEF FindExisting, Effect
  <1>4. CASE Insert(r)
    <2>1. UNCHANGED writes \/ Creates(r)
      BY <1>4 DEF Insert, Creates, At
    <2>2. QED
      BY <1>4, <2>1 DEF Insert, Effect
  <1>5. CASE CheckReferences(r)
    <2>1. Referenced(r) \subseteq Objects
      BY <1>a, <1>5, CallType, StatementNames
         DEF CheckReferences, InPlace, Referenced, Objects, At
    <2>2. Locks(r) \/ UNCHANGED shared
      BY <1>5, <2>1 DEF CheckReferences, Locks
    <2>3. QED
      BY <1>5, <2>2 DEF CheckReferences, Effect
  <1>6. CASE Update(r)
    <2> DEFINE m == call[r].of
    <2>1. m \in Objects /\ parent(r) \in Memories \cup {"none"}
      BY <1>a, CallType
    <2>2. Seen(r, m) = rows[m]
      BY <1>a, <1>6, <2>1 DEF Unwritten, Early, Update, At, Seen, Nothing
    <2>3. UNCHANGED writes \/ Rewrites(r, m)
      BY <1>6, <2>1, <2>2 DEF Update, Rewrites
    <2>4. QED
      BY <1>6, <2>1, <2>3 DEF Update, Effect
  <1>7. ASSUME NEW sweep \in Sweeps, Scan(r, sweep)
        PROVE  Effect(r)
    BY <1>7 DEF Scan, Effect, locks
  <1>8. ASSUME NEW sweep \in Sweeps, NEW m \in Memories, Take(r, sweep, m)
        PROVE  Effect(r)
    <2>1. Qualifies(r, sweep, m) => Seen(r, m) # Absent
      BY DEF Qualifies
    <2>2. UNCHANGED writes \/ Rewrites(r, m)
      BY <1>8, <2>1 DEF Take, Rewrites
    <2>3. QED
      BY <1>8, <2>2 DEF Take, Effect, Objects
  <1>9. CASE RemoveMemory(r) \/ DropTree(r)
    <2>1. PICK o, next : Delete(r, o, next) /\ o \in Objects
      BY <1>a, <1>9, CallType, StatementNames
         DEF RemoveMemory, DropTree, InPlace, At, Objects
    <2>2. UNCHANGED writes \/ Rewrites(r, o)
      BY <2>1 DEF Delete, Rewrites
    <2>3. QED
      BY <2>1, <2>2 DEF Delete, Effect
  <1>10. CASE CommitDurable(r) \/ CommitLost(r) \/ Discard(r)
    BY <1>10 DEF CommitDurable, CommitLost, Discard, Effect, Commits, At
  <1>11. QED
    BY <1>1, <1>2, <1>3, <1>4, <1>5, <1>6, <1>7, <1>8, <1>9, <1>10 DEF Step

-----------------------------------------------------------------------------
(* Row versions.                                                           *)

\* The cell that a statement writes, and the cells it leaves alone.
LEMMA WriteCells ==
  ASSUME TypeOK, NEW r \in Requests, NEW o \in Objects, NEW row, Write(r, o, row)
  PROVE  /\ writes'[r][o] = row
         /\ \A q \in Requests, x \in Objects :
              ~(q = r /\ x = o) => writes'[q][x] = writes[q][x]
  BY DEF TypeOK, Write

\* The end of a transaction leaves the rows the others wrote.
LEMMA ReleaseCells ==
  ASSUME TypeOK, NEW r \in Requests, Release(r)
  PROVE  /\ \A x \in Objects : writes'[r][x] = Untouched
         /\ \A q \in Requests \ {r}, x \in Objects : writes'[q][x] = writes[q][x]
         /\ shared'[r] = {} /\ \A q \in Requests \ {r} : shared'[q] = shared[q]
  BY DEF TypeOK, Release, Nothing

\* The row a reparenting or a sweep writes keeps the tree and the key.
LEMMA RewriteCells ==
  ASSUME TypeOK, NEW r \in Requests, NEW o \in Objects, Rewrites(r, o)
  PROVE  /\ \A q \in Requests, x \in Objects :
              ~(q = r /\ x = o) => writes'[q][x] = writes[q][x]
         /\ Seen(r, o) \in Rows
         /\ \/ writes'[r][o] = Absent /\ NoSharer(r, o)
            \/ /\ writes'[r][o] \in Rows
               /\ writes'[r][o].tree = Seen(r, o).tree
               /\ writes'[r][o].key = Seen(r, o).key
  <1>1. Seen(r, o) \in Rows
    BY SeenType DEF Rewrites
  <1>2. CASE Write(r, o, Absent) /\ NoSharer(r, o)
    BY <1>1, <1>2, WriteCells
  <1>3. ASSUME NEW p \in Memories \cup {"none"},
               Write(r, o, [Seen(r, o) EXCEPT !.parent = p])
        PROVE  /\ \A q \in Requests, x \in Objects :
                    ~(q = r /\ x = o) => writes'[q][x] = writes[q][x]
               /\ writes'[r][o] \in Rows
               /\ writes'[r][o].tree = Seen(r, o).tree
               /\ writes'[r][o].key = Seen(r, o).key
    <2>1. writes'[r][o] = [Seen(r, o) EXCEPT !.parent = p]
      BY <1>3, WriteCells
    <2>2. \A q \in Requests, x \in Objects :
            ~(q = r /\ x = o) => writes'[q][x] = writes[q][x]
      BY <1>3, WriteCells
    <2>3. QED
      BY <1>1, <2>1, <2>2, Reparented
  <1>4. QED
    BY <1>1, <1>2, <1>3 DEF Rewrites

\* The row that a creation is about to write is neither there nor written.
LEMMA OwnRowFree ==
  ASSUME IInv, NEW r \in Requests, Creates(r)
  PROVE  /\ r \in Objects /\ rows[r] = Absent
         /\ \A q \in Requests : writes[q][r] = Untouched
         /\ NewRow(r) \in Rows
         /\ writes'[r][r] = NewRow(r)
         /\ \A q \in Requests, x \in Objects :
              ~(q = r /\ x = r) => writes'[q][x] = writes[q][x]
  <1>1. TypeOK /\ InPlace /\ Unwritten /\ Exclusive /\ Born /\ pc[r] = "insert"
    BY DEF IInv, Creates
  <1>2. r \in Objects /\ rows[r] = Absent
    BY <1>1 DEF Born, Objects, Memories
  <1>3. \A q \in Requests : writes[q][r] = Untouched
    BY <1>1, <1>2 DEF Exclusive, Unwritten, Early, Nothing
  <1>4. NewRow(r) \in Rows
    BY <1>1, CallType, StatementNames DEF InPlace, NewRow, Rows
  <1>5. QED
    BY <1>1, <1>2, <1>3, <1>4, WriteCells DEF Creates

\* A commit changes only rows that nobody else wrote.
LEMMA CommitCells ==
  ASSUME IInv, NEW r \in Requests, Commits(r), NEW o \in Objects
  PROVE  /\ rows'[o] = Seen(r, o)
         /\ \A q \in Requests \ {r} : writes[q][o] # Untouched => rows'[o] = rows[o]
  BY DEF IInv, Exclusive, Commits, Seen

\* Write locks stay exclusive.
LEMMA ExclusiveStep ==
  ASSUME IInv, NEW r \in Requests, Effect(r)
  PROVE  Exclusive'
  <1>a. TypeOK /\ Exclusive
    BY DEF IInv
  <1> SUFFICES ASSUME NEW w \in Requests, NEW q \in Requests, NEW x \in Objects,
                      writes'[w][x] # Untouched
               PROVE  /\ q # w => writes'[q][x] = Untouched
                      /\ rows'[x] # Absent \/ x = w
    BY DEF Exclusive
  <1>1. CASE UNCHANGED <<rows, writes>>
    BY <1>a, <1>1 DEF Exclusive
  <1>2. CASE Creates(r) /\ UNCHANGED rows
    BY <1>a, <1>2, OwnRowFree DEF Exclusive
  <1>3. ASSUME NEW o \in Objects, Rewrites(r, o), UNCHANGED rows
        PROVE  /\ q # w => writes'[q][x] = Untouched
               /\ rows'[x] # Absent \/ x = w
    <2>1. \A p \in Requests \ {r} : writes[p][o] = Untouched
      BY <1>3 DEF Rewrites, NoWriter
    <2>2. rows[o] # Absent \/ o = r
      BY <1>a, <1>3 DEF Rewrites, Seen, Exclusive
    <2>3. QED
      BY <1>a, <1>3, <2>1, <2>2, RewriteCells DEF Exclusive
  <1>4. CASE Release(r)
    <2>1. w # r /\ writes[w][x] # Untouched
      BY <1>a, <1>4, ReleaseCells
    <2>2. rows'[x] = rows[x]
      BY <1>4, <2>1, CommitCells DEF Effect
    <2>3. QED
      BY <1>a, <1>4, <2>1, <2>2, ReleaseCells DEF Exclusive
  <1>5. QED
    BY <1>1, <1>2, <1>3, <1>4 DEF Effect

\* No version of a living row has another tree or another key.
LEMMA KeepsKeyStep ==
  ASSUME IInv, NEW r \in Requests, Effect(r)
  PROVE  KeepsKey'
  <1>a. TypeOK /\ KeepsKey
    BY DEF IInv
  <1> SUFFICES ASSUME NEW w \in Requests, NEW x \in Objects,
                      writes'[w][x] \in Rows, rows'[x] # Absent
               PROVE  writes'[w][x].tree = rows'[x].tree
                      /\ writes'[w][x].key = rows'[x].key
    BY DEF KeepsKey
  <1>1. CASE UNCHANGED <<rows, writes>>
    BY <1>a, <1>1 DEF KeepsKey
  <1>2. CASE Creates(r) /\ UNCHANGED rows
    BY <1>a, <1>2, OwnRowFree DEF KeepsKey
  <1>3. ASSUME NEW o \in Objects, Rewrites(r, o), UNCHANGED rows
        PROVE  writes'[w][x].tree = rows'[x].tree
               /\ writes'[w][x].key = rows'[x].key
    <2>1. CASE w = r /\ x = o
      <3>1. /\ writes'[w][x].tree = Seen(w, x).tree
            /\ writes'[w][x].key = Seen(w, x).key
        BY <1>a, <1>3, <2>1, RewriteCells, Sorts
      <3>2. Seen(w, x) = rows[x] \/ (Seen(w, x) = writes[w][x] /\ Seen(w, x) \in Rows)
        BY <1>a, <1>3, <2>1, RewriteCells DEF Seen
      <3>3. QED
        BY <1>a, <1>3, <3>1, <3>2 DEF KeepsKey
    <2>2. CASE ~(w = r /\ x = o)
      BY <1>a, <1>3, <2>2, RewriteCells DEF KeepsKey
    <2>3. QED
      BY <2>1, <2>2
  <1>4. CASE Release(r)
    <2>1. w # r /\ writes[w][x] = writes'[w][x]
      BY <1>a, <1>4, ReleaseCells, Sorts
    <2>2. rows'[x] = rows[x]
      BY <1>4, <2>1, CommitCells, Sorts DEF Effect
    <2>3. QED
      BY <1>a, <2>1, <2>2 DEF KeepsKey
  <1>5. QED
    BY <1>1, <1>2, <1>3, <1>4 DEF Effect

\* A row locked FOR KEY SHARE stays: nobody deletes it before the lock is released.
LEMMA SharedStaysStep ==
  ASSUME IInv, NEW r \in Requests, Effect(r),
         \A q \in Requests \ {r} : shared'[q] = shared[q]
  PROVE  SharedStays'
  <1>a. TypeOK /\ SharedStays
    BY DEF IInv
  <1> SUFFICES ASSUME NEW w \in Requests, NEW x \in shared'[w]
               PROVE  rows'[x] # Absent
                      /\ \A q \in Requests \ {w} : writes'[q][x] # Absent
    BY DEF SharedStays
  <1>1. CASE UNCHANGED <<rows, writes, shared>>
    BY <1>a, <1>1 DEF SharedStays
  <1>2. CASE Creates(r) /\ UNCHANGED <<rows, shared>>
    BY <1>a, <1>2, OwnRowFree, Sorts DEF SharedStays, TypeOK
  <1>3. ASSUME NEW o \in Objects, Rewrites(r, o), UNCHANGED <<rows, shared>>
        PROVE  rows'[x] # Absent
               /\ \A q \in Requests \ {w} : writes'[q][x] # Absent
    <2>1. x \in Objects /\ x \in shared[w]
      BY <1>a, <1>3 DEF TypeOK
    <2>2. QED
      BY <1>a, <1>3, <2>1, RewriteCells, Sorts DEF SharedStays, NoSharer
  <1>4. CASE Locks(r) /\ UNCHANGED <<rows, writes>>
    BY <1>a, <1>4 DEF SharedStays, Locks, Share, NoDeleter, TypeOK
  <1>5. CASE Release(r) /\ (Commits(r) \/ UNCHANGED rows)
    <2>1. w # r /\ x \in shared[w] /\ x \in Objects
      BY <1>a, <1>5, ReleaseCells DEF TypeOK
    <2>2. rows[x] # Absent /\ writes[r][x] # Absent
      BY <1>a, <2>1 DEF SharedStays
    <2>3. rows'[x] # Absent
      BY <1>5, <2>1, <2>2, CommitCells DEF Seen
    <2>4. QED
      BY <1>a, <1>5, <2>1, <2>3, ReleaseCells, Sorts DEF SharedStays
  <1>6. QED
    BY <1>1, <1>2, <1>3, <1>4, <1>5 DEF Effect

\* Every version has the tree and the key of an earlier version of its memory, unless
\* it is the row of a creation whose key no other memory had.
LEMMA VersionStep ==
  ASSUME IInv, NEW r \in Requests, Effect(r),
         NEW m \in Memories, NEW row \in Rows, Version(m, row)'
  PROVE  \/ \E old \in Rows : Version(m, old) /\ old.tree = row.tree /\ old.key = row.key
         \/ Creates(r) /\ m = r /\ row = NewRow(r)
  <1>a. TypeOK /\ m \in Objects
    BY DEF IInv, Objects
  <1>b. row = rows'[m] \/ \E q \in Requests : row = writes'[q][m]
    BY DEF Version
  <1>1. CASE UNCHANGED <<rows, writes>>
    BY <1>b, <1>1 DEF Version
  <1>2. CASE Creates(r) /\ UNCHANGED rows
    BY <1>a, <1>b, <1>2, OwnRowFree DEF Version
  <1>3. ASSUME NEW o \in Objects, Rewrites(r, o), UNCHANGED rows
        PROVE  \E old \in Rows : Version(m, old) /\ old.tree = row.tree
                                 /\ old.key = row.key
    <2>1. CASE row = rows'[m]
      BY <1>3, <2>1 DEF Version
    <2>2. ASSUME NEW q \in Requests, row = writes'[q][m], ~(q = r /\ m = o)
          PROVE  Version(m, row)
      BY <1>a, <1>3, <2>2, RewriteCells DEF Version
    <2>3. CASE row = writes'[r][m] /\ m = o
      <3>1. Version(m, Seen(r, m)) /\ Seen(r, m) \in Rows
        BY <1>a, <1>3, <2>3, RewriteCells DEF Version, Seen
      <3>2. row.tree = Seen(r, m).tree /\ row.key = Seen(r, m).key
        BY <1>a, <1>3, <2>3, RewriteCells, Sorts
      <3>3. QED
        BY <3>1, <3>2
    <2>4. QED
      BY <1>b, <2>1, <2>2, <2>3
  <1>4. CASE Release(r) /\ (Commits(r) \/ UNCHANGED rows)
    <2>1. CASE row = rows'[m]
      BY <1>a, <1>4, <2>1, CommitCells DEF Version, Seen
    <2>2. ASSUME NEW q \in Requests, row = writes'[q][m]
          PROVE  Version(m, row)
      BY <1>a, <1>4, <2>2, ReleaseCells, Sorts DEF Version
    <2>3. QED
      BY <1>b, <2>1, <2>2
  <1>5. QED
    BY <1>1, <1>2, <1>3, <1>4 DEF Effect

\* No version of any memory has the key that a creation is about to bind.
LEMMA FreshKey ==
  ASSUME IInv, NEW r \in Requests, Creates(r), call[r].key # "none",
         NEW n \in Memories, NEW other \in Rows, Version(n, other)
  PROVE  ~(other.tree = home[r] /\ other.key = call[r].key)
  <1>1. writes[r][n] = Untouched
    BY DEF IInv, Unwritten, Early, Creates, Nothing, Objects
  <1>2. CASE other = rows[n]
    BY <1>2 DEF Creates, Bound
  <1>3. ASSUME NEW q \in Requests, other = writes[q][n]
        PROVE  ~(other.tree = home[r] /\ other.key = call[r].key)
    BY <1>1, <1>3, Sorts DEF Creates, Bound
  <1>4. QED
    BY <1>2, <1>3 DEF Version

\* A key of a tree keeps belonging to one memory.
LEMMA KeyBelongsToOneStep ==
  ASSUME IInv, NEW r \in Requests, Effect(r)
  PROVE  KeyBelongsToOne'
  <1> SUFFICES ASSUME NEW m \in Memories, NEW n \in Memories, NEW row \in Rows,
                      NEW other \in Rows, Version(m, row)', Version(n, other)',
                      row.key # "none", row.key = other.key, row.tree = other.tree
               PROVE  m = n
    BY DEF KeyBelongsToOne
  <1> DEFINE Old(k, version) ==
        \E old \in Rows : Version(k, old) /\ old.tree = version.tree
                          /\ old.key = version.key
             Made(k, version) == Creates(r) /\ k = r /\ version = NewRow(r)
  <1>1. (Old(m, row) \/ Made(m, row)) /\ (Old(n, other) \/ Made(n, other))
    BY VersionStep
  <1>2. ASSUME NEW k \in Memories, NEW version \in Rows, Old(k, version), Creates(r),
               version.key # "none"
        PROVE  ~(version.tree = NewRow(r).tree /\ version.key = NewRow(r).key)
    BY <1>2, FreshKey DEF NewRow
  <1>3. CASE Old(m, row) /\ Old(n, other)
    BY <1>3 DEF IInv, KeyBelongsToOne
  <1>4. CASE Made(m, row) /\ Made(n, other)
    BY <1>4
  <1>5. CASE Made(m, row) /\ Old(n, other)
    BY <1>2, <1>5
  <1>6. CASE Old(m, row) /\ Made(n, other)
    BY <1>2, <1>6
  <1>7. QED
    BY <1>1, <1>3, <1>4, <1>5, <1>6

-----------------------------------------------------------------------------
(* Where the step of one request leads.                                    *)

\* What InPlace, Unwritten, Born, FoundStays and NeverMissing say of one request, after
\* its own step.
Control(r) ==
  /\ pc'[r] \in Statements \ {"owner"} => home'[r] \in Trees
  /\ pc'[r] \in {"parent", "graphLock", "source", "target"} => parent(r) # "none"
  /\ pc'[r] = "ancestors" => walk'[r].at # "none"
  /\ pc'[r] \in Early => writes'[r] = Nothing
  /\ pc[r] \in {"committed", "closed"} => pc'[r] \in {"committed", "closed"}
  /\ rows' # rows => pc'[r] \in {"committed", "closed"}
  /\ pc'[r] = "rereadExisting" =>
       \E m \in Memories : /\ m \in shared'[r] /\ rows' = rows
                          /\ rows[m].tree = home'[r] /\ rows[m].key = call[r].key
  /\ answer'[r] # "missing"

\* Where Go leads.
LEMMA GoTo ==
  ASSUME TypeOK, NEW r \in Requests, NEW statement, Go(r, statement)
  PROVE  pc'[r] = statement
  BY DEF TypeOK, Go

\* Where Refuse leads.
LEMMA RefuseTo ==
  ASSUME TypeOK, NEW r \in Requests, NEW code, Refuse(r, code)
  PROVE  pc'[r] = "aborting" /\ answer'[r] = code
  BY DEF TypeOK, Refuse, Go

\* Every statement leads to places whose conditions hold.
LEMMA StepControl ==
  ASSUME IInv, NEW r \in Requests, Step(r)
  PROVE  Control(r)
  <1>a. TypeOK /\ InPlace /\ Unwritten /\ FoundStays /\ NeverMissing
    BY DEF IInv
  <1>b. /\ answer[r] # "missing"
        /\ pc[r] \in Statements \ {"owner"} => home[r] \in Trees
        /\ pc[r] \in {"parent", "graphLock", "source", "target"} => parent(r) # "none"
        /\ pc[r] = "ancestors" => walk[r].at # "none"
        /\ pc[r] \in Early => writes[r] = Nothing
    BY <1>a DEF InPlace, Unwritten, NeverMissing
  <1> USE StatementNames DEF Control, Early, At
  <1>1. CASE ReadOwner(r)
    <2>1. CASE Owned(r)
      <3>1. rows[call[r].of].tree \in Trees
        BY <1>a, <2>1, CallType DEF TypeOK, Owned, Rows
      <3>2. home'[r] = rows[call[r].of].tree
        BY <1>a, <1>1, <2>1 DEF TypeOK, ReadOwner
      <3>3. pc'[r] = AfterOwner(r)
        BY <1>a, <1>1, <2>1, GoTo DEF ReadOwner
      <3>4. QED
        BY <1>a, <1>b, <1>1, <2>1, <3>1, <3>2, <3>3, AfterOwnerIn DEF ReadOwner, locks
    <2>2. CASE ~Owned(r)
      BY <1>a, <1>1, <2>2, RefuseTo DEF ReadOwner, locks
    <2>3. QED
      BY <2>1, <2>2
  <1>2. CASE LockParent(r)
    <2>1. \/ pc'[r] \in {"existing", "insert"} /\ answer' = answer
          \/ pc'[r] = "aborting" /\ answer'[r] = "refused"
      BY <1>a, <1>2, GoTo, RefuseTo DEF LockParent
    <2>2. QED
      BY <1>b, <1>2, <2>1 DEF LockParent
  <1>3. CASE FindExisting(r)
    <2> DEFINE found == {m \in Memories : Bound(r, rows[m])}
    <2>1. pc'[r] = IF found # {} THEN "rereadExisting" ELSE "insert"
      BY <1>a, <1>3, GoTo DEF FindExisting
    <2>2. shared'[r] = shared[r] \cup found
      BY <1>a, <1>3 DEF TypeOK, FindExisting, Share
    <2>3. QED
      BY <1>b, <1>3, <2>1, <2>2 DEF FindExisting, Bound
  <1>4. CASE Insert(r)
    <2>1. \/ pc'[r] = "rereadConflict" /\ writes' = writes
          \/ pc'[r] = "reference"
      BY <1>a, <1>4, GoTo DEF Insert
    <2>2. QED
      BY <1>b, <1>4, <2>1 DEF Insert
  <1>5. CASE CheckReferences(r)
    <2>1. \/ pc'[r] \in {"rereadInserted", "committing"} /\ answer' = answer
          \/ pc'[r] = "aborting" /\ answer'[r] = "failed"
      BY <1>a, <1>5, GoTo, RefuseTo DEF CheckReferences
    <2>2. QED
      BY <1>b, <1>5, <2>1 DEF CheckReferences
  <1>6. CASE Reread(r)
    <2> DEFINE found == IF At(r, "rereadInserted") THEN {r}
                        ELSE {m \in Memories : Bound(r, Seen(r, m))}
    <2>1. pc[r] = "rereadExisting" => found # {}
      <3>1. SUFFICES ASSUME pc[r] = "rereadExisting"
                     PROVE  found # {}
        OBVIOUS
      <3>2. PICK m \in Memories : Bound(r, rows[m])
        BY <1>a, <3>1 DEF FoundStays
      <3>3. Seen(r, m) = rows[m]
        BY <1>b, <3>1 DEF Seen, Nothing, Objects
      <3>4. QED
        BY <3>1, <3>2, <3>3
    <2>2. pc[r] \in Rereads /\ (pc[r] # "rereadConflict" => found # {})
      BY <1>6, <2>1 DEF Reread, Rereads
    <2>3. \/ pc'[r] = "committing" /\ answer' = answer
          \/ pc'[r] = "aborting" /\ answer'[r] = "conflict"
      <3>1. CASE found # {}
        BY <1>a, <1>6, <3>1, GoTo DEF Reread
      <3>2. CASE found = {}
        <4>1. pc[r] = "rereadConflict"
          BY <2>2, <3>2
        <4>2. Refuse(r, "conflict")
          BY <1>6, <3>2, <4>1 DEF Reread
        <4>3. QED
          BY <1>a, <4>2, RefuseTo
      <3>3. QED
        BY <3>1, <3>2
    <2>4. QED
      BY <1>b, <1>6, <2>2, <2>3 DEF Reread, Rereads
  <1>7. CASE TakeGraphLock(r) \/ ReadSource(r)
    <2>1. \/ pc'[r] \in {"source", "target"} /\ answer' = answer
          \/ pc'[r] = "aborting" /\ answer'[r] = "refused"
      BY <1>a, <1>7, GoTo, RefuseTo DEF TakeGraphLock, ReadSource
    <2>2. QED
      BY <1>b, <1>7, <2>1 DEF TakeGraphLock, ReadSource, locks
  <1>8. CASE ReadTarget(r)
    <2>1. \/ pc'[r] = "ancestors" /\ walk' = [walk EXCEPT ![r].at = parent(r)]
             /\ answer' = answer
          \/ pc'[r] = "aborting" /\ answer'[r] = "refused"
      BY <1>a, <1>8, GoTo, RefuseTo DEF ReadTarget
    <2>2. pc'[r] = "ancestors" => walk'[r].at = parent(r)
      BY <1>a, <2>1 DEF TypeOK
    <2>3. QED
      BY <1>b, <1>8, <2>1, <2>2 DEF ReadTarget, locks
  <1>9. CASE ReadAncestor(r)
    <2>1. \/ pc'[r] = "update" /\ answer' = answer
          \/ pc'[r] = "aborting" /\ answer'[r] = "refused"
          \/ /\ pc' = pc /\ answer' = answer
             /\ rows[walk[r].at].parent # "none"
             /\ walk' = [walk EXCEPT ![r] =
                  [at |-> rows[walk[r].at].parent, seen |-> @.seen \cup {walk[r].at}]]
      BY <1>a, <1>9, GoTo, RefuseTo DEF ReadAncestor
    <2>2. pc'[r] = "ancestors" => walk'[r].at # "none"
      BY <1>a, <2>1 DEF TypeOK
    <2>3. QED
      BY <1>b, <1>9, <2>1, <2>2 DEF ReadAncestor, locks
  <1>10. CASE Update(r)
    <2>1. \/ pc'[r] \in {"committing", "reference"} /\ answer' = answer
          \/ pc'[r] = "aborting" /\ answer'[r] = "refused"
      BY <1>a, <1>10, GoTo, RefuseTo DEF Update
    <2>2. QED
      BY <1>b, <1>10, <2>1 DEF Update
  <1>11. ASSUME NEW sweep \in Sweeps, Scan(r, sweep)
         PROVE  Control(r)
    <2>1. pc'[r] \in {AfterSweep(r, sweep), Taking[sweep]}
      BY <1>a, <1>11, GoTo DEF Scan
    <2>2. pc[r] \in Sweeps
      BY <1>11 DEF Scan
    <2>3. QED
      BY <1>b, <1>11, <2>1, <2>2, AfterSweepIn DEF Scan, Sweeps, locks
  <1>12. ASSUME NEW sweep \in Sweeps, NEW m \in Memories, Take(r, sweep, m)
         PROVE  Control(r)
    <2>1. pc'[r] \in {AfterSweep(r, sweep), Taking[sweep]}
      BY <1>a, <1>12, GoTo DEF Take
    <2>2. pc[r] = Taking[sweep]
      BY <1>12 DEF Take
    <2>3. QED
      BY <1>b, <1>12, <2>1, <2>2, AfterSweepIn DEF Take
  <1>13. CASE RemoveMemory(r) \/ DropTree(r)
    <2>1. \/ pc'[r] \in {"orphan", "cascade"} /\ answer' = answer
          \/ pc'[r] = "aborting" /\ answer'[r] = "refused"
      BY <1>a, <1>13, GoTo, RefuseTo DEF RemoveMemory, DropTree, Delete
    <2>2. QED
      BY <1>b, <1>13, <2>1 DEF RemoveMemory, DropTree, Delete
  <1>14. CASE CommitDurable(r) \/ CommitLost(r) \/ Discard(r)
    <2>1. /\ pc'[r] \in {"committed", "closed"}
          /\ answer'[r] = answer[r] \/ answer'[r] = "unknown"
      BY <1>a, <1>14, GoTo DEF TypeOK, CommitDurable, CommitLost, Discard
    <2>2. writes'[r] = Nothing
      BY <1>a, <1>14 DEF TypeOK, CommitDurable, CommitLost, Discard, Release
    <2>3. QED
      BY <1>b, <2>1, <2>2
  <1>15. CASE AnswerUnknown(r) \/ Acknowledge(r)
    <2>1. answer'[r] # "missing"
      BY <1>a, <1>15 DEF TypeOK, AnswerUnknown, Acknowledge
    <2>2. pc'[r] = "closed" \/ (pc' = pc /\ pc[r] = "committing")
      BY <1>a, <1>15, GoTo DEF AnswerUnknown, Acknowledge
    <2>3. QED
      BY <1>b, <1>15, <2>1, <2>2 DEF AnswerUnknown, Acknowledge, locks
  <1>16. CASE Fail(r)
    BY <1>a, <1>b, <1>16, RefuseTo DEF Fail, locks
  <1>17. QED
    BY <1>1, <1>2, <1>3, <1>4, <1>5, <1>6, <1>7, <1>8, <1>9, <1>10, <1>11, <1>12,
       <1>13, <1>14, <1>15, <1>16 DEF Step

\* What another request found under its lock is still there.
LEMMA FoundByOther ==
  ASSUME IInv, NEW r \in Requests, Step(r),
         NEW q \in Requests \ {r}, NEW m \in Memories,
         m \in shared[q], Bound(q, rows[m])
  PROVE  Bound(q, rows'[m])
  <1>a. TypeOK /\ KeepsKey /\ SharedStays /\ m \in Objects
    BY DEF IInv, Objects
  <1>1. rows[m] # Absent /\ writes[r][m] # Absent
    BY <1>a DEF SharedStays
  <1>2. writes[r][m] \in Rows \cup {Untouched}
    BY <1>a, <1>1 DEF TypeOK
  <1>3. CASE Commits(r)
    <2>1. rows'[m] = Seen(r, m)
      BY <1>a, <1>3, CommitCells
    <2>2. Seen(r, m).tree = rows[m].tree /\ Seen(r, m).key = rows[m].key
      BY <1>a, <1>1, <1>2, Sorts DEF KeepsKey, Seen
    <2>3. QED
      BY <2>1, <2>2 DEF Bound
  <1>4. CASE UNCHANGED rows
    BY <1>4
  <1>5. QED
    BY <1>3, <1>4, StepEffect DEF Effect

\* Every step preserves the invariant.
LEMMA NextIInv == IInv /\ [Next]_vars => IInv'
  <1> SUFFICES ASSUME IInv, [Next]_vars
               PROVE  IInv'
    OBVIOUS
  <1>a. /\ TypeOK /\ InPlace /\ Unwritten /\ Born /\ FoundStays /\ NeverMissing
        /\ TypeOK'
    BY NextTypeOK DEF IInv
  <1>1. ASSUME NEW r \in Requests, Step(r)
        PROVE  IInv'
    <2>1. Effect(r) /\ Control(r) /\ call' = call
      BY <1>a, <1>1, StepEffect, StepControl, StepAlone
    <2>2. \A q \in Requests \ {r} :
            /\ pc'[q] = pc[q] /\ answer'[q] = answer[q] /\ home'[q] = home[q]
            /\ walk'[q] = walk[q] /\ writes'[q] = writes[q] /\ shared'[q] = shared[q]
      BY <1>a, <1>1, StepAlone DEF State
    <2>3. InPlace'
      BY <1>a, <2>1, <2>2 DEF InPlace, Control, parent
    <2>4. Unwritten'
      BY <1>a, <2>1, <2>2 DEF Unwritten, Control, Nothing
    <2>5. Exclusive' /\ KeepsKey' /\ KeyBelongsToOne'
      BY <2>1, ExclusiveStep, KeepsKeyStep, KeyBelongsToOneStep
    <2>6. SharedStays'
      BY <2>1, <2>2, SharedStaysStep
    <2>7. Born'
      <3> SUFFICES ASSUME NEW q \in Requests, rows'[q] # Absent
                   PROVE  pc'[q] \in {"committed", "closed"}
        BY DEF Born
      <3>1. CASE rows[q] # Absent
        <4>1. pc[q] \in {"committed", "closed"}
          BY <1>a, <3>1 DEF Born
        <4>2. QED
          BY <2>1, <2>2, <4>1 DEF Control
      <3>2. CASE rows[q] = Absent
        <4>1. rows' # rows
          BY <3>2
        <4>2. Commits(r) /\ pc'[r] \in {"committed", "closed"}
          BY <2>1, <4>1 DEF Effect, Control
        <4>3. q \in Objects /\ writes[r][q] # Untouched
          BY <3>2, <4>2, CommitCells DEF Seen, Objects, Memories
        <4>4. q = r
          BY <3>2, <4>3 DEF IInv, Exclusive
        <4>5. QED
          BY <4>2, <4>4
      <3>3. QED
        BY <3>1, <3>2
    <2>8. FoundStays'
      <3> SUFFICES ASSUME NEW q \in Requests, pc'[q] = "rereadExisting"
                   PROVE  \E m \in Memories : m \in shared'[q] /\ Bound(q, rows[m])'
        BY DEF FoundStays
      <3>1. CASE q = r
        BY <2>1, <3>1 DEF Control, Bound
      <3>2. CASE q # r
        <4>1. PICK m \in Memories : m \in shared[q] /\ Bound(q, rows[m])
          BY <1>a, <2>2, <3>2 DEF FoundStays
        <4>2. Bound(q, rows'[m])
          BY <1>1, <3>2, <4>1, FoundByOther
        <4>3. QED
          BY <2>1, <2>2, <3>2, <4>1, <4>2 DEF Bound
      <3>3. QED
        BY <3>1, <3>2
    <2>9. NeverMissing'
      BY <1>a, <2>1, <2>2 DEF NeverMissing, Control
    <2>10. QED
      BY <1>a, <2>3, <2>4, <2>5, <2>6, <2>7, <2>8, <2>9 DEF IInv
  <1>2. CASE Finished \/ UNCHANGED vars
    <2>1. UNCHANGED <<rows, writes, shared, pc, call, home, walk, answer>>
      BY <1>2 DEF Finished, vars, locks
    <2>2. InPlace' /\ Unwritten' /\ Born' /\ NeverMissing'
      BY <1>a, <2>1 DEF InPlace, Unwritten, Born, NeverMissing, Nothing, parent
    <2>3. Exclusive' /\ KeepsKey' /\ SharedStays'
      BY <2>1 DEF IInv, Exclusive, KeepsKey, SharedStays
    <2>4. KeyBelongsToOne'
      BY <2>1 DEF IInv, KeyBelongsToOne, Version
    <2>5. FoundStays'
      BY <1>a, <2>1 DEF FoundStays, Bound
    <2>6. QED
      BY <1>a, <2>2, <2>3, <2>4, <2>5 DEF IInv
  <1>3. QED
    BY <1>1, <1>2 DEF Next, Step

-----------------------------------------------------------------------------
(* The theorems.                                                           *)

\* The invariant holds in every reachable state.
LEMMA Invariance == Spec => []IInv
  BY InitIInv, NextIInv, PTL DEF Spec

\* Every variable keeps its type in every interleaving of the four writers.
THEOREM TypeCorrect == Spec => []TypeOK
  <1>1. IInv => TypeOK
    BY DEF IInv
  <1>2. QED
    BY <1>1, Invariance, PTL

\* A client key never names two memories of a tree, however creations with the key,
\* reparentings and deletions interleave: the wait of INSERT ... ON CONFLICT for the
\* other writers of the key, and the write locks, are enough.
THEOREM OneMemoryPerKey == Spec => []KeyNamesOneMemory
  <1>1. IInv => KeyNamesOneMemory
    <2> SUFFICES ASSUME IInv, NEW m \in Living, NEW n \in Living,
                        rows[m].key # "none", rows[m].key = rows[n].key,
                        rows[m].tree = rows[n].tree
                 PROVE  m = n
      BY DEF KeyNamesOneMemory
    <2>1. m \in Memories /\ n \in Memories /\ rows[m] \in Rows /\ rows[n] \in Rows
      BY DEF IInv, TypeOK, Living, Objects
    <2>2. Version(m, rows[m]) /\ Version(n, rows[n])
      BY DEF Version
    <2>3. QED
      BY <2>1, <2>2 DEF IInv, KeyBelongsToOne
  <1>2. QED
    BY <1>1, Invariance, PTL

\* A creation that found its key under FOR KEY SHARE, or inserted its row, never loses
\* it before the canonical reread: no deletion can answer it CANONICAL_MISSING.
THEOREM NeverMissingHolds == Spec => []NeverMissing
  <1>1. IInv => NeverMissing
    BY DEF IInv
  <1>2. QED
    BY <1>1, Invariance, PTL

-----------------------------------------------------------------------------
(* The forest: a second invariant, which rests on the first.               *)

\* A memory that will not be created any more: it is a seed, or the creation that has
\* its name has ended.
Settled(m) == m \in Requests => pc[m] \in {"committed", "closed"}

\* The memory is of this tree as long as it is there, and does not return.
Of(m, t) == Settled(m) /\ (rows[m] # Absent => rows[m].tree = t)

\* A tree's own row is what it was, until it goes.
TreeRowsStay == \A t \in Trees : rows[t] \in {TreeRow(t), Absent}

Creating   == {"parent", "existing", "insert", "rereadExisting", "rereadConflict",
               "rereadInserted"}
Updating   == {"graphLock", "source", "target", "ancestors", "update"}
Clearing   == {"clear", "clearing", "orphan", "orphaning"}
Dropping   == {"erase", "erasing", "dropTree", "cascade", "cascading"}
Deletes(r) == Op(r) \in {"delete", "drop"}

\* Each kind of request keeps to its statements.
InTurn(r) ==
  /\ pc[r] \in Creating => Op(r) = "create"
  /\ pc[r] \in Updating => Op(r) = "update"
  /\ pc[r] = "reference" => Op(r) \in {"create", "update"}
  /\ pc[r] \in Clearing => Deletes(r)
  /\ pc[r] = "remove" => Op(r) = "delete"
  /\ pc[r] \in Dropping => Op(r) = "drop"

\* A success, whether or not its acknowledgement has arrived.
Done(r) == pc[r] = "committed" \/ answer[r] = "success"

\* home is the tree of what the request is about.
OfHome(r) ==
  home[r] # "none" =>
    IF Op(r) \in {"create", "drop"} THEN home[r] = call[r].of
    ELSE Of(call[r].of, home[r])

AtHome(r) ==
  /\ OfHome(r)
  /\ pc[r] = "committing" \/ Done(r) => home[r] \in Trees

\* A creation writes its row, a reparenting its memory, a deletion takes rows away or
\* makes them roots; no tree is written but the one that is dropped.
Shaped(r, o) ==
  /\ writes[r][o] = Absent => Deletes(r) /\ (o \in Trees => Op(r) = "drop" /\ o = home[r])
  /\ writes[r][o] \in Rows =>
       /\ o \in Memories
       /\ \/ Op(r) = "create" /\ o = r /\ writes[r][o] = NewRow(r)
          \/ /\ Op(r) = "update" /\ o = call[r].of
             /\ rows[o] # Absent /\ writes[r][o].parent = parent(r)
          \/ Deletes(r) /\ rows[o] # Absent /\ writes[r][o].parent = "none"

\* A refusal leaves no memory, no statement follows an answer, success is the end.
AnsweredLast(r) ==
  /\ pc[r] \in Statements \cup {"committed"} => answer[r] = "none"
  /\ pc[r] = "committing" => answer[r] \in {"none", "unknown"}
  /\ answer[r] \in {"refused", "conflict", "failed"} =>
       pc[r] \in {"aborting", "closed"} /\ rows[r] = Absent
  /\ answer[r] = "success" => pc[r] = "closed"

Common(r) ==
  /\ InTurn(r)
  /\ AtHome(r)
  /\ \A o \in Objects : Shaped(r, o)
  /\ AnsweredLast(r)
  /\ pc[r] # "ancestors" => walk[r] = Idle

\* What a creation returns has its tree and its key.
Returned(r) ==
  /\ result[r] \in Memories
  /\ result[r] # r => Settled(result[r])
  /\ Seen(r, result[r]) # Absent => Bound(r, Seen(r, result[r]))

\* A creation holds its parent from the check of the parent's tree, and its own tree
\* from the check of the references.
Creator(r) ==
  /\ /\ parent(r) # "none"
     /\ pc[r] \in {"existing", "insert", "reference", "committing"} \cup Rereads
     => parent(r) \in shared[r] /\ rows[parent(r)].tree = home[r]
  /\ pc[r] = "rereadInserted" \/ (pc[r] = "committing" /\ writes[r][r] # Untouched)
     => home[r] \in shared[r]
  /\ pc[r] \in {"reference", "rereadInserted"} => writes[r][r] = NewRow(r)
  /\ pc[r] = "committing" \/ Done(r) => Returned(r)

\* The set is closed under parents, but for one that is at, and the moving memory is
\* not in it.
Climbed(r, S, at) ==
  /\ parent(r) \in S \cup {at} /\ call[r].of \notin S
  /\ \A m \in S :
       /\ Of(m, home[r])
       /\ rows[m] # Absent => rows[m].parent \in S \cup {at, "none"}

\* A reparenting holds its tree's graph, has found the new parent in the tree and
\* above it nothing of what it moves, and holds the parent at the end, unless it was
\* the parent before.
Mover(r) ==
  /\ pc[r] \in {"reference", "committing"} => writes[r][call[r].of] # Untouched
  /\ parent(r) # "none" =>
       /\ pc[r] \in {"source", "target", "ancestors", "update", "reference",
                     "committing"}
          => graph[home[r]] = r /\ parent(r) # call[r].of
       /\ pc[r] \in {"ancestors", "update", "reference", "committing"}
          => Of(parent(r), home[r])
       /\ pc[r] = "committing"
          => parent(r) \in shared[r] \/ parent(r) = rows[call[r].of].parent
       /\ pc[r] = "ancestors" =>
            Of(walk[r].at, home[r]) /\ Climbed(r, walk[r].seen, walk[r].at)
       /\ pc[r] \in {"update", "reference", "committing"} =>
            \E S \in SUBSET Memories : Climbed(r, S, "none")

\* A child of a row that r deleted, and a memory of the tree that r deleted.
Orphaned(r, m) ==
  /\ Seen(r, m) # Absent /\ Seen(r, m).parent # "none"
  /\ Seen(r, Seen(r, m).parent) = Absent

LeftBehind(r, m) ==
  /\ Op(r) = "drop" /\ writes[r][home[r]] = Absent
  /\ Seen(r, m) # Absent /\ Seen(r, m).tree = home[r]

\* A deletion makes a memory a root only when its parent goes, or its tree.
Detached(r, m) ==
  \/ Op(r) = "delete" /\ rows[m].parent = call[r].of
  \/ Op(r) = "drop" /\ rows[m].tree = home[r]
  \/ rows[m].parent \in Memories /\ writes[r][rows[m].parent] = Absent

\* A deletion has written what it deletes before it sweeps, and a sweep that has read
\* its snapshot misses nothing, although others commit.
Deleter(r) ==
  /\ Op(r) = "delete" /\ pc[r] \in {"orphan", "orphaning", "committing"}
     => writes[r][call[r].of] = Absent
  /\ Op(r) = "drop" =>
       /\ pc[r] \in {"cascade", "cascading", "committing"} => writes[r][home[r]] = Absent
       /\ pc[r] \in {"clear", "clearing", "erase", "erasing"}
          => writes[r][home[r]] # Absent
  /\ pc[r] \in {"orphaning", "committing"} =>
       \A m \in Memories : Orphaned(r, m) => pc[r] = "orphaning" /\ m \in todo[r]
  /\ pc[r] \in {"cascading", "orphan", "orphaning", "committing"} =>
       \A m \in Memories : LeftBehind(r, m) => pc[r] = "cascading" /\ m \in todo[r]
  /\ \A m \in Memories : writes[r][m] \in Rows => Detached(r, m)
  /\ Done(r) => rows[call[r].of] = Absent

Local(r) ==
  /\ Common(r)
  /\ Op(r) = "create" => Creator(r)
  /\ Op(r) = "update" => Mover(r)
  /\ Deletes(r) => Deleter(r)

FInv ==
  /\ TreeRowsStay
  /\ ReferencesHold
  /\ Acyclic
  /\ \A r \in Requests : Local(r)

-----------------------------------------------------------------------------
(* What every step keeps.                                                  *)

\* What a step of r leaves alone.
LEMMA OthersStay ==
  ASSUME IInv, NEW r \in Requests, Step(r)
  PROVE  /\ call' = call
         /\ \A q \in Requests \ {r} :
              /\ pc'[q] = pc[q] /\ answer'[q] = answer[q] /\ home'[q] = home[q]
              /\ walk'[q] = walk[q] /\ writes'[q] = writes[q]
              /\ shared'[q] = shared[q] /\ todo'[q] = todo[q]
              /\ result'[q] = result[q]
  BY StepAlone DEF IInv, State

\* Nobody takes or releases the graph lock of another.
LEMMA GraphStays ==
  ASSUME IInv, NEW r \in Requests, Step(r), NEW q \in Requests \ {r}, NEW t \in Trees,
         graph[t] = q
  PROVE  graph'[t] = q
  <1>a. TypeOK /\ q # Nobody
    BY MemoryForestAssumption DEF IInv, Nobody, Objects, Memories
  <1>1. CASE TakeGraphLock(r)
    <2>1. graph' = [graph EXCEPT ![home[r]] = r] /\ home[r] # t
      BY <1>a, <1>1 DEF TakeGraphLock
    <2>2. QED
      BY <1>a, <2>1 DEF TypeOK
  <1>2. CASE Release(r)
    BY <1>a, <1>2 DEF Release
  <1>3. CASE UNCHANGED graph
    BY <1>3
  <1>4. TakeGraphLock(r) \/ Release(r) \/ UNCHANGED graph
    BY DEF Step, ReadOwner, LockParent, FindExisting, Insert, CheckReferences, Reread,
           ReadSource, ReadTarget, ReadAncestor, Update, Scan, Take, RemoveMemory,
           DropTree, Delete, CommitDurable, CommitLost, AnswerUnknown, Acknowledge,
           Fail, Discard, locks
  <1>5. QED
    BY <1>1, <1>2, <1>3, <1>4

\* A request that has ended stays at its end.
LEMMA EndsStay ==
  ASSUME IInv, NEW r \in Requests, Step(r), NEW q \in Requests,
         pc[q] \in {"committed", "closed"}
  PROVE  pc'[q] \in {"committed", "closed"}
  BY StepControl, OthersStay DEF Control

\* A row changes when the step commits another version of it.
LEMMA RowStep ==
  ASSUME IInv, NEW r \in Requests, Step(r), NEW x \in Objects, rows'[x] # rows[x]
  PROVE  /\ Commits(r) /\ rows'[x] = writes[r][x] /\ writes[r][x] # Untouched
         /\ pc[r] = "committing" /\ Release(r)
  <1>1. Commits(r) /\ Release(r)
    BY StepEffect DEF Effect
  <1>2. QED
    BY <1>1 DEF Commits, Seen

\* What another transaction wrote does not change underneath it.
LEMMA WrittenStays ==
  ASSUME IInv, NEW r \in Requests, Step(r), NEW q \in Requests \ {r}, NEW x \in Objects,
         writes[q][x] # Untouched
  PROVE  rows'[x] = rows[x]
  BY RowStep DEF IInv, Exclusive

\* A row that is gone, and is not what the step creates, does not come back.
LEMMA GoneStays ==
  ASSUME IInv, NEW r \in Requests, Step(r), NEW x \in Objects, rows[x] = Absent,
         Settled(x) \/ x # r
  PROVE  rows'[x] = Absent
  <1>1. SUFFICES ASSUME rows'[x] # Absent
                 PROVE  FALSE
    OBVIOUS
  <1>2. pc[r] = "committing" /\ writes[r][x] # Untouched
    BY <1>1, RowStep
  <1>3. x = r
    BY <1>2 DEF IInv, Exclusive
  <1>4. QED
    BY <1>2, <1>3 DEF Settled

\* A row that stays keeps its tree and its key.
LEMMA LivingKeeps ==
  ASSUME IInv, NEW r \in Requests, Step(r), NEW x \in Objects, rows[x] # Absent,
         rows'[x] # Absent
  PROVE  rows'[x].tree = rows[x].tree /\ rows'[x].key = rows[x].key
  <1>1. CASE rows'[x] = rows[x]
    BY <1>1
  <1>2. CASE rows'[x] # rows[x]
    <2>1. rows'[x] = writes[r][x] /\ writes[r][x] # Untouched
      BY <1>2, RowStep
    <2>2. writes[r][x] \in Rows
      BY <2>1 DEF IInv, TypeOK
    <2>3. QED
      BY <2>1, <2>2 DEF IInv, KeepsKey
  <1>3. QED
    BY <1>1, <1>2

\* A memory that is settled stays so, and stays of its tree.
LEMMA OfStays ==
  ASSUME IInv, NEW r \in Requests, Step(r)
  PROVE  /\ \A m : Settled(m) => Settled(m)'
         /\ \A m \in Memories : \A t : Of(m, t) => Of(m, t)'
  <1>1. \A m : Settled(m) => Settled(m)'
    BY EndsStay DEF Settled
  <1>2. ASSUME NEW m \in Memories, NEW t, Of(m, t)
        PROVE  Of(m, t)'
    <2>1. m \in Objects
      BY DEF Objects
    <2>2. rows'[m] # Absent => rows[m] # Absent
      BY <1>2, <2>1, GoneStays DEF Of
    <2>3. rows'[m] # Absent => rows'[m].tree = t
      BY <1>2, <2>1, <2>2, LivingKeeps DEF Of
    <2>4. QED
      BY <1>1, <1>2, <2>3 DEF Of
  <1>3. QED
    BY <1>1, <1>2

\* A memory that is there is settled.
LEMMA LivingSettled ==
  ASSUME IInv, NEW m, rows[m] # Absent
  PROVE  Settled(m) /\ Of(m, rows[m].tree)
  BY DEF IInv, Born, Settled, Of

\* A row that another transaction shares stays, with its tree.
LEMMA SharedKeeps ==
  ASSUME IInv, NEW r \in Requests, Step(r), NEW q \in Requests \ {r}, NEW x \in shared[q]
  PROVE  rows'[x] # Absent /\ rows'[x].tree = rows[x].tree
  <1>1. x \in Objects /\ rows[x] # Absent /\ writes[r][x] # Absent
    BY DEF IInv, TypeOK, SharedStays
  <1>2. rows'[x] # Absent
    BY <1>1, RowStep
  <1>3. QED
    BY <1>1, <1>2, LivingKeeps

-----------------------------------------------------------------------------
(* What the step of one request leaves of what is known of another.        *)

\* What is common to all requests is left.
LEMMA OtherCommon ==
  ASSUME IInv, FInv, NEW r \in Requests, Step(r), NEW q \in Requests \ {r}
  PROVE  Common(q)'
  <1>a. Common(q) /\ TypeOK
    BY DEF IInv, FInv, Local
  <1>b. /\ call' = call /\ pc'[q] = pc[q] /\ answer'[q] = answer[q]
        /\ home'[q] = home[q] /\ walk'[q] = walk[q] /\ writes'[q] = writes[q]
    BY OthersStay
  <1>1. InTurn(q)'
    BY <1>a, <1>b DEF Common, InTurn, Deletes, Op
  <1>2. AtHome(q)'
    <2>1. Op(q) \in {"create", "drop"} \/ call[q].of \in Memories
      BY <1>a DEF TypeOK, Calls, Op
    <2>2. QED
      BY <1>a, <1>b, <2>1, OfStays DEF Common, AtHome, OfHome, Done, Op
  <1>3. ASSUME NEW o \in Objects
        PROVE  Shaped(q, o)'
    <2>1. writes[q][o] # Untouched => rows'[o] = rows[o]
      BY WrittenStays
    <2>2. Shaped(q, o)
      BY <1>a DEF Common
    <2>3. writes[q][o] \in Rows => rows'[o] = rows[o]
      BY <2>1, Sorts
    <2>4. QED
      BY <1>b, <2>2, <2>3 DEF Shaped, Deletes, Op, NewRow, parent
  <1>4. AnsweredLast(q)'
    <2>1. q \in Objects
      BY DEF Objects, Memories
    <2>2. rows[q] = Absent => rows'[q] = Absent
      BY <2>1, GoneStays
    <2>3. QED
      BY <1>a, <1>b, <2>2 DEF Common, AnsweredLast
  <1>5. QED
    BY <1>a, <1>b, <1>1, <1>2, <1>3, <1>4 DEF Common

\* What a creation holds and returns is left.
LEMMA OtherCreator ==
  ASSUME IInv, FInv, NEW r \in Requests, Step(r), NEW q \in Requests \ {r},
         Op(q) = "create"
  PROVE  Creator(q)'
  <1>a. Creator(q) /\ Common(q) /\ TypeOK
    BY DEF IInv, FInv, Local
  <1>b. /\ call' = call /\ pc'[q] = pc[q] /\ answer'[q] = answer[q]
        /\ home'[q] = home[q] /\ writes'[q] = writes[q] /\ shared'[q] = shared[q]
        /\ result'[q] = result[q]
    BY OthersStay
  <1>1. parent(q) \in shared[q] => rows'[parent(q)].tree = rows[parent(q)].tree
    BY SharedKeeps
  <1>2. ASSUME NEW m, m = result[q], Returned(q)
        PROVE  Returned(q)'
    <2>1. m \in Memories /\ m \in Objects /\ (m # q => Settled(m)')
      BY <1>2, OfStays DEF Returned, Objects
    <2>2. ASSUME Seen(q, m)' # Absent
          PROVE  Bound(q, Seen(q, m))'
      <3>1. CASE writes[q][m] # Untouched
        BY <1>2, <1>b, <2>2, <3>1 DEF Returned, Seen, Bound
      <3>2. CASE writes[q][m] = Untouched
        <4>1. rows'[m] # Absent /\ Seen(q, m) = rows[m] /\ Seen(q, m)' = rows'[m]
          BY <1>b, <2>2, <3>2 DEF Seen
        <4>2. Settled(m) \/ m # r
          BY <1>2 DEF Returned
        <4>3. rows[m] # Absent
          BY <2>1, <4>1, <4>2, GoneStays
        <4>4. rows'[m].tree = rows[m].tree /\ rows'[m].key = rows[m].key
          BY <2>1, <4>1, <4>3, LivingKeeps
        <4>5. QED
          BY <1>2, <1>b, <4>1, <4>3, <4>4 DEF Returned, Bound
      <3>3. QED
        BY <3>1, <3>2
    <2>3. result'[q] = m
      BY <1>2, <1>b
    <2>4. QED
      BY <2>1, <2>2, <2>3 DEF Returned
  <1>3. QED
    BY <1>a, <1>b, <1>1, <1>2 DEF Creator, parent, NewRow, Done

\* What a step does to the row of a memory.
LEMMA RowChange ==
  ASSUME IInv, FInv, NEW r \in Requests, Step(r), NEW m \in Memories, rows'[m] # rows[m]
  PROVE  /\ pc[r] = "committing" /\ rows'[m] = writes[r][m]
         /\ \/ rows'[m] = Absent /\ Deletes(r)
            \/ /\ rows'[m] \in Rows
               /\ \/ Op(r) = "create" /\ m = r /\ rows'[m] = NewRow(r)
                  \/ /\ Op(r) = "update" /\ m = call[r].of
                     /\ rows[m] # Absent /\ rows'[m].parent = parent(r)
                  \/ Deletes(r) /\ rows[m] # Absent /\ rows'[m].parent = "none"
  <1>1. m \in Objects
    BY DEF Objects
  <1>2. pc[r] = "committing" /\ rows'[m] = writes[r][m] /\ writes[r][m] # Untouched
    BY <1>1, RowStep
  <1>3. Shaped(r, m)
    BY <1>1 DEF FInv, Local, Common
  <1>4. writes[r][m] \in Rows \cup {Absent}
    BY <1>1, <1>2 DEF IInv, TypeOK
  <1>5. QED
    BY <1>2, <1>3, <1>4 DEF Shaped

\* What an ancestor walk has climbed stays closed: a reparenting in the same tree would
\* hold the graph that q holds.
LEMMA ClimbedStays ==
  ASSUME IInv, FInv, NEW r \in Requests, Step(r), NEW q \in Requests \ {r},
         home[q] \in Trees, graph[home[q]] = q,
         NEW S \in SUBSET Memories, NEW at, Climbed(q, S, at)
  PROVE  Climbed(q, S, at)'
  <1>a. call' = call /\ home'[q] = home[q]
    BY OthersStay
  <1>1. ASSUME NEW m \in S, rows'[m] # Absent
        PROVE  rows'[m].parent \in S \cup {at, "none"}
    <2>a. m \in Memories /\ Of(m, home[q]) /\ m \in Objects
      BY DEF Climbed, Objects
    <2>1. CASE rows'[m] = rows[m]
      BY <1>1, <2>1 DEF Climbed
    <2>2. CASE rows'[m] # rows[m]
      <3>1. CASE Op(r) = "create" /\ m = r
        <4>1. pc[r] = "committing"
          BY <2>a, <2>2, RowChange
        <4>2. QED
          BY <2>a, <3>1, <4>1 DEF Of, Settled
      <3>2. CASE /\ Op(r) = "update" /\ m = call[r].of /\ rows[m] # Absent
                 /\ rows'[m].parent = parent(r) /\ parent(r) # "none"
        <4>1. pc[r] = "committing"
          BY <2>a, <2>2, RowChange
        <4>2. graph[home[r]] = r
          BY <3>2, <4>1 DEF FInv, Local, Mover
        <4>3. home[r] \in Trees /\ Of(m, home[r])
          BY <3>2, <4>1, MemoryForestAssumption
             DEF FInv, Local, Common, AtHome, OfHome, Objects
        <4>4. home[r] = home[q]
          BY <2>a, <3>2, <4>3 DEF Of
        <4>5. QED
          BY <4>2, <4>4
      <3>3. rows'[m].parent = "none" \/ (Op(r) = "create" /\ m = r)
            \/ /\ Op(r) = "update" /\ m = call[r].of /\ rows[m] # Absent
               /\ rows'[m].parent = parent(r) /\ parent(r) # "none"
        BY <1>1, <2>a, <2>2, RowChange
      <3>4. QED
        BY <3>1, <3>2, <3>3
    <2>3. QED
      BY <2>1, <2>2
  <1>2. \A m \in S : Of(m, home[q])'
    BY <1>a, OfStays DEF Climbed
  <1>3. QED
    BY <1>a, <1>1, <1>2 DEF Climbed, parent

\* What a reparenting holds and has climbed is left.
LEMMA OtherMover ==
  ASSUME IInv, FInv, NEW r \in Requests, Step(r), NEW q \in Requests \ {r},
         Op(q) = "update"
  PROVE  Mover(q)'
  <1>a. Mover(q) /\ Common(q) /\ TypeOK /\ InPlace
    BY DEF IInv, FInv, Local
  <1>b. /\ call' = call /\ pc'[q] = pc[q] /\ home'[q] = home[q]
        /\ walk'[q] = walk[q] /\ writes'[q] = writes[q] /\ shared'[q] = shared[q]
    BY OthersStay
  <1>c. call[q].of \in Objects /\ parent(q) \in Memories \cup {"none"}
    BY <1>a, CallType
  <1>d. pc[q] \in {"source", "target", "ancestors", "update", "reference", "committing"}
        => home[q] \in Trees
    BY <1>a, StatementNames DEF InPlace, Common, AtHome
  <1>1. writes[q][call[q].of] # Untouched => rows'[call[q].of] = rows[call[q].of]
    BY <1>c, WrittenStays
  <1>2. SUFFICES ASSUME parent(q) # "none"
                 PROVE  Mover(q)'
    BY <1>a, <1>b DEF Mover, parent
  <1>3. pc[q] \in {"source", "target", "ancestors", "update", "reference", "committing"}
        => graph[home[q]] = q /\ graph'[home[q]] = q
    BY <1>a, <1>d, <1>2, GraphStays DEF Mover
  <1>4. pc[q] \in {"ancestors", "update", "reference", "committing"}
        => Of(parent(q), home[q])'
    BY <1>a, <1>b, <1>c, <1>2, OfStays DEF Mover, Of, parent
  <1>5. CASE pc[q] = "ancestors"
    <2>1. PICK at \in Memories, seen \in SUBSET Memories :
            at = walk[q].at /\ seen = walk[q].seen
      BY <1>a, <1>5 DEF TypeOK, InPlace
    <2>2. Of(at, home[q]) /\ Climbed(q, seen, at)
      BY <1>a, <1>2, <1>5, <2>1 DEF Mover
    <2>3. Climbed(q, seen, at)'
      BY <1>d, <1>3, <1>5, <2>2, ClimbedStays
    <2>4. Of(at, home[q])'
      BY <1>b, <2>2, OfStays DEF Of
    <2>5. at = walk'[q].at /\ seen = walk'[q].seen
      BY <1>b, <2>1
    <2>6. Of(walk[q].at, home[q])' /\ Climbed(q, walk[q].seen, walk[q].at)'
      BY <2>3, <2>4, <2>5
    <2>7. QED
      BY <1>a, <1>b, <1>2, <1>3, <1>4, <1>5, <2>6 DEF Mover, parent
  <1>6. CASE pc[q] \in {"update", "reference", "committing"}
    <2>1. PICK S \in SUBSET Memories : Climbed(q, S, "none")
      BY <1>a, <1>2, <1>6 DEF Mover
    <2>2. Climbed(q, S, "none")'
      BY <1>d, <1>3, <1>6, <2>1, ClimbedStays
    <2>3. QED
      BY <1>a, <1>b, <1>1, <1>2, <1>3, <1>4, <1>6, <2>2 DEF Mover, parent
  <1>7. CASE pc[q] \notin {"ancestors", "update", "reference", "committing"}
    BY <1>a, <1>b, <1>2, <1>3, <1>7 DEF Mover, parent
  <1>8. QED
    BY <1>5, <1>6, <1>7

-----------------------------------------------------------------------------
(* What a commit does to the forest.                                       *)

\* Only a tree that its request drops goes, and it does not change before.
LEMMA TreeChange ==
  ASSUME IInv, FInv, NEW r \in Requests, Step(r), NEW t \in Trees, rows'[t] # rows[t]
  PROVE  rows'[t] = Absent /\ Op(r) = "drop" /\ t = home[r] /\ pc[r] = "committing"
         /\ writes[r][t] = Absent
  <1>1. t \in Objects /\ t \notin Memories
    BY MemoryForestAssumption DEF Objects
  <1>2. pc[r] = "committing" /\ rows'[t] = writes[r][t] /\ writes[r][t] # Untouched
    BY <1>1, RowStep
  <1>3. Shaped(r, t) /\ writes[r][t] \in Rows \cup {Absent}
    BY <1>1, <1>2 DEF FInv, Local, Common, IInv, TypeOK
  <1>4. QED
    BY <1>1, <1>2, <1>3 DEF Shaped

\* The memory that a commit makes hangs where its creation holds tree and parent; one
\* that it moves hangs where its reparenting holds the parent, or where it hung.
LEMMA NewPlace ==
  ASSUME IInv, FInv, NEW r \in Requests, Step(r), NEW m \in Memories,
         rows'[m] # rows[m], rows'[m] # Absent
  PROVE  /\ rows[m] = Absent =>
              rows'[m].tree = home[r] /\ home[r] \in shared[r] /\ ~Deletes(r) /\ m = r
         /\ rows'[m].parent # "none" =>
              /\ ~Deletes(r) /\ rows'[m].parent = parent(r)
              /\ \/ parent(r) \in shared[r] /\ rows[parent(r)].tree = rows'[m].tree
                 \/ rows[m] # Absent /\ rows[m].parent = parent(r)
              /\ Op(r) = "update" => m = call[r].of
  <1>a. m \in Objects /\ pc[r] = "committing" /\ rows'[m] = writes[r][m]
        /\ writes[r][m] # Untouched
    BY RowChange, Sorts DEF Objects
  <1>b. Local(r) /\ home[r] # "none"
    BY <1>a, MemoryForestAssumption DEF FInv, Local, Common, AtHome, OfHome, Objects
  <1>1. CASE Op(r) = "create" /\ m = r /\ rows'[m] = NewRow(r)
    <2>1. rows'[m].tree = home[r] /\ rows'[m].parent = parent(r) /\ ~Deletes(r)
      BY <1>1 DEF NewRow, Deletes
    <2>2. home[r] \in shared[r]
      BY <1>a, <1>b, <1>1 DEF Local, Creator
    <2>3. parent(r) # "none" => parent(r) \in shared[r] /\ rows[parent(r)].tree = home[r]
      BY <1>a, <1>b, <1>1 DEF Local, Creator
    <2>4. QED
      BY <1>1, <2>1, <2>2, <2>3
  <1>2. CASE /\ Op(r) = "update" /\ m = call[r].of /\ rows[m] # Absent
             /\ rows'[m].parent = parent(r)
    <2>1. rows'[m].tree = home[r]
      BY <1>a, <1>b, <1>2, LivingKeeps DEF Local, Common, AtHome, OfHome, Of
    <2>2. parent(r) # "none" =>
            \/ parent(r) \in shared[r] /\ Of(parent(r), home[r])
            \/ parent(r) = rows[m].parent
      BY <1>a, <1>b, <1>2 DEF Local, Mover
    <2>3. parent(r) \in shared[r] => rows[parent(r)] # Absent
      BY DEF IInv, SharedStays
    <2>4. QED
      BY <1>2, <2>1, <2>2, <2>3 DEF Of, Deletes
  <1>3. CASE Deletes(r) /\ rows[m] # Absent /\ rows'[m].parent = "none"
    BY <1>3
  <1>4. QED
    BY <1>1, <1>2, <1>3, RowChange, Sorts

\* References hold after every step: a sweep misses nothing, and what is created or
\* moved hangs on rows that are held.
LEMMA ReferencesStep ==
  ASSUME IInv, FInv, NEW r \in Requests, Step(r)
  PROVE  ReferencesHold'
  <1>a. TypeOK /\ TypeOK' /\ Local(r)
    <2>1. Next
      BY DEF Next, Step
    <2>2. QED
      BY <2>1, NextTypeOK DEF IInv, FInv
  <1> SUFFICES ASSUME NEW m \in Memories, rows'[m] # Absent
               PROVE  /\ rows'[rows'[m].tree] # Absent
                      /\ rows'[m].parent # "none" =>
                           /\ rows'[m].parent \in Memories
                           /\ rows'[rows'[m].parent] # Absent
                           /\ rows'[rows'[m].parent].tree = rows'[m].tree
    BY DEF ReferencesHold, Living
  <1>b. m \in Objects /\ rows'[m] \in Rows
    BY <1>a DEF TypeOK, Objects
  <1>c. rows'[m].tree \in Trees /\ rows'[m].parent \in Memories \cup {"none"}
    BY <1>b DEF Rows
  <1>d. rows[m] # Absent =>
          /\ rows'[m].tree = rows[m].tree /\ rows[rows[m].tree] # Absent
          /\ rows[m].parent # "none" =>
               rows[rows[m].parent] # Absent /\ rows[rows[m].parent].tree = rows[m].tree
    BY <1>b, LivingKeeps DEF FInv, ReferencesHold, Living
  <1>e. \A o \in shared[r] : rows[o] # Absent
    BY DEF IInv, SharedStays
  <1>1. rows'[rows'[m].tree] # Absent
    <2> DEFINE t == rows'[m].tree
    <2>1. rows[t] # Absent
      BY <1>d, <1>e, NewPlace
    <2>2. ASSUME rows'[t] = Absent
          PROVE  FALSE
      <3>1. /\ Op(r) = "drop" /\ t = home[r] /\ pc[r] = "committing"
            /\ writes[r][t] = Absent
        BY <1>c, <2>1, <2>2, TreeChange
      <3>2. Seen(r, m) = rows'[m]
        <4>1. Commits(r)
          BY <1>c, <2>1, <2>2, RowStep DEF Objects
        <4>2. QED
          BY <1>b, <4>1 DEF Commits
      <3>3. LeftBehind(r, m)
        BY <3>1, <3>2 DEF LeftBehind
      <3>4. QED
        BY <1>a, <3>1, <3>3 DEF Local, Deleter, Deletes
    <2>3. QED
      BY <2>2
  <1>2. ASSUME rows'[m].parent # "none"
        PROVE  rows'[rows'[m].parent] # Absent
               /\ rows'[rows'[m].parent].tree = rows'[m].tree
    <2> DEFINE p == rows'[m].parent
    <2>1. p \in Memories /\ p \in Objects
      BY <1>c, <1>2 DEF Objects
    <2>2. rows[p] # Absent /\ rows[p].tree = rows'[m].tree
      <3>1. CASE rows'[m] = rows[m]
        BY <1>2, <1>d, <3>1
      <3>2. CASE rows'[m] # rows[m]
        BY <1>2, <1>d, <1>e, <3>2, NewPlace
      <3>3. QED
        BY <3>1, <3>2
    <2>3. ASSUME rows'[p] = Absent
          PROVE  FALSE
      <3>1. pc[r] = "committing" /\ Deletes(r)
        BY <2>1, <2>2, <2>3, RowChange, Sorts
      <3>2. Seen(r, m) = rows'[m] /\ Seen(r, p) = Absent
        <4>1. Commits(r)
          BY <2>1, <2>2, <2>3, RowStep
        <4>2. QED
          BY <1>b, <2>1, <2>3, <4>1 DEF Commits
      <3>3. Orphaned(r, m)
        BY <1>2, <3>2 DEF Orphaned
      <3>4. QED
        BY <1>a, <3>1, <3>3 DEF Local, Deleter
    <2>4. QED
      BY <2>1, <2>2, <2>3, LivingKeeps
  <1>3. QED
    BY <1>c, <1>1, <1>2

\* No step closes a cycle: what a reparenting puts above its memory it has climbed.
LEMMA AcyclicStep ==
  ASSUME IInv, FInv, NEW r \in Requests, Step(r)
  PROVE  Acyclic'
  <1>a. Local(r) /\ ReferencesHold /\ Acyclic
    BY DEF FInv
  <1> SUFFICES ASSUME NEW M \in SUBSET Memories, M # {},
                      \A m \in M : rows'[m] # Absent /\ rows'[m].parent \in M
               PROVE  FALSE
    BY DEF Acyclic, Living
  <1>b. \A N \in SUBSET Memories :
          (\A m \in N : rows[m] # Absent /\ rows[m].parent \in N) => N = {}
    BY <1>a DEF Acyclic, Living
  <1>c. "none" \notin M
    BY MemoryForestAssumption DEF Objects
  <1>1. PICK m \in M : rows'[m] # rows[m]
    BY <1>b
  <1>2. /\ pc[r] = "committing" /\ rows'[m].parent = parent(r) /\ parent(r) \in M
        /\ \/ Op(r) = "create" /\ m = r /\ rows[m] = Absent
           \/ Op(r) = "update" /\ m = call[r].of
    <2>1. rows'[m].parent # "none" /\ pc[r] = "committing"
      BY <1>c, <1>1, RowChange
    <2>2. Op(r) = "create" => m = r /\ rows[r] = Absent
      <3>1. rows[r] = Absent
        BY <2>1 DEF IInv, Born
      <3>2. QED
        BY <1>1, <2>1, <3>1, RowChange, Sorts DEF Deletes
    <2>3. Op(r) \in {"create", "update"}
      BY <1>1, <2>1, NewPlace, CallType DEF IInv, Deletes, Op
    <2>4. QED
      BY <1>1, <2>1, <2>2, <2>3, NewPlace
  <1>3. \A n \in M : n # m => rows'[n] = rows[n]
    <2> SUFFICES ASSUME NEW n \in M, rows'[n] # rows[n]
                 PROVE  n = m
      OBVIOUS
    <2>1. rows'[n].parent # "none"
      BY <1>c
    <2>2. QED
      BY <1>2, <2>1, RowChange, Sorts DEF Deletes
  <1>4. CASE Op(r) = "create" /\ m = r /\ rows[m] = Absent
    <2>1. \A n \in M \ {m} : rows[n] # Absent /\ rows[n].parent \in M \ {m}
      <3> SUFFICES ASSUME NEW n \in M \ {m}
                   PROVE  rows[n] # Absent /\ rows[n].parent # m /\ rows[n].parent \in M
        OBVIOUS
      <3>1. rows[n] # Absent /\ rows[n].parent \in M
        BY <1>3
      <3>2. rows[rows[n].parent] # Absent
        BY <1>a, <1>c, <3>1 DEF ReferencesHold, Living
      <3>3. QED
        BY <1>4, <3>1, <3>2
    <2>2. M \ {m} = {}
      BY <1>b, <2>1
    <2>3. parent(r) = m
      BY <1>2, <2>2
    <2>4. rows[m] # Absent
      <3>1. parent(r) \in shared[r]
        BY <1>2, <1>4, <1>a, <1>c DEF Local, Creator
      <3>2. QED
        BY <2>3, <3>1 DEF IInv, SharedStays
    <2>5. QED
      BY <1>4, <2>4
  <1>5. CASE Op(r) = "update" /\ m = call[r].of
    <2>1. PICK S \in SUBSET Memories : Climbed(r, S, "none")
      BY <1>a, <1>c, <1>2, <1>5 DEF Local, Mover
    <2>2. m \notin S /\ parent(r) \in S
      BY <1>c, <1>2, <1>5, <2>1 DEF Climbed
    <2>3. \A n \in M \cap S : rows[n] # Absent /\ rows[n].parent \in M \cap S
      BY <1>c, <1>3, <2>1, <2>2 DEF Climbed
    <2>4. M \cap S = {}
      BY <1>b, <2>3
    <2>5. QED
      BY <1>2, <2>2, <2>4
  <1>6. QED
    BY <1>2, <1>4, <1>5

\* What a deletion has swept stays swept: whoever commits a row below one that it
\* deleted, or in the tree that it deleted, would hold that row.
LEMMA OtherDeleter ==
  ASSUME IInv, FInv, NEW r \in Requests, Step(r), NEW q \in Requests \ {r}, Deletes(q)
  PROVE  Deleter(q)'
  <1>a. Deleter(q) /\ Common(q) /\ TypeOK
    BY DEF IInv, FInv, Local
  <1>b. /\ call' = call /\ pc'[q] = pc[q] /\ answer'[q] = answer[q]
        /\ home'[q] = home[q] /\ writes'[q] = writes[q] /\ todo'[q] = todo[q]
    BY OthersStay
  <1>c. \A o \in shared[r] : writes[q][o] # Absent
    BY DEF IInv, SharedStays
  <1>1. ASSUME NEW m \in Memories, Orphaned(q, m)'
        PROVE  Orphaned(q, m)
    <2>a. m \in Objects
      BY DEF Objects
    <2>1. writes[q][m] = Untouched
      <3>1. Seen(q, m)' # Absent /\ Seen(q, m)'.parent # "none"
        BY <1>1 DEF Orphaned
      <3>2. writes[q][m] # Untouched =>
              writes[q][m] \in Rows /\ writes[q][m].parent # "none"
        BY <1>a, <1>b, <2>a, <3>1 DEF Seen, TypeOK
      <3>3. QED
        BY <1>a, <2>a, <3>2 DEF Common, Shaped, Deletes
    <2> DEFINE p == rows'[m].parent
    <2>2. rows'[m] # Absent /\ p # "none"
      BY <1>1, <1>b, <2>1 DEF Orphaned, Seen
    <2>3. p \in Memories /\ rows'[p] # Absent
      BY <2>2, ReferencesStep DEF ReferencesHold, Living
    <2>4. writes[q][p] = Absent
      BY <1>1, <1>b, <2>1, <2>3 DEF Orphaned, Seen
    <2>5. rows[m] # Absent /\ rows[m].parent = p
      BY <1>c, <2>2, <2>4, NewPlace
    <2>6. QED
      BY <2>1, <2>2, <2>4, <2>5, Sorts DEF Orphaned, Seen
  <1>2. ASSUME NEW m \in Memories, LeftBehind(q, m)'
        PROVE  LeftBehind(q, m)
    <2>a. m \in Objects
      BY DEF Objects
    <2>1. CASE writes[q][m] # Untouched
      BY <1>2, <1>b, <2>1 DEF LeftBehind, Seen, Op
    <2>2. CASE writes[q][m] = Untouched
      <3>1. /\ Op(q) = "drop" /\ writes[q][home[q]] = Absent
            /\ rows'[m] # Absent /\ rows'[m].tree = home[q]
        BY <1>2, <1>b, <2>2 DEF LeftBehind, Seen, Op
      <3>2. rows[m] # Absent
        BY <1>c, <3>1, NewPlace
      <3>3. rows[m].tree = home[q]
        BY <2>a, <3>1, <3>2, LivingKeeps
      <3>4. QED
        BY <2>2, <3>1, <3>2, <3>3 DEF LeftBehind, Seen
    <2>3. QED
      BY <2>1, <2>2
  <1>3. ASSUME NEW m \in Memories, writes[q][m] \in Rows
        PROVE  Detached(q, m)'
    <2>1. rows'[m] = rows[m]
      BY <1>3, WrittenStays, Sorts DEF Objects
    <2>2. QED
      BY <1>a, <1>b, <1>3, <2>1 DEF Deleter, Detached, Op
  <1>4. Done(q) => rows'[call[q].of] = Absent
    <2> SUFFICES ASSUME Done(q)
                 PROVE  rows'[call[q].of] = Absent
      OBVIOUS
    <2>1. home[q] \in Trees /\ home[q] # "none" /\ r \notin Trees
      BY <1>a, MemoryForestAssumption DEF Common, AtHome, OfHome, Objects, Memories
    <2>2. Settled(call[q].of) \/ call[q].of # r
      BY <1>a, <2>1 DEF Common, AtHome, OfHome, Of
    <2>3. QED
      BY <1>a, <2>2, CallType, GoneStays DEF Deleter
  <1>5. QED
    BY <1>a, <1>b, <1>1, <1>2, <1>3, <1>4 DEF Deleter, Op, Done

-----------------------------------------------------------------------------
(* What the step of a request leaves of what is known of itself.           *)

\* A step that writes nothing leaves what was written, and where.
LEMMA Quiet ==
  ASSUME IInv, FInv, NEW r \in Requests, Step(r), UNCHANGED rows,
         writes'[r] = writes[r], home'[r] = home[r]
  PROVE  /\ OfHome(r)' /\ \A o \in Objects : Shaped(r, o)'
         /\ Deletes(r) => \A m \in Memories : writes'[r][m] \in Rows => Detached(r, m)'
  <1>a. call' = call /\ Local(r) /\ TypeOK
    BY OthersStay DEF FInv, IInv
  <1>1. OfHome(r)'
    <2>1. Op(r) \in {"create", "drop"} \/ call[r].of \in Memories
      BY <1>a DEF TypeOK, Calls, Op
    <2>2. QED
      BY <1>a, <2>1, OfStays DEF Local, Common, AtHome, OfHome, Op
  <1>2. \A o \in Objects : Shaped(r, o)'
    BY <1>a DEF Local, Common, Shaped, Deletes, Op, NewRow, parent
  <1>3. Deletes(r) => \A m \in Memories : writes'[r][m] \in Rows => Detached(r, m)'
    BY <1>a DEF Local, Deleter, Detached, Op
  <1>4. QED
    BY <1>1, <1>2, <1>3

\* A statement that throws: nothing more is known of the request than what it wrote.
LEMMA Refused ==
  ASSUME IInv, FInv, NEW r \in Requests, Step(r), pc[r] \in Statements,
         NEW code \in {"refused", "conflict", "missing", "failed"}, Refuse(r, code),
         UNCHANGED <<rows, writes, home>>, walk' = walk \/ walk'[r] = Idle,
         pc[r] = "ancestors" => walk'[r] = Idle
  PROVE  Local(r)'
  <1>a. call' = call /\ Local(r) /\ TypeOK
    BY OthersStay DEF FInv, IInv
  <1>1. pc'[r] = "aborting" /\ answer'[r] = code
    BY <1>a, RefuseTo
  <1>2. rows'[r] = Absent
    BY StatementNames DEF IInv, Born
  <1>3. Common(r)'
    <2>1. InTurn(r)'
      BY <1>1 DEF InTurn, Creating, Updating, Clearing, Dropping
    <2>2. AtHome(r)'
      BY <1>1, Quiet DEF AtHome, Done
    <2>3. AnsweredLast(r)'
      BY <1>1, <1>2, StatementNames DEF AnsweredLast
    <2>4. walk'[r] = Idle
      BY <1>a DEF Local, Common
    <2>5. QED
      BY <2>1, <2>2, <2>3, <2>4, Quiet DEF Common
  <1>4. Creator(r)' /\ Mover(r)'
    BY <1>1 DEF Creator, Mover, Rereads, Done
  <1>5. Deletes(r)' => Deleter(r)'
    <2>1. Deletes(r)' = Deletes(r)
      BY <1>a DEF Deletes, Op
    <2>2. QED
      BY <1>1, <2>1, Quiet DEF Deleter, Done
  <1>6. QED
    BY <1>3, <1>4, <1>5 DEF Local

\* A statement that leads to another, or to COMMIT.
LEMMA Onward ==
  ASSUME IInv, FInv, NEW r \in Requests, Step(r), pc[r] \in Statements \ {"owner"},
         pc'[r] \in Statements \cup {"committing"}, answer' = answer, home' = home,
         InTurn(r)', OfHome(r)', \A o \in Objects : Shaped(r, o)',
         pc'[r] # "ancestors" => walk'[r] = Idle
  PROVE  Common(r)' /\ ~Done(r)'
  <1>a. Local(r) /\ TypeOK
    BY DEF FInv, IInv
  <1>1. answer'[r] = "none"
    BY <1>a DEF Local, Common, AnsweredLast
  <1>2. pc'[r] # "committed"
    BY StatementNames
  <1>3. home'[r] \in Trees
    BY DEF IInv, InPlace
  <1>4. QED
    BY <1>1, <1>2, <1>3 DEF Common, AtHome, AnsweredLast, Done

\* What a request is does not change.
LEMMA OpStays ==
  ASSUME IInv, NEW r \in Requests, Step(r)
  PROVE  /\ Op(r)' = Op(r) /\ Deletes(r)' = Deletes(r) /\ parent(r)' = parent(r)
         /\ Op(r) \in {"create", "update", "delete", "drop"}
  BY OthersStay, CallType DEF IInv, Op, Deletes, parent

\* The owner check.
LEMMA OwnReadOwner ==
  ASSUME IInv, FInv, NEW r \in Requests, Step(r), ReadOwner(r)
  PROVE  Local(r)'
  <1>a. call' = call /\ Local(r) /\ TypeOK /\ pc[r] \in Statements
    BY OthersStay, StatementNames DEF FInv, IInv, ReadOwner, At
  <1>1. CASE ~Owned(r)
    BY <1>a, <1>1, Refused DEF ReadOwner, locks, At
  <1>2. CASE Owned(r)
    <2>1. /\ pc[r] = "owner" /\ pc'[r] = AfterOwner(r) /\ answer' = answer
          /\ home'[r] = rows[call[r].of].tree /\ rows' = rows /\ writes' = writes
          /\ walk' = walk
      BY <1>a, <1>2, GoTo DEF ReadOwner, locks, TypeOK, At
    <2>2. writes[r] = Nothing /\ \A o \in Objects : writes[r][o] = Untouched
      BY <2>1 DEF IInv, Unwritten, Early, Nothing
    <2>3. rows[call[r].of] # Absent /\ home'[r] \in Trees
      BY <1>a, <1>2, <2>1, CallType DEF Owned, TypeOK, Rows
    <2>4. OfHome(r)'
      <3>1. CASE Op(r) \in {"create", "drop"}
        <4>1. call[r].of \in Trees
          BY <1>a, <3>1 DEF TypeOK, Calls, Op
        <4>2. rows[call[r].of].tree = call[r].of
          BY <2>3, <4>1 DEF FInv, TreeRowsStay, TreeRow
        <4>3. QED
          BY <1>a, <2>1, <3>1, <4>2 DEF OfHome, Op
      <3>2. CASE Op(r) \notin {"create", "drop"}
        <4>1. call[r].of \in Memories
          BY <1>a, <3>2 DEF TypeOK, Calls, Op
        <4>2. Of(call[r].of, rows[call[r].of].tree)
          BY <2>3, LivingSettled
        <4>3. QED
          BY <1>a, <2>1, <3>2, <4>1, <4>2, OfStays DEF OfHome, Op, Of
      <3>3. QED
        BY <3>1, <3>2
    <2>5. /\ pc'[r] \in {"parent", "existing", "insert", "graphLock", "update", "clear"}
          /\ Op(r) = "create" => pc'[r] \in {"parent", "existing", "insert"}
          /\ Op(r) = "create" /\ parent(r) # "none" => pc'[r] = "parent"
          /\ Op(r) = "update" => pc'[r] \in {"graphLock", "update"}
          /\ Op(r) = "update" /\ parent(r) # "none" => pc'[r] = "graphLock"
          /\ Deletes(r) => pc'[r] = "clear"
      BY <2>1, OpStays DEF AfterOwner, Deletes
    <2>6. InTurn(r)'
      BY <2>5, OpStays DEF InTurn, Creating, Updating, Clearing, Dropping, Deletes
    <2>7. Common(r)' /\ ~Done(r)'
      <3>1. answer'[r] = "none" /\ walk'[r] = Idle
        BY <1>a, <2>1 DEF Local, Common, AnsweredLast
      <3>2. \A o \in Objects : Shaped(r, o)'
        BY <2>1, <2>2, Sorts DEF Shaped
      <3>3. QED
        BY <2>3, <2>4, <2>5, <2>6, <3>1, <3>2 DEF Common, AtHome, AnsweredLast, Done
    <2>8. Op(r) = "create" => Creator(r)'
      BY <2>5, <2>7, OpStays DEF Creator, Rereads
    <2>9. Op(r) = "update" => Mover(r)'
      <3>1. CASE parent(r) = "none"
        BY <2>5, <3>1, OpStays DEF Mover
      <3>2. CASE parent(r) # "none"
        BY <2>5, <3>2, OpStays DEF Mover
      <3>3. QED
        BY <3>1, <3>2
    <2>10. Deletes(r) => Deleter(r)'
      <3>1. \A o \in Objects : writes'[r][o] \notin Rows \cup {Absent}
        BY <2>1, <2>2, Sorts
      <3>2. QED
        BY <2>3, <2>5, <2>7, <3>1, OpStays DEF Deleter, Objects
    <2>11. QED
      BY <2>7, <2>8, <2>9, <2>10, OpStays DEF Local
  <1>3. QED
    BY <1>1, <1>2

\* Of a creation only what is known of creations need be shown, and so on.
LEMMA LocalOf ==
  ASSUME IInv, NEW r \in Requests, Step(r), Common(r)'
  PROVE  /\ Op(r) = "create" /\ Creator(r)' => Local(r)'
         /\ Op(r) = "update" /\ Mover(r)' => Local(r)'
         /\ Deletes(r) /\ Deleter(r)' => Local(r)'
  BY OpStays DEF Local, Deletes

\* A creation locks its parent.
LEMMA OwnLockParent ==
  ASSUME IInv, FInv, NEW r \in Requests, Step(r), LockParent(r)
  PROVE  Local(r)'
  <1>a. /\ call' = call /\ Local(r) /\ TypeOK /\ pc[r] = "parent"
        /\ pc[r] \in Statements \ {"owner"} /\ pc[r] # "ancestors"
    BY OthersStay, StatementNames DEF FInv, IInv, LockParent, At
  <1>b. rows' = rows /\ writes' = writes /\ home' = home /\ walk' = walk
    BY DEF LockParent
  <1>1. CASE Refuse(r, "refused")
    BY <1>a, <1>b, <1>1, Refused
  <1>2. CASE ~Refuse(r, "refused")
    <2>1. /\ pc'[r] \in {"existing", "insert"} /\ answer' = answer
          /\ rows[parent(r)].tree = home[r] /\ Share(r, {parent(r)})
      BY <1>a, <1>2, GoTo DEF LockParent
    <2>2. Op(r) = "create" /\ walk'[r] = Idle
      BY <1>a, <1>b DEF Local, Common, InTurn, Creating
    <2>3. InTurn(r)'
      BY <2>1, <2>2, OpStays DEF InTurn, Creating, Updating, Clearing, Dropping
    <2>4. Common(r)' /\ ~Done(r)'
      BY <1>a, <1>b, <2>1, <2>2, <2>3, Onward, Quiet, StatementNames
    <2>5. parent(r) \in shared'[r]
      BY <1>a, <2>1 DEF Share, TypeOK
    <2>6. Creator(r)'
      BY <1>b, <2>1, <2>4, <2>5, OpStays DEF Creator, Rereads
    <2>7. QED
      BY <2>2, <2>4, <2>6, LocalOf
  <1>3. QED
    BY <1>1, <1>2

\* The key pre-check.
LEMMA OwnFindExisting ==
  ASSUME IInv, FInv, NEW r \in Requests, Step(r), FindExisting(r)
  PROVE  Local(r)'
  <1>a. /\ call' = call /\ Local(r) /\ TypeOK /\ pc[r] = "existing"
        /\ pc[r] \in Statements \ {"owner"} /\ pc[r] # "ancestors"
    BY OthersStay, StatementNames DEF FInv, IInv, FindExisting, At
  <1>b. rows' = rows /\ writes' = writes /\ home' = home /\ walk' = walk
        /\ answer' = answer
    BY DEF FindExisting
  <1>1. pc'[r] \in {"rereadExisting", "insert"}
    BY <1>a, GoTo DEF FindExisting
  <1>2. Op(r) = "create" /\ walk'[r] = Idle
    BY <1>a, <1>b DEF Local, Common, InTurn, Creating
  <1>3. InTurn(r)'
    BY <1>1, <1>2, OpStays DEF InTurn, Creating, Updating, Clearing, Dropping
  <1>4. Common(r)' /\ ~Done(r)'
    BY <1>a, <1>b, <1>1, <1>2, <1>3, Onward, Quiet, StatementNames
  <1>5. shared[r] \subseteq shared'[r]
    BY <1>a DEF FindExisting, Share, TypeOK
  <1>6. Creator(r)'
    BY <1>a, <1>b, <1>1, <1>2, <1>4, <1>5, OpStays DEF Local, Creator, Rereads
  <1>7. QED
    BY <1>2, <1>4, <1>6, LocalOf

\* INSERT ... ON CONFLICT DO NOTHING.
LEMMA OwnInsert ==
  ASSUME IInv, FInv, NEW r \in Requests, Step(r), Insert(r)
  PROVE  Local(r)'
  <1>a. /\ call' = call /\ Local(r) /\ TypeOK /\ pc[r] = "insert"
        /\ pc[r] \in Statements \ {"owner"} /\ pc[r] # "ancestors"
    BY OthersStay, StatementNames DEF FInv, IInv, Insert, At
  <1>b. rows' = rows /\ home' = home /\ walk' = walk /\ answer' = answer
        /\ shared' = shared
    BY DEF Insert
  <1>1. Op(r) = "create" /\ walk'[r] = Idle
    BY <1>a, <1>b DEF Local, Common, InTurn, Creating
  <1>2. CASE pc'[r] = "rereadConflict" /\ writes' = writes
    <2>1. InTurn(r)'
      BY <1>1, <1>2, OpStays DEF InTurn, Creating, Updating, Clearing, Dropping
    <2>2. Common(r)' /\ ~Done(r)'
      BY <1>a, <1>b, <1>1, <1>2, <2>1, Onward, Quiet, StatementNames
    <2>3. Creator(r)'
      BY <1>a, <1>b, <1>1, <1>2, <2>2, OpStays DEF Local, Creator, Rereads
    <2>4. QED
      BY <1>1, <2>2, <2>3, LocalOf
  <1>3. CASE pc'[r] = "reference" /\ Write(r, r, NewRow(r))
    <2>1. r \in Objects /\ r \in Memories /\ NewRow(r) \in Rows
      <3>1. home[r] \in Trees
        BY <1>a DEF IInv, InPlace
      <3>2. QED
        BY <1>a, <3>1, CallType DEF NewRow, Rows, Objects, Memories
    <2>2. /\ writes'[r][r] = NewRow(r)
          /\ \A o \in Objects \ {r} : writes'[r][o] = Untouched
      <3>1. \A o \in Objects : writes[r][o] = Untouched
        BY <1>a DEF IInv, Unwritten, Early, Nothing
      <3>2. QED
        BY <1>a, <1>3, <2>1, <3>1, WriteCells
    <2>3. NewRow(r)' = NewRow(r)
      BY <1>a, <1>b DEF NewRow, parent
    <2>4. \A o \in Objects : Shaped(r, o)'
      BY <1>1, <2>1, <2>2, <2>3, Sorts, OpStays DEF Shaped
    <2>5. OfHome(r)'
      BY <1>a, <1>b, <1>1, OpStays DEF Local, Common, AtHome, OfHome
    <2>6. InTurn(r)'
      BY <1>1, <1>3, OpStays DEF InTurn, Creating, Updating, Clearing, Dropping
    <2>7. Common(r)' /\ ~Done(r)'
      BY <1>a, <1>b, <1>1, <1>3, <2>4, <2>5, <2>6, Onward, StatementNames
    <2>8. Creator(r)'
      BY <1>a, <1>b, <1>1, <1>3, <2>2, <2>3, <2>7, OpStays DEF Local, Creator, Rereads
    <2>9. QED
      BY <1>1, <2>7, <2>8, LocalOf
  <1>4. QED
    BY <1>a, <1>2, <1>3, GoTo DEF Insert

\* The check of the references, of a creation and of a reparenting.
LEMMA OwnCheckReferences ==
  ASSUME IInv, FInv, NEW r \in Requests, Step(r), CheckReferences(r)
  PROVE  Local(r)'
  <1>a. /\ call' = call /\ Local(r) /\ TypeOK /\ pc[r] = "reference"
        /\ pc[r] \in Statements \ {"owner"} /\ pc[r] # "ancestors"
    BY OthersStay, StatementNames DEF FInv, IInv, CheckReferences, At
  <1>b. rows' = rows /\ writes' = writes /\ home' = home /\ walk' = walk
        /\ graph' = graph
    BY DEF CheckReferences
  <1>1. CASE Refuse(r, "failed")
    BY <1>a, <1>b, <1>1, Refused
  <1>2. CASE ~Refuse(r, "failed")
    <2>1. /\ pc'[r] = IF Op(r) = "create" THEN "rereadInserted" ELSE "committing"
          /\ answer' = answer /\ Share(r, Referenced(r))
      BY <1>a, <1>2, GoTo DEF CheckReferences
    <2>2. Op(r) \in {"create", "update"} /\ walk'[r] = Idle
      BY <1>a, <1>b DEF Local, Common, InTurn
    <2>3. InTurn(r)'
      BY <2>1, <2>2, OpStays DEF InTurn, Creating, Updating, Clearing, Dropping
    <2>4. Common(r)' /\ ~Done(r)'
      BY <1>a, <1>b, <2>1, <2>2, <2>3, Onward, Quiet, StatementNames
    <2>5. shared'[r] = shared[r] \cup Referenced(r)
      BY <1>a, <2>1 DEF Share, TypeOK
    <2>6. CASE Op(r) = "create"
      <3>1. home[r] \in shared'[r]
        BY <2>5, <2>6 DEF Referenced
      <3>2. NewRow(r)' = NewRow(r)
        BY <1>a, <1>b DEF NewRow, parent
      <3>3. Creator(r)'
        BY <1>a, <1>b, <2>1, <2>4, <2>5, <2>6, <3>1, <3>2, OpStays
           DEF Local, Creator, Rereads
      <3>4. QED
        BY <2>4, <2>6, <3>3, LocalOf
    <2>7. CASE Op(r) = "update"
      <3>1. parent(r) # "none" => parent(r) \in shared'[r]
        BY <2>5 DEF Referenced
      <3>2. CASE parent(r) = "none"
        <4>1. Mover(r)'
          BY <1>a, <1>b, <2>1, <2>7, <3>2, OpStays DEF Local, Mover
        <4>2. QED
          BY <2>4, <2>7, <4>1, LocalOf
      <3>3. CASE parent(r) # "none"
        <4>1. PICK S \in SUBSET Memories : Climbed(r, S, "none")
          BY <1>a, <2>7, <3>3 DEF Local, Mover
        <4>2. Climbed(r, S, "none")' /\ Of(parent(r), home[r])'
          <5>1. parent(r) \in Memories
            BY <1>a, <3>3, CallType
          <5>2. Of(parent(r), home[r])
            BY <1>a, <2>7, <3>3 DEF Local, Mover
          <5>3. QED
            BY <1>a, <1>b, <4>1, <5>1, <5>2, OfStays DEF Climbed, Of, parent
        <4>3. Mover(r)'
          BY <1>a, <1>b, <2>1, <2>7, <3>1, <3>3, <4>2, OpStays DEF Local, Mover
        <4>4. QED
          BY <2>4, <2>7, <4>3, LocalOf
      <3>4. QED
        BY <3>2, <3>3
    <2>8. QED
      BY <2>2, <2>6, <2>7
  <1>3. QED
    BY <1>1, <1>2

\* The canonical reread.
LEMMA OwnReread ==
  ASSUME IInv, FInv, NEW r \in Requests, Step(r), Reread(r)
  PROVE  Local(r)'
  <1>a. /\ call' = call /\ Local(r) /\ TypeOK /\ pc[r] \in Rereads
        /\ pc[r] \in Statements \ {"owner"} /\ pc[r] # "ancestors"
    BY OthersStay, StatementNames DEF FInv, IInv, Reread, Rereads
  <1>b. rows' = rows /\ writes' = writes /\ home' = home /\ walk' = walk
        /\ shared' = shared
    BY DEF Reread, locks
  <1>1. ASSUME NEW code \in {"refused", "conflict", "missing", "failed"}, Refuse(r, code)
        PROVE  Local(r)'
    BY <1>a, <1>b, <1>1, Refused
  <1>2. ASSUME NEW m \in IF At(r, "rereadInserted") THEN {r}
                         ELSE {n \in Memories : Bound(r, Seen(r, n))},
               result' = [result EXCEPT ![r] = m], Go(r, "committing"), answer' = answer
        PROVE  Local(r)'
    <2>1. pc'[r] = "committing" /\ result'[r] = m
      BY <1>a, <1>2, GoTo DEF TypeOK
    <2>2. Op(r) = "create" /\ walk'[r] = Idle
      BY <1>a, <1>b DEF Local, Common, InTurn, Creating, Rereads
    <2>3. InTurn(r)'
      BY <2>1, <2>2, OpStays DEF InTurn, Creating, Updating, Clearing, Dropping
    <2>4. Common(r)' /\ ~Done(r)'
      BY <1>a, <1>b, <1>2, <2>1, <2>2, <2>3, Onward, Quiet
    <2>5. m \in Memories /\ m \in Objects /\ home[r] \in Trees
      BY <1>a, <1>2 DEF Memories, Objects, IInv, InPlace
    <2>6. Bound(r, Seen(r, m))
      <3>1. CASE At(r, "rereadInserted")
        <4>1. m = r /\ writes[r][r] = NewRow(r) /\ NewRow(r) # Untouched
          BY <1>a, <1>2, <2>2, <2>5, <3>1, MemoryForestAssumption
             DEF Local, Creator, At, NewRow, Untouched
        <4>2. QED
          BY <4>1 DEF Seen, Bound, NewRow
      <3>2. CASE ~At(r, "rereadInserted")
        BY <1>2, <3>2
      <3>3. QED
        BY <3>1, <3>2
    <2>7. m # r => Settled(m)
      <3> SUFFICES ASSUME m # r
                   PROVE  Settled(m)
        OBVIOUS
      <3>1. Seen(r, m) # Absent
        BY <2>5, <2>6, MemoryForestAssumption DEF Bound, Absent
      <3>2. rows[m] # Absent
        BY <2>5, <3>1 DEF Seen, IInv, Exclusive
      <3>3. QED
        BY <3>2, LivingSettled
    <2>8. Returned(r)'
      <3>1. Bound(r, Seen(r, m))' /\ (m # r => Settled(m)')
        BY <1>a, <1>b, <2>6, <2>7, OfStays DEF Bound, Seen
      <3>2. QED
        BY <2>1, <2>5, <3>1 DEF Returned
    <2>9. writes[r][r] # Untouched => home[r] \in shared[r]
      <3>1. CASE At(r, "rereadInserted")
        BY <1>a, <2>2, <3>1 DEF Local, Creator, At
      <3>2. CASE ~At(r, "rereadInserted")
        <4>1. writes[r] = Nothing
          BY <1>a, <3>2 DEF IInv, Unwritten, Early, At, Rereads
        <4>2. QED
          BY <4>1 DEF Nothing, Objects, Memories
      <3>3. QED
        BY <3>1, <3>2
    <2>10. Creator(r)'
      BY <1>a, <1>b, <2>1, <2>2, <2>4, <2>8, <2>9, OpStays DEF Local, Creator, Rereads
    <2>11. QED
      BY <2>2, <2>4, <2>10, LocalOf
  <1>3. QED
    BY <1>1, <1>2 DEF Reread

\* A reparenting takes its tree's graph, and finds its memory where it was.
LEMMA OwnGraphAndSource ==
  ASSUME IInv, FInv, NEW r \in Requests, Step(r), TakeGraphLock(r) \/ ReadSource(r)
  PROVE  Local(r)'
  <1>a. /\ call' = call /\ Local(r) /\ TypeOK /\ pc[r] \in {"graphLock", "source"}
        /\ pc[r] \in Statements \ {"owner"} /\ pc[r] # "ancestors"
    BY OthersStay, StatementNames DEF FInv, IInv, TakeGraphLock, ReadSource, At
  <1>b. rows' = rows /\ writes' = writes /\ home' = home /\ walk' = walk
    BY DEF TakeGraphLock, ReadSource, locks
  <1>1. CASE Refuse(r, "refused")
    BY <1>a, <1>b, <1>1, Refused
  <1>2. CASE ~Refuse(r, "refused")
    <2>1. pc'[r] \in {"source", "target"} /\ answer' = answer
      BY <1>a, <1>2, GoTo DEF TakeGraphLock, ReadSource
    <2>2. Op(r) = "update" /\ walk'[r] = Idle
      BY <1>a, <1>b DEF Local, Common, InTurn, Updating
    <2>3. InTurn(r)'
      BY <2>1, <2>2, OpStays DEF InTurn, Creating, Updating, Clearing, Dropping
    <2>4. Common(r)' /\ ~Done(r)'
      BY <1>a, <1>b, <2>1, <2>2, <2>3, Onward, Quiet, StatementNames
    <2>5. parent(r) # "none" /\ home[r] \in Trees
      BY <1>a DEF IInv, InPlace
    <2>6. graph'[home[r]] = r /\ parent(r) # call[r].of
      <3>1. CASE TakeGraphLock(r)
        BY <1>a, <1>2, <2>5, <3>1 DEF TakeGraphLock, TypeOK
      <3>2. CASE ReadSource(r)
        <4>1. pc[r] = "source" /\ graph' = graph
          BY <3>2 DEF ReadSource, locks, At
        <4>2. QED
          BY <1>a, <2>2, <2>5, <4>1 DEF Local, Mover
      <3>3. QED
        BY <3>1, <3>2
    <2>7. Mover(r)'
      BY <1>a, <1>b, <2>1, <2>6, OpStays DEF Mover
    <2>8. QED
      BY <2>2, <2>4, <2>7, LocalOf
  <1>3. QED
    BY <1>1, <1>2

\* The new parent is in the tree.
LEMMA OwnReadTarget ==
  ASSUME IInv, FInv, NEW r \in Requests, Step(r), ReadTarget(r)
  PROVE  Local(r)'
  <1>a. /\ call' = call /\ Local(r) /\ TypeOK /\ pc[r] = "target"
        /\ pc[r] \in Statements \ {"owner"} /\ pc[r] # "ancestors"
    BY OthersStay, StatementNames DEF FInv, IInv, ReadTarget, At
  <1>b. rows' = rows /\ writes' = writes /\ home' = home /\ graph' = graph
    BY DEF ReadTarget, locks
  <1>1. CASE Refuse(r, "refused") /\ walk' = walk
    BY <1>a, <1>b, <1>1, Refused
  <1>2. CASE /\ rows[parent(r)].tree = home[r] /\ pc'[r] = "ancestors"
             /\ walk' = [walk EXCEPT ![r].at = parent(r)] /\ answer' = answer
    <2>1. Op(r) = "update" /\ walk[r] = Idle
      BY <1>a DEF Local, Common, InTurn, Updating
    <2>2. InTurn(r)'
      BY <1>2, <2>1, OpStays DEF InTurn, Creating, Updating, Clearing, Dropping
    <2>3. Common(r)' /\ ~Done(r)'
      BY <1>a, <1>b, <1>2, <2>1, <2>2, Onward, Quiet, StatementNames
    <2>4. parent(r) \in Memories /\ home[r] \in Trees /\ parent(r) # "none"
      BY <1>a, CallType DEF IInv, InPlace
    <2>5. Of(parent(r), home[r])
      <3>1. rows[parent(r)] # Absent
        BY <1>2, <2>4, MemoryForestAssumption DEF Absent
      <3>2. QED
        BY <1>2, <3>1, LivingSettled
    <2>6. walk'[r].at = parent(r) /\ walk'[r].seen = {}
      BY <1>a, <1>2, <2>1 DEF TypeOK, Idle
    <2>7. Of(parent(r), home[r])'
      BY <1>a, <1>b, <2>4, <2>5, OfStays DEF Of, parent
    <2>8. Of(walk[r].at, home[r])'
      BY <1>a, <2>6, <2>7 DEF Of, parent
    <2>9. Climbed(r, walk[r].seen, walk[r].at)'
      <3>1. call[r].of # "none" /\ parent(r)' = parent(r)
        BY <1>a, CallType, OpStays, MemoryForestAssumption
      <3>2. QED
        BY <1>a, <2>6, <3>1 DEF Climbed
    <2>10. Mover(r)'
      BY <1>a, <1>b, <1>2, <2>1, <2>4, <2>7, <2>8, <2>9, OpStays DEF Local, Mover
    <2>11. QED
      BY <2>1, <2>3, <2>10, LocalOf
  <1>3. QED
    BY <1>a, <1>1, <1>2, GoTo DEF ReadTarget

\* One turn of the ancestor walk.
LEMMA OwnReadAncestor ==
  ASSUME IInv, FInv, NEW r \in Requests, Step(r), ReadAncestor(r)
  PROVE  Local(r)'
  <1>a. /\ call' = call /\ Local(r) /\ TypeOK /\ pc[r] = "ancestors"
        /\ pc[r] \in Statements \ {"owner"}
    BY OthersStay, StatementNames DEF FInv, IInv, ReadAncestor, At
  <1>b. rows' = rows /\ writes' = writes /\ home' = home /\ graph' = graph
    BY DEF ReadAncestor, locks
  <1>c. PICK at \in Memories, seen \in SUBSET Memories :
          at = walk[r].at /\ seen = walk[r].seen
    BY <1>a DEF IInv, TypeOK, InPlace
  <1>d. Op(r) = "update" /\ home[r] \in Trees
    BY <1>a DEF Local, Common, InTurn, Updating, IInv, InPlace
  <1>1. CASE at \in seen \cup {call[r].of}
    <2>1. Refuse(r, "refused") /\ walk' = [walk EXCEPT ![r] = Idle]
      BY <1>c, <1>1 DEF ReadAncestor
    <2>2. walk'[r] = Idle
      BY <1>a, <2>1 DEF TypeOK
    <2>3. QED
      BY <1>a, <1>b, <2>1, <2>2, Refused
  <1>2. CASE at \notin seen \cup {call[r].of}
    <2>1. at \notin seen \cup {call[r].of} /\ answer' = answer
      BY <1>c, <1>2 DEF ReadAncestor
    <2>2. \/ /\ rows[at].parent = "none" /\ pc'[r] = "update" /\ walk'[r] = Idle
          \/ /\ rows[at].parent # "none" /\ pc'[r] = "ancestors"
             /\ walk'[r].at = rows[at].parent /\ walk'[r].seen = seen \cup {at}
      <3>1. \/ /\ rows[at].parent = "none" /\ Go(r, "update")
               /\ walk' = [walk EXCEPT ![r] = Idle]
            \/ /\ rows[at].parent # "none" /\ pc' = pc
               /\ walk' = [walk EXCEPT ![r] =
                    [at |-> rows[at].parent, seen |-> seen \cup {at}]]
        BY <1>c, <2>1 DEF ReadAncestor
      <3>2. QED
        BY <1>a, <3>1, GoTo DEF TypeOK
    <2>3. InTurn(r)'
      BY <1>d, <2>2, OpStays DEF InTurn, Creating, Updating, Clearing, Dropping
    <2>4. Common(r)' /\ ~Done(r)'
      BY <1>a, <1>b, <1>c, <2>1, <2>2, <2>3, Onward, Quiet, StatementNames
    <2>5. CASE parent(r) = "none"
      <3>1. Mover(r)'
        BY <2>2, <2>5, OpStays DEF Mover
      <3>2. QED
        BY <1>d, <2>4, <3>1, LocalOf
    <2>6. CASE parent(r) # "none"
      <3>1. /\ graph[home[r]] = r /\ parent(r) # call[r].of /\ Of(parent(r), home[r])
            /\ Of(at, home[r]) /\ Climbed(r, seen, at)
        BY <1>a, <1>c, <1>d, <2>6 DEF Local, Mover
      <3>2. Of(parent(r), home[r])' /\ Of(at, home[r])'
        <4>1. parent(r) \in Memories
          BY <1>a, <2>6, CallType
        <4>2. QED
          BY <1>a, <1>b, <3>1, <4>1, OfStays DEF Of, parent
      <3>3. \A m \in seen : Of(m, home[r])'
        BY <1>b, <3>1, OfStays DEF Climbed, Of
      <3>4. CASE rows[at].parent = "none" /\ pc'[r] = "update"
        <4> DEFINE S == seen \cup {at}
        <4>1. S \in SUBSET Memories
          OBVIOUS
        <4>2. Climbed(r, S, "none")'
          BY <1>a, <1>b, <2>1, <3>1, <3>2, <3>3, <3>4 DEF Climbed, parent
        <4>3. Mover(r)'
          BY <1>a, <1>b, <3>1, <3>2, <3>4, <4>1, <4>2, OpStays DEF Mover
        <4>4. QED
          BY <1>d, <2>4, <4>3, LocalOf
      <3>5. CASE /\ rows[at].parent # "none" /\ pc'[r] = "ancestors"
                 /\ walk'[r].at = rows[at].parent /\ walk'[r].seen = seen \cup {at}
        <4>1. rows[at] # Absent
          BY <3>5 DEF Absent
        <4>2. PICK up \in Memories : up = rows[at].parent /\ rows[up] # Absent
                                    /\ rows[up].tree = home[r]
          BY <3>1, <3>5, <4>1 DEF FInv, ReferencesHold, Living, Of
        <4>3. Of(up, home[r])'
          BY <1>a, <1>b, <4>2, LivingSettled, OfStays DEF Of
        <4>4. Of(walk[r].at, home[r])'
          BY <3>5, <4>2, <4>3
        <4>5. Climbed(r, seen \cup {at}, up)'
          BY <1>a, <1>b, <2>1, <3>1, <3>2, <3>3, <4>2 DEF Climbed, parent
        <4>6. Climbed(r, walk[r].seen, walk[r].at)'
          BY <3>5, <4>2, <4>5
        <4>7. Mover(r)'
          BY <1>a, <1>b, <3>1, <3>2, <3>5, <4>4, <4>6, OpStays DEF Mover
        <4>8. QED
          BY <1>d, <2>4, <4>7, LocalOf
      <3>6. QED
        BY <2>2, <3>4, <3>5
    <2>7. QED
      BY <2>5, <2>6
  <1>3. QED
    BY <1>1, <1>2

\* The UPDATE of the memory that moves.
LEMMA OwnUpdate ==
  ASSUME IInv, FInv, NEW r \in Requests, Step(r), Update(r)
  PROVE  Local(r)'
  <1>a. /\ call' = call /\ Local(r) /\ TypeOK /\ pc[r] = "update"
        /\ pc[r] \in Statements \ {"owner"} /\ pc[r] # "ancestors"
    BY OthersStay, StatementNames DEF FInv, IInv, Update, At
  <1>b. rows' = rows /\ home' = home /\ graph' = graph /\ walk' = walk
        /\ shared' = shared
    BY DEF Update
  <1>c. Op(r) = "update" /\ home[r] \in Trees /\ walk'[r] = Idle
    BY <1>a, <1>b DEF Local, Common, InTurn, Updating, IInv, InPlace
  <1>1. CASE rows[call[r].of] = Absent
    BY <1>a, <1>b, <1>1, Refused DEF Update
  <1>2. CASE rows[call[r].of] # Absent
    <2>1. PICK m \in Memories : m = call[r].of /\ m \in Objects /\ rows[m] \in Rows
      <3>1. call[r].of \in Memories
        BY <1>a, <1>c DEF TypeOK, Calls, Op
      <3>2. QED
        BY <1>a, <1>2, <3>1 DEF TypeOK, Objects
    <2>2. /\ Write(r, m, [rows[m] EXCEPT !.parent = parent(r)]) /\ answer' = answer
          /\ Go(r, IF parent(r) \in {"none", rows[m].parent} THEN "committing"
                   ELSE "reference")
      BY <1>2, <2>1 DEF Update
    <2>3. /\ pc'[r] \in {"committing", "reference"}
          /\ pc'[r] = "committing" => parent(r) \in {"none", rows[m].parent}
      BY <1>a, <2>2, GoTo
    <2>4. /\ writes'[r][m] \in Rows /\ writes'[r][m].parent = parent(r)
          /\ \A o \in Objects \ {m} : writes'[r][o] = Untouched
      <3>1. \A o \in Objects : writes[r][o] = Untouched
        BY <1>a DEF IInv, Unwritten, Early, Nothing
      <3>2. parent(r) \in Memories \cup {"none"}
        BY <1>a, CallType
      <3>3. PICK row : row = [rows[m] EXCEPT !.parent = parent(r)]
        OBVIOUS
      <3>4. row \in Rows /\ row.parent = parent(r)
        BY <2>1, <3>2, <3>3 DEF Rows
      <3>5. /\ writes'[r][m] = row
            /\ \A o \in Objects \ {m} : writes'[r][o] = writes[r][o]
        BY <1>a, <2>1, <2>2, <3>3, WriteCells
      <3>6. QED
        BY <3>1, <3>4, <3>5
    <2>5. \A o \in Objects : Shaped(r, o)'
      BY <1>a, <1>b, <1>c, <1>2, <2>1, <2>4, Sorts, OpStays DEF Shaped
    <2>6. OfHome(r)'
      <3>1. Of(m, home[r])
        BY <1>a, <1>c, <2>1, MemoryForestAssumption
           DEF Local, Common, AtHome, OfHome, Objects
      <3>2. QED
        BY <1>a, <1>b, <1>c, <2>1, <3>1, OpStays, OfStays DEF OfHome, Of
    <2>7. InTurn(r)'
      BY <1>c, <2>3, OpStays DEF InTurn, Creating, Updating, Clearing, Dropping
    <2>8. Common(r)' /\ ~Done(r)'
      BY <1>a, <1>b, <1>c, <2>2, <2>3, <2>5, <2>6, <2>7, Onward, StatementNames
    <2>9. writes'[r][call'[r].of] # Untouched
      BY <1>a, <2>1, <2>4, Sorts
    <2>10. CASE parent(r) = "none"
      <3>1. Mover(r)'
        BY <2>9, <2>10, OpStays DEF Mover
      <3>2. QED
        BY <1>c, <2>8, <3>1, LocalOf
    <2>11. CASE parent(r) # "none"
      <3>1. /\ graph[home[r]] = r /\ parent(r) # call[r].of /\ Of(parent(r), home[r])
        BY <1>a, <1>c, <2>11 DEF Local, Mover
      <3>2. Of(parent(r), home[r])'
        <4>1. parent(r) \in Memories
          BY <1>a, <2>11, CallType
        <4>2. QED
          BY <1>a, <1>b, <3>1, <4>1, OfStays DEF Of, parent
      <3>3. PICK S \in SUBSET Memories : Climbed(r, S, "none")
        BY <1>a, <1>c, <2>11 DEF Local, Mover
      <3>4. Climbed(r, S, "none")'
        BY <1>a, <1>b, <3>3, OfStays DEF Climbed, Of, parent
      <3>5. Mover(r)'
        BY <1>a, <1>b, <2>1, <2>3, <2>9, <3>1, <3>2, <3>4, OpStays DEF Mover
      <3>6. QED
        BY <1>c, <2>8, <3>5, LocalOf
    <2>12. QED
      BY <2>10, <2>11
  <1>3. QED
    BY <1>1, <1>2

\* A sweep belongs to a deletion, and leads on as a deletion does.
LEMMA SweepPlaces ==
  ASSUME IInv, FInv, NEW r \in Requests, NEW sweep \in Sweeps,
         pc[r] \in {sweep, Taking[sweep]}
  PROVE  /\ pc[r] \in Statements \ {"owner"} /\ pc[r] # "ancestors" /\ Deletes(r)
         /\ sweep \in {"erase", "cascade"} => Op(r) = "drop"
         /\ AfterSweep(r, sweep) \in {"remove", "erase", "orphan", "committing",
                                      "dropTree"}
         /\ AfterSweep(r, sweep) = "remove" => Op(r) = "delete"
         /\ AfterSweep(r, sweep) \in {"erase", "dropTree"} => Op(r) = "drop"
         /\ walk[r] = Idle
  <1>a. Local(r)
    BY DEF FInv
  <1>b. pc[r] \in Clearing \cup Dropping
    BY DEF Sweeps, Taking, Clearing, Dropping
  <1>c. Deletes(r) /\ (pc[r] \in Dropping => Op(r) = "drop")
    BY <1>a, <1>b DEF Local, Common, InTurn, Deletes
  <1>1. sweep \in {"erase", "cascade"} => Op(r) = "drop"
    BY <1>c DEF Taking, Dropping
  <1>2. pc[r] \in Statements \ {"owner"} /\ pc[r] # "ancestors"
    BY <1>b, StatementNames DEF Clearing, Dropping
  <1>3. /\ AfterSweep(r, sweep) = "remove" => Op(r) = "delete"
        /\ AfterSweep(r, sweep) \in {"erase", "dropTree"} => Op(r) = "drop"
    BY <1>c DEF AfterSweep, Sweeps, Deletes
  <1>4. walk[r] = Idle
    BY <1>a, <1>2 DEF Local, Common
  <1>5. QED
    BY <1>c, <1>1, <1>2, <1>3, <1>4, AfterSweepIn

\* Where a sweep leads, nothing is out of turn.
LEMMA SweepTurn ==
  ASSUME IInv, FInv, NEW r \in Requests, Step(r), NEW sweep \in Sweeps,
         pc[r] \in {sweep, Taking[sweep]},
         pc'[r] \in {AfterSweep(r, sweep), Taking[sweep]}
  PROVE  /\ InTurn(r)' /\ pc'[r] \in Statements \cup {"committing"}
         /\ pc'[r] # "ancestors"
  <1>1. CASE pc'[r] = AfterSweep(r, sweep)
    BY <1>1, SweepPlaces, OpStays, StatementNames
       DEF InTurn, Creating, Updating, Clearing, Dropping
  <1>2. CASE pc'[r] = Taking[sweep]
    BY <1>2, SweepPlaces, OpStays, StatementNames
       DEF InTurn, Creating, Updating, Clearing, Dropping, Sweeps, Taking
  <1>3. QED
    BY <1>1, <1>2

\* A sweep reads its snapshot.
LEMMA OwnScan ==
  ASSUME IInv, FInv, NEW r \in Requests, Step(r), NEW sweep \in Sweeps, Scan(r, sweep)
  PROVE  Local(r)'
  <1> DEFINE found == {m \in Memories : Qualifies(r, sweep, m)}
  <1>a. /\ call' = call /\ Local(r) /\ TypeOK /\ pc[r] = sweep
        /\ pc[r] \in {sweep, Taking[sweep]}
    BY OthersStay DEF FInv, IInv, Scan, At
  <1>b. rows' = rows /\ writes' = writes /\ home' = home /\ walk' = walk
        /\ answer' = answer
    BY DEF Scan, locks
  <1>c. /\ pc'[r] = IF found = {} THEN AfterSweep(r, sweep) ELSE Taking[sweep]
        /\ todo'[r] = found
    BY <1>a, GoTo DEF Scan, TypeOK
  <1>1. Deletes(r) /\ Common(r)' /\ ~Done(r)'
    BY <1>a, <1>b, <1>c, SweepPlaces, SweepTurn, Onward, Quiet
  <1>2. Deleter(r)
    BY <1>a, <1>1 DEF Local
  <1>3. \A m \in Memories : /\ Orphaned(r, m)' = Orphaned(r, m)
                             /\ LeftBehind(r, m)' = LeftBehind(r, m)
    BY <1>a, <1>b DEF Orphaned, LeftBehind, Seen, Op
  <1>4. \A m \in Memories : writes'[r][m] \in Rows => Detached(r, m)'
    BY <1>b, <1>1, Quiet
  <1>5. CASE sweep = "clear"
    <2>1. pc'[r] \in {"remove", "erase", "clearing"}
      BY <1>c, <1>5 DEF AfterSweep, Taking
    <2>2. Deleter(r)'
      BY <1>a, <1>b, <1>1, <1>2, <1>4, <1>5, <2>1, OpStays DEF Deleter
    <2>3. QED
      BY <1>1, <2>2, LocalOf
  <1>6. CASE sweep = "erase"
    <2>1. /\ Op(r) = "drop" /\ pc'[r] \in {"orphan", "erasing"}
          /\ pc'[r] = "orphan" => \A m \in Memories : ~LeftBehind(r, m)
      BY <1>a, <1>c, <1>6, SweepPlaces DEF AfterSweep, Taking, Qualifies, LeftBehind
    <2>2. Deleter(r)'
      BY <1>a, <1>b, <1>1, <1>2, <1>3, <1>4, <1>6, <2>1, OpStays DEF Deleter
    <2>3. QED
      BY <1>1, <2>2, LocalOf
  <1>7. CASE sweep = "orphan"
    <2>1. /\ pc'[r] \in {"orphaning", "committing", "dropTree"}
          /\ pc'[r] = "committing" => Op(r) = "delete" \/ writes[r][home[r]] = Absent
      BY <1>c, <1>7 DEF AfterSweep, Taking
    <2>2. pc'[r] \in {"orphaning", "committing"} =>
            \A m \in Memories : Orphaned(r, m) => pc'[r] = "orphaning" /\ m \in todo'[r]
      BY <1>c, <1>7, <2>1 DEF AfterSweep, Taking, Qualifies, Orphaned
    <2>3. Deleter(r)'
      BY <1>a, <1>b, <1>1, <1>2, <1>3, <1>4, <1>7, <2>1, <2>2, OpStays DEF Deleter
    <2>4. QED
      BY <1>1, <2>3, LocalOf
  <1>8. CASE sweep = "cascade"
    <2>1. Op(r) = "drop" /\ pc'[r] \in {"orphan", "cascading"}
      BY <1>a, <1>c, <1>8, SweepPlaces DEF AfterSweep, Taking
    <2>2. \A m \in Memories : LeftBehind(r, m) => pc'[r] = "cascading" /\ m \in todo'[r]
      BY <1>c, <1>8 DEF Taking, Qualifies, LeftBehind
    <2>3. Deleter(r)'
      BY <1>a, <1>b, <1>1, <1>2, <1>3, <1>4, <1>8, <2>1, <2>2, OpStays DEF Deleter
    <2>4. QED
      BY <1>1, <2>3, LocalOf
  <1>9. QED
    BY <1>5, <1>6, <1>7, <1>8 DEF Sweeps

\* What r deleted stays deleted until it ends; the row it makes of another is there.
LEMMA TakeCells ==
  ASSUME IInv, FInv, NEW r \in Requests, NEW sweep \in Sweeps, NEW m \in Memories,
         Take(r, sweep, m)
  PROVE  /\ \A o \in Objects \ {m} : writes'[r][o] = writes[r][o]
         /\ ~Qualifies(r, sweep, m) => writes'[r][m] = writes[r][m]
         /\ Qualifies(r, sweep, m) =>
              /\ Seen(r, m) # Absent /\ Seen(r, m) \in Rows
              /\ Erases(sweep) => writes'[r][m] = Absent
              /\ ~Erases(sweep) =>
                   /\ writes'[r][m] \in Rows /\ writes'[r][m].parent = "none"
                   /\ writes'[r][m].tree = Seen(r, m).tree
  <1>a. TypeOK /\ m \in Objects
    BY DEF IInv, Objects
  <1>1. CASE ~Qualifies(r, sweep, m)
    BY <1>1 DEF Take
  <1>2. CASE Qualifies(r, sweep, m)
    <2>1. Seen(r, m) # Absent /\ Seen(r, m) \in Rows
      BY <1>a, <1>2, SeenType DEF Qualifies
    <2>2. CASE Erases(sweep)
      <3>1. Write(r, m, Absent)
        BY <1>2, <2>2 DEF Take
      <3>2. QED
        BY <1>a, <1>2, <2>1, <2>2, <3>1, WriteCells
    <2>3. CASE ~Erases(sweep)
      <3>1. PICK row : row = [Seen(r, m) EXCEPT !.parent = "none"]
        OBVIOUS
      <3>2. Write(r, m, row)
        BY <1>2, <2>3, <3>1 DEF Take
      <3>3. row \in Rows /\ row.parent = "none" /\ row.tree = Seen(r, m).tree
        BY <2>1, <3>1 DEF Rows
      <3>4. QED
        BY <1>a, <1>2, <2>1, <2>3, <3>2, <3>3, WriteCells
    <2>4. QED
      BY <2>2, <2>3
  <1>3. QED
    BY <1>1, <1>2

\* What r has deleted stays so, and a row that it makes a root has lost its parent or
\* its tree.
LEMMA TakeDetached ==
  ASSUME IInv, FInv, NEW r \in Requests, Step(r), NEW sweep \in Sweeps, NEW m \in Memories,
         Take(r, sweep, m), Deletes(r)
  PROVE  /\ \A o \in Objects : writes[r][o] = Absent => writes'[r][o] = Absent
         /\ \A n \in Memories : writes'[r][n] \in Rows => Detached(r, n)'
         /\ \A o \in Objects : Shaped(r, o)'
  <1>a. /\ call' = call /\ rows' = rows /\ home' = home /\ Local(r) /\ TypeOK
        /\ m \in Objects /\ m \notin Trees
    BY OthersStay, MemoryForestAssumption DEF FInv, IInv, Take, Objects
  <1>1. ASSUME NEW o \in Objects, writes[r][o] = Absent
        PROVE  writes'[r][o] = Absent
    <2>1. o = m => ~Qualifies(r, sweep, m)
      BY <1>1, Sorts DEF Qualifies, Seen
    <2>2. QED
      BY <1>1, <2>1, TakeCells
  <1>2. Qualifies(r, sweep, m) => rows[m] # Absent
    <2>1. ASSUME Qualifies(r, sweep, m), writes[r][m] # Untouched
          PROVE  rows[m] # Absent
      <3>1. writes[r][m] \in Rows /\ Shaped(r, m)
        BY <1>a, <2>1 DEF Qualifies, Seen, TypeOK, Local, Common
      <3>2. QED
        BY <3>1 DEF Shaped, Deletes
    <2>2. QED
      BY <2>1 DEF Qualifies, Seen
  <1>3. ASSUME NEW o \in Objects
        PROVE  Shaped(r, o)'
    <2>1. CASE writes'[r][o] = writes[r][o]
      BY <1>a, <2>1, OpStays DEF Local, Common, Shaped, NewRow, parent
    <2>2. CASE writes'[r][o] # writes[r][o]
      <3>1. o = m /\ Qualifies(r, sweep, m)
        BY <2>2, TakeCells
      <3>2. \/ writes'[r][m] = Absent
            \/ writes'[r][m] \in Rows /\ writes'[r][m].parent = "none"
        BY <3>1, TakeCells
      <3>3. QED
        BY <1>a, <1>2, <3>1, <3>2, OpStays, Sorts DEF Shaped
    <2>3. QED
      BY <2>1, <2>2
  <1>4. ASSUME NEW n \in Memories, writes'[r][n] \in Rows
        PROVE  Detached(r, n)
    <2>1. CASE writes'[r][n] = writes[r][n]
      BY <1>a, <1>4, <2>1 DEF Local, Deleter
    <2>2. CASE writes'[r][n] # writes[r][n]
      <3>1. n = m /\ Qualifies(r, sweep, m) /\ ~Erases(sweep) /\ rows[m] # Absent
        BY <1>2, <1>4, <1>a, <2>2, TakeCells, Sorts DEF Objects
      <3>2. writes[r][m] # Untouched =>
              writes[r][m].parent = "none" /\ writes[r][m].tree = rows[m].tree
        <4>1. ASSUME writes[r][m] # Untouched
              PROVE  writes[r][m] \in Rows
          BY <1>a, <3>1, <4>1 DEF Qualifies, Seen, TypeOK
        <4>2. QED
          BY <1>a, <3>1, <4>1 DEF Local, Common, Shaped, Deletes, IInv, KeepsKey
      <3>3. Seen(r, m).tree = rows[m].tree
        BY <3>2 DEF Seen
      <3>4. Seen(r, m).parent # "none" => Seen(r, m) = rows[m]
        BY <3>2 DEF Seen
      <3>5. CASE sweep = "clear"
        <4>1. Op(r) = "delete" \/ Op(r) = "drop"
          BY DEF Deletes
        <4>2. call[r].of \in Objects /\ call[r].of # "none"
          BY <1>a, CallType, MemoryForestAssumption
        <4>3. QED
          BY <3>1, <3>3, <3>4, <3>5, <4>1, <4>2 DEF Qualifies, Detached
      <3>6. CASE sweep = "orphan"
        <4>1. PICK p : p = Seen(r, m).parent /\ p # "none" /\ Seen(r, p) = Absent
          BY <3>1, <3>6 DEF Qualifies
        <4>2. p = rows[m].parent
          BY <3>4, <4>1
        <4>3. p \in Memories /\ rows[p] # Absent
          BY <3>1, <4>1, <4>2 DEF FInv, ReferencesHold, Living
        <4>4. writes[r][p] = Absent
          BY <4>1, <4>3 DEF Seen
        <4>5. QED
          BY <3>1, <4>2, <4>3, <4>4 DEF Detached
      <3>7. QED
        BY <3>1, <3>5, <3>6 DEF Sweeps, Erases
    <2>3. QED
      BY <2>1, <2>2
  <1>5. ASSUME NEW n \in Memories, Detached(r, n)
        PROVE  Detached(r, n)'
    BY <1>a, <1>1, <1>5 DEF Detached, Op, Objects
  <1>6. QED
    BY <1>1, <1>3, <1>4, <1>5

\* A sweep takes one row.
LEMMA OwnTake ==
  ASSUME IInv, FInv, NEW r \in Requests, Step(r), NEW sweep \in Sweeps, NEW m \in Memories,
         Take(r, sweep, m)
  PROVE  Local(r)'
  <1>a. /\ call' = call /\ Local(r) /\ TypeOK /\ pc[r] = Taking[sweep]
        /\ pc[r] \in {sweep, Taking[sweep]} /\ m \in Objects /\ m \notin Trees
    BY OthersStay, MemoryForestAssumption DEF FInv, IInv, Take, At, Objects
  <1>b. rows' = rows /\ home' = home /\ walk' = walk /\ answer' = answer
    BY DEF Take
  <1>c. /\ pc'[r] = IF todo[r] = {m} THEN AfterSweep(r, sweep) ELSE Taking[sweep]
        /\ todo'[r] = todo[r] \ {m} /\ m \in todo[r]
    BY <1>a, GoTo DEF Take, TypeOK
  <1>d. Deletes(r) /\ Deleter(r) /\ home[r] \in Trees /\ home[r] \in Objects
    BY <1>a, SweepPlaces DEF Local, IInv, InPlace, Objects
  <1>1. OfHome(r)'
    <2>1. Op(r) \in {"create", "drop"} \/ call[r].of \in Memories
      BY <1>a DEF TypeOK, Calls, Op
    <2>2. QED
      BY <1>a, <1>b, <2>1, OfStays DEF Local, Common, AtHome, OfHome, Op
  <1>2. Common(r)' /\ ~Done(r)'
    BY <1>a, <1>b, <1>c, <1>d, <1>1, SweepPlaces, SweepTurn, Onward, TakeDetached
  <1>3. /\ writes'[r][home[r]] = writes[r][home[r]]
        /\ writes[r][call[r].of] = Absent => writes'[r][call[r].of] = Absent
        /\ \A n \in Memories : writes'[r][n] \in Rows => Detached(r, n)'
    BY <1>a, <1>d, CallType, TakeCells, TakeDetached
  <1>4. \A o \in Objects \ {m} : Seen(r, o)' = Seen(r, o)
    BY <1>b, TakeCells DEF Seen
  <1>5. ASSUME NEW x \in Memories, LeftBehind(r, x)'
        PROVE  LeftBehind(r, x)
    <2>1. CASE x # m
      BY <1>a, <1>b, <1>3, <1>4, <1>5, <2>1 DEF LeftBehind, Op, Objects
    <2>2. CASE x = m /\ ~Qualifies(r, sweep, m)
      <3>1. Seen(r, x)' = Seen(r, x)
        BY <1>b, <2>2, TakeCells DEF Seen
      <3>2. QED
        BY <1>a, <1>b, <1>3, <1>5, <3>1 DEF LeftBehind, Op
    <2>3. CASE x = m /\ Qualifies(r, sweep, m)
      <3>1. Seen(r, m)' = writes'[r][m] /\ Seen(r, m) # Absent
            /\ (Seen(r, m)' # Absent => Seen(r, m)'.tree = Seen(r, m).tree)
        BY <2>3, TakeCells, Sorts DEF Seen
      <3>2. QED
        BY <1>a, <1>b, <1>3, <1>5, <2>3, <3>1 DEF LeftBehind, Op
    <2>4. QED
      BY <2>1, <2>2, <2>3
  <1>6. CASE sweep = "clear"
    <2>1. pc'[r] \in {"remove", "erase", "clearing"} /\ pc[r] = "clearing"
      BY <1>a, <1>c, <1>6 DEF AfterSweep, Taking
    <2>2. Deleter(r)'
      BY <1>a, <1>b, <1>d, <1>2, <1>3, <2>1, OpStays DEF Deleter
    <2>3. QED
      BY <1>d, <1>2, <2>2, LocalOf
  <1>7. CASE sweep = "erase"
    <2>1. /\ Op(r) = "drop" /\ pc'[r] \in {"orphan", "erasing"} /\ pc[r] = "erasing"
      BY <1>a, <1>c, <1>7, SweepPlaces DEF AfterSweep, Taking
    <2>2. \A x \in Memories : ~LeftBehind(r, x)'
      BY <1>d, <1>5, <2>1 DEF LeftBehind, Deleter
    <2>3. Deleter(r)'
      BY <1>a, <1>b, <1>d, <1>2, <1>3, <2>1, <2>2, OpStays DEF Deleter
    <2>4. QED
      BY <1>d, <1>2, <2>3, LocalOf
  <1>8. CASE sweep = "orphan"
    <2>1. /\ pc'[r] \in {"orphaning", "committing", "dropTree"} /\ pc[r] = "orphaning"
          /\ pc'[r] = "committing" => Op(r) = "delete" \/ writes[r][home[r]] = Absent
      BY <1>a, <1>c, <1>8 DEF AfterSweep, Taking
    <2>2. ASSUME NEW x \in Memories, Orphaned(r, x)'
          PROVE  x # m /\ Orphaned(r, x)
      <3>1. Seen(r, m)' # Absent => Seen(r, m) # Absent
        BY <1>b, TakeCells DEF Seen
      <3>2. Seen(r, m)' = Absent => Seen(r, m) = Absent
        <4>1. ~Erases(sweep)
          BY <1>8 DEF Erases
        <4>2. CASE Qualifies(r, sweep, m)
          BY <4>1, <4>2, TakeCells, Sorts DEF Seen
        <4>3. CASE ~Qualifies(r, sweep, m)
          BY <1>b, <4>3, TakeCells DEF Seen
        <4>4. QED
          BY <4>2, <4>3
      <3>3. x # m
        <4> SUFFICES ASSUME x = m
                     PROVE  FALSE
          OBVIOUS
        <4>1. CASE Qualifies(r, sweep, m)
          <5>1. Seen(r, m)'.parent = "none"
            BY <1>8, <4>1, TakeCells, Sorts DEF Seen, Erases
          <5>2. QED
            BY <2>2, <5>1 DEF Orphaned
        <4>2. CASE ~Qualifies(r, sweep, m)
          <5>1. Seen(r, m)' = Seen(r, m)
            BY <1>b, <4>2, TakeCells DEF Seen
          <5>2. PICK p : p = Seen(r, m).parent /\ p # "none" /\ Seen(r, m) # Absent
                         /\ Seen(r, p)' = Absent
            BY <2>2, <5>1 DEF Orphaned
          <5>3. p \in Objects
            BY <1>a, <5>2, SeenType DEF Rows, Objects
          <5>4. Seen(r, p) = Absent
            BY <1>4, <3>2, <5>2, <5>3
          <5>5. QED
            BY <1>8, <4>2, <5>2, <5>4 DEF Qualifies
        <4>3. QED
          BY <4>1, <4>2
      <3>4. x \in Objects /\ Seen(r, x)' = Seen(r, x)
        BY <1>4, <3>3 DEF Objects
      <3>5. PICK p : p = Seen(r, x).parent /\ p # "none" /\ Seen(r, x) # Absent
                     /\ Seen(r, p)' = Absent
        BY <2>2, <3>4 DEF Orphaned
      <3>6. p \in Objects
        BY <1>a, <3>4, <3>5, SeenType DEF Rows, Objects
      <3>7. Seen(r, p) = Absent
        BY <1>4, <3>2, <3>5, <3>6
      <3>8. QED
        BY <3>3, <3>5, <3>7 DEF Orphaned
    <2>3. \A x \in Memories : Orphaned(r, x)' => pc'[r] = "orphaning" /\ x \in todo'[r]
      <3> SUFFICES ASSUME NEW x \in Memories, Orphaned(r, x)'
                   PROVE  pc'[r] = "orphaning" /\ x \in todo'[r]
        OBVIOUS
      <3>1. x # m /\ x \in todo[r]
        BY <1>d, <2>1, <2>2 DEF Deleter
      <3>2. QED
        BY <1>c, <1>8, <3>1 DEF Taking
    <2>4. \A x \in Memories : ~LeftBehind(r, x)'
      BY <1>d, <1>5, <2>1 DEF Deleter
    <2>5. Deleter(r)'
      BY <1>a, <1>b, <1>d, <1>2, <1>3, <2>1, <2>3, <2>4, OpStays DEF Deleter
    <2>6. QED
      BY <1>d, <1>2, <2>5, LocalOf
  <1>9. CASE sweep = "cascade"
    <2>1. Op(r) = "drop" /\ pc'[r] \in {"orphan", "cascading"} /\ pc[r] = "cascading"
      BY <1>a, <1>c, <1>9, SweepPlaces DEF AfterSweep, Taking
    <2>2. ~LeftBehind(r, m)'
      <3>1. CASE Qualifies(r, sweep, m)
        BY <1>9, <3>1, TakeCells, Sorts DEF Erases, LeftBehind, Seen
      <3>2. CASE ~Qualifies(r, sweep, m)
        BY <1>5, <1>9, <3>2 DEF Qualifies, LeftBehind
      <3>3. QED
        BY <3>1, <3>2
    <2>3. \A x \in Memories : LeftBehind(r, x)' => pc'[r] = "cascading" /\ x \in todo'[r]
      <3> SUFFICES ASSUME NEW x \in Memories, LeftBehind(r, x)'
                   PROVE  pc'[r] = "cascading" /\ x \in todo'[r]
        OBVIOUS
      <3>1. x # m /\ x \in todo[r]
        BY <1>d, <1>5, <2>1, <2>2 DEF Deleter
      <3>2. QED
        BY <1>c, <1>9, <3>1 DEF Taking
    <2>4. Deleter(r)'
      BY <1>a, <1>b, <1>d, <1>2, <1>3, <2>1, <2>3, OpStays DEF Deleter
    <2>5. QED
      BY <1>d, <1>2, <2>4, LocalOf
  <1>10. QED
    BY <1>6, <1>7, <1>8, <1>9 DEF Sweeps

\* A deletion deletes its memory, or its tree.
LEMMA OwnDelete ==
  ASSUME IInv, FInv, NEW r \in Requests, Step(r), RemoveMemory(r) \/ DropTree(r)
  PROVE  Local(r)'
  <1>a. /\ call' = call /\ Local(r) /\ TypeOK /\ pc[r] \in {"remove", "dropTree"}
        /\ pc[r] \in Statements \ {"owner"} /\ pc[r] # "ancestors"
    BY OthersStay, StatementNames DEF FInv, IInv, RemoveMemory, DropTree, At
  <1>b. rows' = rows /\ home' = home /\ walk' = walk
    BY DEF RemoveMemory, DropTree, Delete
  <1>c. Deletes(r) /\ home[r] \in Trees /\ walk'[r] = Idle /\ Deleter(r)
        /\ (pc[r] = "remove" => Op(r) = "delete") /\ (pc[r] = "dropTree" => Op(r) = "drop")
    BY <1>a, <1>b DEF Local, Common, InTurn, Dropping, Deletes, IInv, InPlace
  <1>1. PICK o \in Objects :
          /\ \/ Seen(r, o) = Absent /\ Refuse(r, "refused") /\ writes' = writes
             \/ Seen(r, o) # Absent /\ Write(r, o, Absent) /\ answer' = answer
          /\ \/ o = call[r].of /\ pc[r] = "remove"
                /\ (Seen(r, o) # Absent => Go(r, "orphan"))
             \/ o = home[r] /\ pc[r] = "dropTree"
                /\ (Seen(r, o) # Absent => Go(r, "cascade"))
    BY <1>a, <1>c, CallType DEF RemoveMemory, DropTree, Delete, Objects, At
  <1>2. CASE Seen(r, o) = Absent
    BY <1>a, <1>b, <1>1, <1>2, Refused
  <1>3. CASE Seen(r, o) # Absent
    <2>1. /\ writes'[r][o] = Absent /\ answer' = answer
          /\ \A x \in Objects \ {o} : writes'[r][x] = writes[r][x]
      BY <1>a, <1>1, <1>3, WriteCells
    <2>2. \/ /\ o = call[r].of /\ pc'[r] = "orphan" /\ Op(r) = "delete"
             /\ o \in Memories /\ o \notin Trees
          \/ o = home[r] /\ pc'[r] = "cascade" /\ Op(r) = "drop" /\ o \notin Memories
      <3>1. Op(r) = "delete" => call[r].of \in Memories
        BY <1>a DEF TypeOK, Calls, Op
      <3>2. QED
        BY <1>a, <1>c, <1>1, <1>3, <3>1, GoTo, MemoryForestAssumption
    <2>3. OfHome(r)'
      <3>1. Op(r) \in {"create", "drop"} \/ call[r].of \in Memories
        BY <1>a DEF TypeOK, Calls, Op
      <3>2. QED
        BY <1>a, <1>b, <3>1, OfStays DEF Local, Common, AtHome, OfHome, Op
    <2>4. \A x \in Objects : Shaped(r, x)'
      <3> SUFFICES ASSUME NEW x \in Objects
                   PROVE  Shaped(r, x)'
        OBVIOUS
      <3>1. CASE x = o
        BY <1>a, <1>b, <1>c, <2>1, <2>2, <3>1, OpStays, Sorts DEF Shaped
      <3>2. CASE x # o
        BY <1>a, <1>b, <2>1, <3>2, OpStays DEF Local, Common, Shaped, NewRow, parent
      <3>3. QED
        BY <3>1, <3>2
    <2>5. InTurn(r)'
      BY <1>c, <2>2, OpStays DEF InTurn, Creating, Updating, Clearing, Dropping
    <2>6. Common(r)' /\ ~Done(r)'
      BY <1>a, <1>b, <1>c, <2>1, <2>2, <2>3, <2>4, <2>5, Onward, StatementNames
    <2>7. ASSUME NEW m \in Memories, writes'[r][m] \in Rows
          PROVE  Detached(r, m)'
      <3>1. m # o /\ writes[r][m] \in Rows
        BY <2>1, <2>7, Sorts DEF Objects
      <3>2. Detached(r, m)
        BY <1>c, <3>1 DEF Deleter
      <3>3. \A x \in Objects : writes[r][x] = Absent => writes'[r][x] = Absent
        BY <2>1
      <3>4. QED
        BY <1>a, <1>b, <3>2, <3>3 DEF Detached, Op, Objects
    <2>8. Deleter(r)'
      <3>1. pc'[r] = "orphan" => \A m \in Memories : ~LeftBehind(r, m)'
        BY <2>2, OpStays DEF LeftBehind
      <3>2. QED
        BY <1>a, <1>b, <2>1, <2>2, <2>6, <2>7, <3>1, OpStays DEF Deleter
    <2>9. QED
      BY <1>c, <2>6, <2>8, LocalOf
  <1>4. QED
    BY <1>2, <1>3

\* The server commits.
LEMMA OwnCommit ==
  ASSUME IInv, FInv, NEW r \in Requests, Step(r), CommitDurable(r)
  PROVE  Local(r)'
  <1>a. /\ call' = call /\ Local(r) /\ TypeOK /\ pc[r] = "committing"
        /\ home' = home /\ walk' = walk /\ answer' = answer /\ result' = result
    BY OthersStay DEF FInv, IInv, CommitDurable, At
  <1>1. /\ \A o \in Objects : rows'[o] = Seen(r, o) /\ writes'[r][o] = Untouched
        /\ pc'[r] = IF answer[r] = "none" THEN "committed" ELSE "closed"
    BY <1>a, ReleaseCells, GoTo DEF CommitDurable
  <1>b. /\ answer[r] \in {"none", "unknown"} /\ home[r] \in Trees /\ home[r] # "none"
        /\ OfHome(r)
    BY <1>a, MemoryForestAssumption DEF Local, Common, AnsweredLast, AtHome, Objects
  <1>2. Common(r)'
    <2>1. InTurn(r)'
      BY <1>1 DEF InTurn, Creating, Updating, Clearing, Dropping
    <2>2. OfHome(r)'
      <3>1. Op(r) \in {"create", "drop"} \/ call[r].of \in Memories
        BY <1>a DEF TypeOK, Calls, Op
      <3>2. QED
        BY <1>a, <1>b, <3>1, OfStays DEF OfHome, Op
    <2>3. \A o \in Objects : Shaped(r, o)'
      BY <1>1, Sorts DEF Shaped
    <2>4. AnsweredLast(r)'
      BY <1>a, <1>b, <1>1, StatementNames DEF AnsweredLast
    <2>5. QED
      BY <1>a, <1>b, <1>1, <2>1, <2>2, <2>3, <2>4 DEF Local, Common, AtHome
  <1>3. CASE Op(r) = "create"
    <2>1. PICK m \in Memories :
            /\ m = result[r] /\ (m # r => Settled(m))
            /\ Seen(r, m) # Absent => Bound(r, Seen(r, m))
      BY <1>a, <1>3 DEF Local, Creator, Returned
    <2>2. Seen(r, m)' = Seen(r, m)
      BY <1>1 DEF Seen, Objects
    <2>3. Returned(r)'
      <3>1. /\ m # r => Settled(m)'
            /\ Seen(r, m)' # Absent => Bound(r, Seen(r, m))'
        BY <1>a, <2>1, <2>2, OfStays DEF Bound
      <3>2. result'[r] = m
        BY <1>a, <2>1
      <3>3. QED
        BY <3>1, <3>2 DEF Returned
    <2>4. Creator(r)'
      BY <1>1, <2>3 DEF Creator, Rereads
    <2>5. QED
      BY <1>2, <1>3, <2>4, LocalOf
  <1>4. CASE Op(r) = "update"
    <2>1. Mover(r)'
      BY <1>1 DEF Mover
    <2>2. QED
      BY <1>2, <1>4, <2>1, LocalOf
  <1>5. CASE Deletes(r)
    <2>1. call[r].of \in Objects /\ writes[r][call[r].of] = Absent
      BY <1>a, <1>b, <1>5, CallType DEF Local, Deleter, Deletes, OfHome
    <2>2. rows'[call[r].of] = Absent
      BY <1>1, <2>1, Sorts DEF Seen
    <2>3. \A m \in Memories : writes'[r][m] \notin Rows
      BY <1>1, Sorts DEF Objects
    <2>4. Deleter(r)'
      BY <1>a, <1>1, <2>2, <2>3 DEF Deleter
    <2>5. QED
      BY <1>2, <1>5, <2>4, LocalOf
  <1>6. QED
    BY <1>3, <1>4, <1>5, OpStays DEF Deletes

\* A transaction ends without a trace.
LEMMA OwnEnd ==
  ASSUME IInv, FInv, NEW r \in Requests, Step(r), CommitLost(r) \/ Discard(r)
  PROVE  Local(r)'
  <1>a. /\ call' = call /\ Local(r) /\ TypeOK /\ pc[r] \in {"committing", "aborting"}
        /\ home' = home /\ walk' = walk /\ rows' = rows /\ walk[r] = Idle
    BY OthersStay DEF FInv, IInv, CommitLost, Discard, At, Local, Common
  <1>1. /\ \A o \in Objects : writes'[r][o] = Untouched
        /\ pc'[r] = "closed" /\ answer'[r] \in {answer[r], "unknown"}
    BY <1>a, ReleaseCells, GoTo DEF CommitLost, Discard, TypeOK
  <1>2. answer[r] # "success" /\ ~Done(r)'
    BY <1>a, <1>1 DEF Local, Common, AnsweredLast, Done
  <1>3. Common(r)'
    <2>1. InTurn(r)'
      BY <1>1 DEF InTurn, Creating, Updating, Clearing, Dropping
    <2>2. OfHome(r)'
      <3>1. Op(r) \in {"create", "drop"} \/ call[r].of \in Memories
        BY <1>a DEF TypeOK, Calls, Op
      <3>2. QED
        BY <1>a, <3>1, OfStays DEF Local, Common, AtHome, OfHome, Op
    <2>3. \A o \in Objects : Shaped(r, o)'
      BY <1>1, Sorts DEF Shaped
    <2>4. AnsweredLast(r)'
      BY <1>a, <1>1, <1>2, StatementNames DEF Local, Common, AnsweredLast
    <2>5. QED
      BY <1>a, <1>1, <1>2, <2>1, <2>2, <2>3, <2>4 DEF Common, AtHome
  <1>4. Creator(r)' /\ Mover(r)'
    BY <1>1, <1>2 DEF Creator, Mover, Rereads
  <1>5. Deleter(r)'
    <2>1. \A m \in Memories : writes'[r][m] \notin Rows
      BY <1>1, Sorts DEF Objects
    <2>2. QED
      BY <1>1, <1>2, <2>1 DEF Deleter
  <1>6. QED
    BY <1>3, <1>4, <1>5 DEF Local

\* An answer is given, and nothing else happens.
LEMMA OwnAnswer ==
  ASSUME IInv, FInv, NEW r \in Requests, Step(r), AnswerUnknown(r) \/ Acknowledge(r)
  PROVE  Local(r)'
  <1>a. /\ call' = call /\ Local(r) /\ TypeOK /\ pc[r] \in {"committing", "committed"}
        /\ home' = home /\ walk' = walk /\ rows' = rows /\ writes' = writes
        /\ shared' = shared /\ graph' = graph /\ todo' = todo /\ result' = result
        /\ walk[r] = Idle
    BY OthersStay DEF FInv, IInv, AnswerUnknown, Acknowledge, At, locks, Local, Common
  <1>1. \/ pc[r] = "committing" /\ pc' = pc /\ answer'[r] = "unknown"
        \/ pc[r] = "committed" /\ pc'[r] = "closed" /\ answer'[r] \in {"success", "unknown"}
    BY <1>a, GoTo DEF AnswerUnknown, Acknowledge, TypeOK, At
  <1>2. (pc'[r] = "committing" \/ Done(r)') => (pc[r] = "committing" \/ Done(r))
    BY <1>a, <1>1 DEF Done
  <1>3. Common(r)'
    <2>1. InTurn(r)'
      BY <1>1 DEF InTurn, Creating, Updating, Clearing, Dropping
    <2>2. AnsweredLast(r)'
      BY <1>a, <1>1, StatementNames DEF AnsweredLast
    <2>3. AtHome(r)'
      BY <1>a, <1>2, Quiet DEF Local, Common, AtHome
    <2>4. QED
      BY <1>a, <2>1, <2>2, <2>3, Quiet DEF Common
  <1>4. CASE Op(r) = "create"
    <2>1. Returned(r) => Returned(r)'
      BY <1>a, OfStays DEF Returned, Seen, Bound, Settled
    <2>2. Creator(r)'
      BY <1>a, <1>1, <1>2, <1>4, <2>1, OpStays DEF Local, Creator, Rereads
    <2>3. QED
      BY <1>3, <1>4, <2>2, LocalOf
  <1>5. CASE Op(r) = "update"
    <2>1. CASE pc'[r] = "closed"
      BY <1>3, <1>5, <2>1, LocalOf DEF Mover
    <2>2. CASE pc[r] = "committing" /\ pc' = pc
      <3>1. \A m, t : Of(m, t)' = Of(m, t)
        BY <1>a, <2>2 DEF Of, Settled
      <3>2. ASSUME NEW S, Climbed(r, S, "none")
            PROVE  Climbed(r, S, "none")'
        BY <1>a, <2>2, <3>2 DEF Climbed, Of, Settled, parent
      <3>3. Mover(r)'
        BY <1>a, <1>5, <2>2, <3>2 DEF Local, Mover, Of, Settled, parent
      <3>4. QED
        BY <1>3, <1>5, <3>3, LocalOf
    <2>3. QED
      BY <1>1, <2>1, <2>2
  <1>6. CASE Deletes(r)
    <2>1. \A m \in Memories : /\ Orphaned(r, m)' = Orphaned(r, m)
                               /\ LeftBehind(r, m)' = LeftBehind(r, m)
      BY <1>a DEF Orphaned, LeftBehind, Seen, Op
    <2>2. Done(r)' => rows'[call[r].of] = Absent
      BY <1>a, <1>1, <1>2, <1>6 DEF Local, Deleter, Done
    <2>3. Deleter(r)'
      BY <1>a, <1>1, <1>6, <2>1, <2>2, Quiet, OpStays DEF Local, Deleter
    <2>4. QED
      BY <1>3, <1>6, <2>3, LocalOf
  <1>7. QED
    BY <1>4, <1>5, <1>6, OpStays DEF Deletes

\* Every step of a request leaves what is known of it.
LEMMA OwnStep ==
  ASSUME IInv, FInv, NEW r \in Requests, Step(r)
  PROVE  Local(r)'
  <1>1. CASE Fail(r)
    <2>1. walk'[r] = Idle
      BY <1>1 DEF Fail, IInv, TypeOK
    <2>2. QED
      BY <1>1, <2>1, Refused DEF Fail, locks
  <1>2. CASE ~Fail(r)
    BY <1>2, OwnReadOwner, OwnLockParent, OwnFindExisting, OwnInsert, OwnCheckReferences,
       OwnReread, OwnGraphAndSource, OwnReadTarget, OwnReadAncestor, OwnUpdate, OwnScan,
       OwnTake, OwnDelete, OwnCommit, OwnEnd, OwnAnswer DEF Step
  <1>3. QED
    BY <1>1, <1>2

-----------------------------------------------------------------------------
(* The second invariant.                                                   *)

\* It holds initially.
LEMMA InitFInv == Init => FInv
  <1> SUFFICES ASSUME Init
               PROVE  FInv
    OBVIOUS
  <1>a. TypeOK
    BY InitIInv DEF IInv
  <1>1. PICK forest \in Forests :
          rows = [o \in Objects |-> IF o \in Trees THEN TreeRow(o)
                                    ELSE IF o \in Seeds THEN forest[o] ELSE Absent]
    BY DEF Init
  <1>2. /\ \A t \in Trees : rows[t] = TreeRow(t) /\ TreeRow(t) # Absent
        /\ \A m \in Seeds : rows[m] = forest[m] /\ forest[m] \in Rows
        /\ \A m \in Memories : rows[m] # Absent => m \in Seeds
    <2>1. \A m \in Seeds : m \in Objects /\ m \notin Trees /\ forest[m] \in Rows
      BY MemoryForestAssumption DEF Objects, Memories
    <2>2. \A t \in Trees : t \in Objects /\ TreeRow(t) # Absent
      BY Sorts DEF Objects, TreeRow, Rows
    <2>3. \A m \in Memories : m \in Objects /\ m \notin Trees
      BY MemoryForestAssumption DEF Objects
    <2>4. QED
      BY <1>1, <2>1, <2>2, <2>3
  <1>3. ReferencesHold
    <2> SUFFICES ASSUME NEW m \in Memories, rows[m] # Absent
                 PROVE  /\ rows[rows[m].tree] # Absent
                        /\ rows[m].parent # "none" =>
                             /\ rows[m].parent \in Memories
                             /\ rows[rows[m].parent] # Absent
                             /\ rows[rows[m].parent].tree = rows[m].tree
      BY DEF ReferencesHold, Living
    <2>1. m \in Seeds /\ rows[m] = forest[m] /\ forest[m].tree \in Trees
      BY <1>2 DEF Rows
    <2>2. ASSUME rows[m].parent # "none"
          PROVE  /\ rows[m].parent \in Seeds
                 /\ forest[rows[m].parent].tree = rows[m].tree
      BY <2>1, <2>2, MemoryForestAssumption
    <2>3. QED
      BY <1>2, <2>1, <2>2, Sorts DEF Memories
  <1>4. Acyclic
    <2> SUFFICES ASSUME NEW M \in SUBSET Living, M # {}
                 PROVE  \E m \in M : rows[m].parent \notin M
      BY DEF Acyclic
    <2>1. M \in SUBSET Seeds
      BY <1>2 DEF Living
    <2>2. PICK m \in M : forest[m].parent \notin M
      BY <2>1, MemoryForestAssumption
    <2>3. QED
      BY <1>2, <2>1, <2>2
  <1>5. ASSUME NEW r \in Requests
        PROVE  Local(r)
    <2>1. /\ pc[r] = "owner" /\ home[r] = "none" /\ answer[r] = "none" /\ walk[r] = Idle
          /\ \A o \in Objects : writes[r][o] = Untouched
      BY DEF Init, Nothing
    <2>2. Common(r)
      BY <2>1, Sorts, StatementNames DEF Common, InTurn, Creating, Updating, Clearing,
        Dropping, AtHome, OfHome, Shaped, AnsweredLast, Done
    <2>3. Creator(r) /\ Mover(r)
      BY <2>1 DEF Creator, Mover, Rereads, Done
    <2>4. Deleter(r)
      BY <2>1, Sorts DEF Deleter, Done, Objects
    <2>5. QED
      BY <2>2, <2>3, <2>4 DEF Local
  <1>6. QED
    BY <1>2, <1>3, <1>4, <1>5 DEF FInv, TreeRowsStay

\* Every step preserves it.
LEMMA NextFInv == IInv /\ FInv /\ [Next]_vars => FInv'
  <1> SUFFICES ASSUME IInv, FInv, [Next]_vars
               PROVE  FInv'
    OBVIOUS
  <1>1. ASSUME NEW r \in Requests, Step(r)
        PROVE  FInv'
    <2>1. TreeRowsStay'
      BY <1>1, TreeChange DEF FInv, TreeRowsStay, TreeRow
    <2>2. ASSUME NEW q \in Requests \ {r}
          PROVE  Local(q)'
      <3>1. Op(q)' = Op(q) /\ Deletes(q)' = Deletes(q)
        BY <1>1, OthersStay DEF Op, Deletes
      <3>2. Common(q)'
        BY <1>1, OtherCommon
      <3>3. /\ Op(q) = "create" => Creator(q)'
            /\ Op(q) = "update" => Mover(q)'
            /\ Deletes(q) => Deleter(q)'
        BY <1>1, OtherCreator, OtherMover, OtherDeleter
      <3>4. QED
        BY <3>1, <3>2, <3>3 DEF Local
    <2>3. QED
      BY <1>1, <2>1, <2>2, OwnStep, ReferencesStep, AcyclicStep DEF FInv
  <1>2. CASE Finished \/ UNCHANGED vars
    <2>1. UNCHANGED vars
      BY <1>2 DEF Finished
    <2>2. TreeRowsStay' /\ ReferencesHold' /\ Acyclic'
      BY <2>1 DEF vars, FInv, TreeRowsStay, ReferencesHold, Acyclic, Living, TreeRow
    <2>3. ASSUME NEW r \in Requests
          PROVE  Local(r)'
      <3>a. Local(r)
        BY DEF FInv
      <3>b. /\ Op(r)' = Op(r) /\ Deletes(r)' = Deletes(r) /\ parent(r)' = parent(r)
            /\ NewRow(r)' = NewRow(r) /\ Done(r)' = Done(r)
            /\ \A m, t : Of(m, t)' = Of(m, t) /\ Settled(m)' = Settled(m)
            /\ \A o : Seen(r, o)' = Seen(r, o)
        BY <2>1 DEF vars, Op, Deletes, parent, NewRow, Done, Of, Settled, Seen
      <3>1. Common(r)'
        BY <2>1, <3>a, <3>b DEF vars, Local, Common, InTurn, AtHome, OfHome, Shaped,
          AnsweredLast, Of, Settled
      <3>2. Op(r) = "create" => Creator(r)'
        BY <2>1, <3>a, <3>b DEF vars, Local, Creator, Returned, Bound, Settled, Seen
      <3>3. Op(r) = "update" => Mover(r)'
        BY <2>1, <3>a DEF vars, Local, Mover, Climbed, parent, Of, Settled
      <3>4. Deletes(r) => Deleter(r)'
        BY <2>1, <3>a DEF vars, Local, Deleter, Orphaned, LeftBehind, Seen, Detached, Op,
          Done
      <3>5. QED
        BY <3>b, <3>1, <3>2, <3>3, <3>4 DEF Local
    <2>4. QED
      BY <2>2, <2>3 DEF FInv
  <1>3. QED
    BY <1>1, <1>2 DEF Next, Step

\* Both invariants hold in every reachable state.
LEMMA ForestInvariance == Spec => [](IInv /\ FInv)
  BY InitIInv, NextIInv, InitFInv, NextFInv, PTL DEF Spec

\* A memory never outlives its tree or its parent: a deletion sweeps what others commit
\* while it runs, for they would hold the rows that it deletes.
THEOREM ReferencesAlwaysHold == Spec => []ReferencesHold
  <1>1. FInv => ReferencesHold
    BY DEF FInv
  <1>2. QED
    BY <1>1, ForestInvariance, PTL

\* No interleaving of reparentings closes a cycle, whatever is created and deleted at the
\* same time: the set that an ancestor walk has climbed stays closed while the graph lock
\* is held, and the memory that moves stays outside it.
THEOREM NoCycle == Spec => []Acyclic
  <1>1. FInv => Acyclic
    BY DEF FInv
  <1>2. QED
    BY <1>1, ForestInvariance, PTL

\* An answer says what happened, in that state and in every later one.
THEOREM AnswersStayTrue == Spec => []AnswersAreTrue
  <1>1. IInv /\ FInv => AnswersAreTrue
    <2> SUFFICES ASSUME IInv, FInv, NEW r \in Requests
                 PROVE  /\ answer[r] = "success" /\ Op(r) = "delete" =>
                             call[r].of \notin Living
                        /\ answer[r] = "success" /\ Op(r) = "drop" =>
                             \A m \in Living : rows[m].tree # call[r].of
                        /\ answer[r] \in {"refused", "conflict", "failed"} =>
                             r \notin Living
                        /\ /\ answer[r] = "success" /\ Op(r) = "create"
                           /\ result[r] \in Living
                           => /\ rows[result[r]].tree = call[r].of
                              /\ rows[result[r]].key = call[r].key
      BY DEF AnswersAreTrue
    <2>a. Local(r) /\ (answer[r] = "success" => Done(r))
      BY DEF FInv, Done
    <2>1. Deletes(r) /\ Done(r) => rows[call[r].of] = Absent
      BY <2>a DEF Local, Deleter
    <2>2. answer[r] \in {"refused", "conflict", "failed"} => rows[r] = Absent
      BY <2>a DEF Local, Common, AnsweredLast
    <2>3. ASSUME answer[r] = "success", Op(r) = "drop", NEW m \in Living
          PROVE  rows[m].tree # call[r].of
      BY <2>a, <2>1, <2>3 DEF FInv, ReferencesHold, Deletes
    <2>4. ASSUME answer[r] = "success", Op(r) = "create", result[r] \in Living
          PROVE  rows[result[r]].tree = call[r].of /\ rows[result[r]].key = call[r].key
      <3>1. Returned(r) /\ home[r] = call[r].of
        BY <2>a, <2>4, MemoryForestAssumption
           DEF Local, Creator, Common, AtHome, OfHome, Objects
      <3>2. pc[r] = "closed"
        BY <2>a, <2>4 DEF Local, Common, AnsweredLast
      <3>3. Seen(r, result[r]) = rows[result[r]] /\ rows[result[r]] # Absent
        BY <2>4, <3>2 DEF IInv, Unwritten, Early, Nothing, Seen, Living, Objects
      <3>4. QED
        BY <3>1, <3>3 DEF Returned, Bound
    <2>5. QED
      BY <2>a, <2>1, <2>2, <2>3, <2>4 DEF Living, Deletes
  <1>2. QED
    BY <1>1, ForestInvariance, PTL

\* A memory leaves a parent only when that parent goes, or by its own reparenting: what
\* a deletion makes a root it has written under the row's lock, as the row then was.
THEOREM MovesAlwaysStand == Spec => MovesStand
  <1> DEFINE Stands(m) ==
        m \in Living /\ rows'[m] # Absent /\ rows'[m].parent # rows[m].parent =>
          \/ rows[m].parent # "none" /\ rows'[rows[m].parent] = Absent
          \/ \E r \in Requests : Op(r) = "update" /\ call[r].of = m
                                 /\ At(r, "committing") /\ pc'[r] # "committing"
  <1>1. ASSUME IInv, FInv, [Next]_vars, NEW m \in Memories
        PROVE  Stands(m)
    <2>1. ASSUME NEW r \in Requests, Step(r), rows[m] # Absent, rows'[m] # Absent,
                 rows'[m].parent # rows[m].parent
          PROVE  \/ rows[m].parent # "none" /\ rows'[rows[m].parent] = Absent
                 \/ /\ Op(r) = "update" /\ call[r].of = m
                    /\ At(r, "committing") /\ pc'[r] # "committing"
      <3>a. /\ pc[r] = "committing" /\ rows'[m] = writes[r][m] /\ writes[r][m] \in Rows
            /\ m \in Objects /\ rows[m] \in Rows
        <4>1. m \in Objects /\ rows[m] \in Rows
          BY <1>1, <2>1 DEF Objects, IInv, TypeOK
        <4>2. rows'[m] # rows[m]
          BY <2>1
        <4>3. QED
          BY <1>1, <2>1, <4>1, <4>2, RowChange
      <3>b. Commits(r) /\ pc'[r] # "committing"
        BY <1>1, <2>1, <3>a, RowStep, StepControl DEF Control
      <3>c. Local(r)
        BY <1>1 DEF FInv
      <3>1. CASE Op(r) = "create" /\ m = r
        BY <1>1, <2>1, <3>1, <3>a DEF IInv, Born
      <3>2. CASE Op(r) = "update" /\ m = call[r].of
        BY <3>2, <3>a, <3>b DEF At
      <3>3. CASE Deletes(r) /\ rows'[m].parent = "none"
        <4>1. Detached(r, m) /\ Deleter(r)
          BY <3>3, <3>a, <3>c DEF Local, Deleter
        <4>2. PICK p \in Memories : p = rows[m].parent /\ p \in Objects
          BY <2>1, <3>3, <3>a DEF Rows, Objects
        <4>3. CASE writes[r][p] = Absent
          BY <3>b, <4>2, <4>3, Sorts, MemoryForestAssumption DEF Commits, Seen, Objects
        <4>4. CASE Op(r) = "delete" /\ p = call[r].of
          BY <3>a, <4>1, <4>3, <4>4 DEF Deleter
        <4>5. CASE Op(r) = "drop" /\ rows[m].tree = home[r]
          <5>1. writes[r][home[r]] = Absent
            BY <3>a, <4>1, <4>5 DEF Deleter
          <5>2. Seen(r, m) = rows'[m] /\ rows'[m].tree = home[r]
            BY <1>1, <2>1, <3>a, <3>b, <4>5, LivingKeeps DEF Commits
          <5>3. LeftBehind(r, m)
            BY <2>1, <4>5, <5>1, <5>2 DEF LeftBehind
          <5>4. QED
            BY <3>a, <4>1, <5>3 DEF Deleter
        <4>6. QED
          BY <4>1, <4>2, <4>3, <4>4, <4>5 DEF Detached
      <3>4. QED
        BY <1>1, <2>1, <3>1, <3>2, <3>3, RowChange
    <2>2. CASE Finished \/ UNCHANGED vars
      BY <2>2 DEF Finished, vars
    <2>3. QED
      BY <1>1, <2>1, <2>2 DEF Next, Step, Living
  <1>2. IInv /\ FInv /\ [Next]_vars => [\A m \in Memories : Stands(m)]_vars
    BY <1>1
  <1>3. QED
    BY <1>2, ForestInvariance, PTL DEF Spec, MovesStand

-----------------------------------------------------------------------------
(* The atomic forest: a third invariant, which rests on the other two.     *)

\* A request that looks for its client key has one; it acts for the owner of the tree;
\* it deletes what it was asked to, or the memories of its tree; a creation that has
\* inserted returns what it inserted.
Acting(r) ==
  /\ pc[r] \in {"existing", "rereadExisting", "rereadConflict"} => call[r].key # "none"
  /\ home[r] # "none" => Owner[home[r]] = call[r].actor
  /\ \A m \in Memories :
       writes[r][m] = Absent =>
         \/ Op(r) = "delete" /\ m = call[r].of
         \/ Op(r) = "drop" /\ rows[m].tree = home[r]
  /\ Op(r) = "create" /\ pc[r] = "committing" /\ writes[r][r] # Untouched
     => result[r] = r

AInv == \A r \in Requests : Acting(r)

\* A request that has not written anything has deleted nothing.
LEMMA ActingAtStart == Init => AInv
  <1> SUFFICES ASSUME Init, NEW r \in Requests
               PROVE  Acting(r)
    BY DEF AInv
  <1>1. \A o \in Objects : writes[r][o] = Untouched
    BY DEF Init, Nothing
  <1>2. pc[r] = "owner" /\ home[r] = "none"
    BY DEF Init
  <1>3. QED
    BY <1>1, <1>2, Sorts DEF Acting, Objects, Memories

\* What a request acts on is left by the others.
LEMMA OtherActing ==
  ASSUME IInv, NEW r \in Requests, Step(r), NEW q \in Requests \ {r}, Acting(q)
  PROVE  Acting(q)'
  <1>a. /\ call' = call /\ pc'[q] = pc[q] /\ home'[q] = home[q]
        /\ writes'[q] = writes[q] /\ result'[q] = result[q]
    BY OthersStay
  <1>1. ASSUME NEW m \in Memories, writes[q][m] = Absent
        PROVE  rows'[m] = rows[m]
    BY <1>1, WrittenStays, Sorts DEF Objects
  <1>2. QED
    BY <1>a, <1>1 DEF Acting, Op

\* What a sweep erases is of the tree that its request drops.
LEMMA ErasedOfTree ==
  ASSUME IInv, FInv, NEW r \in Requests, NEW sweep \in Sweeps, NEW m \in Memories,
         Take(r, sweep, m), Erases(sweep), Qualifies(r, sweep, m)
  PROVE  Op(r) = "drop" /\ rows[m].tree = home[r]
  <1>a. Local(r) /\ TypeOK /\ KeepsKey /\ m \in Objects
    BY DEF FInv, IInv, Objects
  <1>1. Op(r) = "drop"
    BY <1>a DEF Take, Erases, Taking, At, Local, Common, InTurn, Dropping
  <1>2. Seen(r, m) # Absent /\ Seen(r, m).tree = home[r]
    BY DEF Qualifies, Erases
  <1>3. CASE writes[r][m] = Untouched
    BY <1>1, <1>2, <1>3 DEF Seen
  <1>4. CASE writes[r][m] # Untouched
    <2>1. Seen(r, m) = writes[r][m] /\ writes[r][m] \in Rows
      BY <1>a, <1>2, <1>4 DEF Seen, TypeOK
    <2>2. rows[m] # Absent
      BY <1>a, <1>1, <2>1 DEF Local, Common, Shaped
    <2>3. QED
      BY <1>a, <1>1, <1>2, <2>1, <2>2 DEF KeepsKey
  <1>5. QED
    BY <1>3, <1>4

\* A step of a request erases nothing but what it was asked to.
LEMMA OwnErased ==
  ASSUME IInv, FInv, NEW r \in Requests, Step(r), Acting(r),
         NEW m \in Memories, writes'[r][m] = Absent
  PROVE  \/ Op(r)' = "delete" /\ m = call'[r].of
         \/ Op(r)' = "drop" /\ rows'[m].tree = home'[r]
  <1>a. /\ call' = call /\ Op(r)' = Op(r) /\ Local(r) /\ TypeOK
        /\ m \in Objects /\ m \notin Trees
    BY OthersStay, MemoryForestAssumption DEF FInv, IInv, Op, Objects
  <1>b. writes'[r][m] # Untouched
    BY Sorts
  <1>1. CASE ReadOwner(r)
    <2>1. writes[r][m] = Untouched
      BY <1>a, <1>1 DEF ReadOwner, At, IInv, Unwritten, Early, Nothing
    <2>2. QED
      BY <1>1, <1>b, <2>1 DEF ReadOwner, locks
  <1>2. CASE Release(r)
    BY <1>a, <1>b, <1>2, ReleaseCells
  <1>3. CASE UNCHANGED <<rows, writes, home>>
    BY <1>a, <1>3 DEF Acting
  <1>4. CASE Insert(r)
    <2>1. Creates(r) => m # r /\ writes'[r][m] = writes[r][m]
      BY <1>a, Sorts, OwnRowFree
    <2>2. UNCHANGED <<rows, home>> /\ (Creates(r) \/ UNCHANGED writes)
      BY <1>4 DEF Insert, Creates, At
    <2>3. QED
      BY <1>a, <2>1, <2>2 DEF Acting
  <1>5. CASE Update(r)
    <2>1. rows[call[r].of] # Absent =>
            [rows[call[r].of] EXCEPT !.parent = parent(r)] \in Rows
      <3>1. rows[call[r].of] \in Rows \cup {Absent}
        BY <1>a, CallType DEF TypeOK
      <3>2. QED
        BY <1>a, <3>1, CallType, Reparented
    <2>2. writes'[r][m] = writes[r][m]
      BY <1>a, <1>5, <2>1, Sorts, CallType, WriteCells DEF Update
    <2>3. QED
      BY <1>a, <1>5, <2>2 DEF Update, Acting
  <1>6. ASSUME NEW sweep \in Sweeps, NEW n \in Memories, Take(r, sweep, n)
        PROVE  \/ Op(r)' = "delete" /\ m = call'[r].of
               \/ Op(r)' = "drop" /\ rows'[m].tree = home'[r]
    <2>1. UNCHANGED <<rows, home>>
      BY <1>6 DEF Take
    <2>2. CASE writes'[r][m] = writes[r][m]
      BY <1>a, <2>1, <2>2 DEF Acting
    <2>3. CASE writes'[r][m] # writes[r][m]
      <3>1. Qualifies(r, sweep, n) /\ n \in Objects
        BY <1>6, <2>3 DEF Take, Objects
      <3>2. [Seen(r, n) EXCEPT !.parent = "none"] \in Rows
        BY <1>a, <3>1, SeenType, Reparented DEF Qualifies
      <3>3. n = m
        BY <1>a, <1>6, <2>3, <3>1, WriteCells DEF Take
      <3>4. Erases(sweep)
        BY <1>a, <1>6, <3>1, <3>2, <3>3, Sorts, WriteCells DEF Take
      <3>5. QED
        BY <1>a, <1>6, <2>1, <3>1, <3>3, <3>4, ErasedOfTree
    <2>4. QED
      BY <2>2, <2>3
  <1>7. CASE RemoveMemory(r) \/ DropTree(r)
    <2>1. UNCHANGED <<rows, home>>
      BY <1>7 DEF RemoveMemory, DropTree, Delete
    <2>2. CASE writes'[r][m] = writes[r][m]
      BY <1>a, <2>1, <2>2 DEF Acting
    <2>3. CASE writes'[r][m] # writes[r][m]
      <3>1. DropTree(r) => home[r] \in Trees
        BY StatementNames DEF DropTree, At, IInv, InPlace
      <3>2. RemoveMemory(r) /\ m = call[r].of
        BY <1>a, <1>7, <2>3, <3>1, CallType, WriteCells
           DEF RemoveMemory, DropTree, Delete, Objects
      <3>3. Op(r) = "delete"
        BY <1>a, <3>2 DEF RemoveMemory, At, Local, Common, InTurn
      <3>4. QED
        BY <1>a, <3>2, <3>3
    <2>4. QED
      BY <2>2, <2>3
  <1>8. QED
    BY <1>1, <1>2, <1>3, <1>4, <1>5, <1>6, <1>7
    DEF Step, LockParent, FindExisting, CheckReferences, Reread, TakeGraphLock, ReadSource,
        ReadTarget, ReadAncestor, Scan, CommitDurable, CommitLost, AnswerUnknown,
        Acknowledge, Fail, Discard, locks

\* Where a request that has a client key looks for it.
LEMMA OwnKey ==
  ASSUME IInv, NEW r \in Requests, Step(r), Acting(r),
         pc'[r] \in {"existing", "rereadExisting", "rereadConflict"}
  PROVE  call'[r].key # "none"
  <1>a. call' = call /\ TypeOK
    BY OthersStay DEF IInv
  <1>1. CASE ReadOwner(r)
    <2>1. pc'[r] \in {AfterOwner(r), "aborting"}
      BY <1>a, <1>1, GoTo, RefuseTo DEF ReadOwner
    <2>2. QED
      BY <1>a, <2>1 DEF AfterOwner
  <1>2. CASE LockParent(r) \/ FindExisting(r) \/ Insert(r)
    BY <1>a, <1>2, GoTo, RefuseTo DEF LockParent, FindExisting, Insert, Acting, At
  <1>3. CASE pc'[r] = pc[r]
    BY <1>a, <1>3 DEF Acting
  <1>4. CASE CheckReferences(r) \/ Reread(r) \/ TakeGraphLock(r) \/ ReadSource(r)
             \/ ReadTarget(r) \/ ReadAncestor(r) \/ Update(r)
    BY <1>a, <1>3, <1>4, GoTo, RefuseTo
    DEF CheckReferences, Reread, TakeGraphLock, ReadSource, ReadTarget, ReadAncestor, Update
  <1>5. ASSUME NEW sweep \in Sweeps,
               Scan(r, sweep) \/ \E m \in Memories : Take(r, sweep, m)
        PROVE  call'[r].key # "none"
    BY <1>a, <1>5, GoTo, AfterSweepIn DEF Scan, Take
  <1>6. CASE RemoveMemory(r) \/ DropTree(r)
    BY <1>a, <1>6, GoTo, RefuseTo DEF RemoveMemory, DropTree, Delete
  <1>7. CASE CommitDurable(r) \/ CommitLost(r) \/ AnswerUnknown(r) \/ Acknowledge(r)
             \/ Fail(r) \/ Discard(r)
    BY <1>a, <1>3, <1>7, GoTo, RefuseTo
    DEF CommitDurable, CommitLost, AnswerUnknown, Acknowledge, Fail, Discard
  <1>8. QED
    BY <1>1, <1>2, <1>4, <1>5, <1>6, <1>7 DEF Step

\* A request acts for the owner of the tree that the owner check returned.
LEMMA OwnEntitled ==
  ASSUME IInv, NEW r \in Requests, Step(r), Acting(r), home'[r] # "none"
  PROVE  Owner[home'[r]] = call'[r].actor
  <1>a. call' = call /\ TypeOK
    BY OthersStay DEF IInv
  <1>1. CASE ReadOwner(r)
    BY <1>a, <1>1 DEF ReadOwner, Owned, Acting, TypeOK
  <1>2. CASE home' = home
    BY <1>a, <1>2 DEF Acting
  <1>3. QED
    BY <1>1, <1>2
    DEF Step, LockParent, FindExisting, Insert, CheckReferences, Reread, TakeGraphLock,
        ReadSource, ReadTarget, ReadAncestor, Update, Scan, Take, RemoveMemory, DropTree,
        Delete, CommitDurable, CommitLost, AnswerUnknown, Acknowledge, Fail, Discard

\* Where a creation gets to its COMMIT.
LEMMA OwnReturns ==
  ASSUME IInv, FInv, NEW r \in Requests, Step(r), Acting(r), Op(r) = "create",
         pc'[r] = "committing", writes'[r][r] # Untouched
  PROVE  result'[r] = r
  <1>a. Local(r) /\ TypeOK /\ r \in Objects
    BY DEF FInv, IInv, Objects, Memories
  <1>1. CASE Reread(r)
    <2>1. pc[r] = "rereadInserted"
      BY <1>a, <1>1 DEF Reread, Rereads, IInv, Unwritten, Early, Nothing, locks
    <2>2. PICK m \in {r} : result' = [result EXCEPT ![r] = m]
      BY <1>a, <1>1, <2>1 DEF Reread, At
    <2>3. QED
      BY <1>a, <2>2 DEF TypeOK
  <1>2. CASE pc[r] = "committing" /\ UNCHANGED <<writes, result>>
    BY <1>2 DEF Acting
  <1>3. ASSUME NEW sweep \in Sweeps,
               Scan(r, sweep) \/ \E m \in Memories : Take(r, sweep, m)
        PROVE  FALSE
    <2>1. pc[r] \in {sweep, Taking[sweep]}
      BY <1>3 DEF Scan, Take, At
    <2>2. Deletes(r)
      BY <1>a, <2>1, SweepPlaces
    <2>3. QED
      BY <2>2 DEF Deletes
  <1>4. CASE CheckReferences(r) \/ Update(r)
    BY <1>a, <1>4, GoTo, RefuseTo
    DEF CheckReferences, Update, At, Local, Common, InTurn, Updating
  <1>5. QED
    BY <1>a, <1>1, <1>2, <1>3, <1>4, GoTo, RefuseTo, AfterOwnerIn
    DEF Step, ReadOwner, LockParent, FindExisting, Insert, TakeGraphLock, ReadSource,
        ReadTarget, ReadAncestor, RemoveMemory, DropTree, Delete, CommitDurable,
        CommitLost, AnswerUnknown, Acknowledge, Fail, Discard, locks, At

\* The third invariant is inductive, given the other two.
LEMMA NextAInv == IInv /\ FInv /\ AInv /\ [Next]_vars => AInv'
  <1> SUFFICES ASSUME IInv, FInv, AInv, [Next]_vars, NEW q \in Requests
               PROVE  Acting(q)'
    BY DEF AInv
  <1>a. Acting(q)
    BY DEF AInv
  <1>1. ASSUME NEW r \in Requests, Step(r), q # r
        PROVE  Acting(q)'
    BY <1>a, <1>1, OtherActing
  <1>2. ASSUME Step(q)
        PROVE  Acting(q)'
    <2>1. Op(q)' = Op(q)
      BY <1>2, OpStays
    <2>2. QED
      BY <1>a, <1>2, <2>1, OwnKey, OwnEntitled, OwnErased, OwnReturns DEF Acting
  <1>3. CASE Finished \/ UNCHANGED vars
    BY <1>a, <1>3 DEF Finished, vars, Acting, Op
  <1>4. QED
    BY <1>1, <1>2, <1>3 DEF Next, Step

-----------------------------------------------------------------------------
(* Every step is a step of the atomic forest, or leaves it alone.          *)

\* What a request about to commit has checked: its tree is there, and it is its owner's.
LEMMA Entitled ==
  ASSUME IInv, FInv, AInv, NEW r \in Requests, pc[r] = "committing"
  PROVE  /\ home[r] \in Trees /\ Owner[home[r]] = call[r].actor
         /\ Op(r) \in {"create", "drop"} => home[r] = call[r].of
         /\ Op(r) \in {"update", "delete"} =>
              call[r].of \in Memories \ {r} /\ Of(call[r].of, home[r])
  <1>a. Local(r) /\ Acting(r) /\ TypeOK
    BY DEF IInv, FInv, AInv
  <1>1. home[r] \in Trees /\ home[r] # "none"
    BY <1>a, MemoryForestAssumption DEF Local, Common, AtHome, Objects
  <1>2. Op(r) \in {"update", "delete"} => call[r].of \in Memories
    BY <1>a DEF TypeOK, Calls, Op
  <1>3. Op(r) \in {"update", "delete"} => Of(call[r].of, home[r])
    BY <1>a, <1>1 DEF Local, Common, AtHome, OfHome
  <1>4. QED
    BY <1>a, <1>1, <1>2, <1>3 DEF Acting, Local, Common, AtHome, OfHome, Of, Settled

\* A row that a creation, a reparenting or a deletion rewrites keeps all but its parent.
LEMMA Rewritten ==
  ASSUME IInv, NEW r \in Requests, NEW m \in Memories, rows[m] # Absent,
         writes[r][m] \in Rows, NEW p, writes[r][m].parent = p
  PROVE  Seen(r, m) = [rows[m] EXCEPT !.parent = p]
  <1>1. m \in Objects /\ rows[m] \in Rows /\ Seen(r, m) = writes[r][m]
    BY Sorts DEF IInv, TypeOK, Objects, Seen
  <1>2. writes[r][m].tree = rows[m].tree /\ writes[r][m].key = rows[m].key
    BY <1>1 DEF IInv, KeepsKey
  <1>3. \A x, y \in Rows : x.tree = y.tree /\ x.key = y.key =>
          x = [y EXCEPT !.parent = x.parent]
    BY DEF Rows
  <1>4. QED
    BY <1>1, <1>2, <1>3

\* The COMMIT of a creation that has inserted is an atomic creation.
LEMMA CommitCreates ==
  ASSUME IInv, FInv, AInv, NEW r \in Requests, Commits(r), Op(r) = "create", ~Found(r)
  PROVE  Forest!Create(r)
  <1> DEFINE c == call[r]
  <1>a. Local(r) /\ Creator(r) /\ TypeOK /\ pc[r] = "committing"
    BY DEF IInv, FInv, Local, Commits
  <1>b. r \in Objects /\ r \in Memories /\ r # "none"
    BY MemoryForestAssumption DEF Objects, Memories
  <1>c. /\ home[r] = c.of /\ home[r] \in Trees /\ home[r] \in Objects
        /\ Owner[c.of] = c.actor
    BY <1>a, Entitled DEF Objects
  <1>1. writes[r][r] = NewRow(r) /\ writes[r][r] \in Rows
    BY <1>a, <1>b DEF Found, At, TypeOK, Local, Common, Shaped, Deletes
  <1>2. rows[r] = Absent
    BY <1>a DEF IInv, Born
  <1>3. rows[c.of] # Absent
    BY <1>a, <1>c, <1>1, Sorts DEF Creator, IInv, SharedStays
  <1>4. ASSUME NEW m \in Memories, rows[m] # Absent, c.key # "none",
               rows[m].key = c.key, rows[m].tree = c.of
        PROVE  FALSE
    <2>1. rows[m] \in Rows
      BY <1>4 DEF IInv, TypeOK, Objects
    <2>2. NewRow(r).key = c.key /\ NewRow(r).tree = c.of
      BY <1>c DEF NewRow
    <2>3. Version(m, rows[m]) /\ Version(r, writes[r][r])
      BY DEF Version
    <2>4. m = r
      BY <1>b, <1>1, <1>4, <2>1, <2>2, <2>3 DEF IInv, KeyBelongsToOne
    <2>5. QED
      BY <1>2, <1>4, <2>4
  <1>5. c.parent # "none" =>
          c.parent \in Memories /\ rows[c.parent] # Absent /\ rows[c.parent].tree = c.of
    <2>1. SUFFICES ASSUME parent(r) # "none"
                   PROVE  parent(r) \in Memories /\ rows[parent(r)] # Absent
                          /\ rows[parent(r)].tree = home[r]
      BY <1>c DEF parent
    <2>2. parent(r) \in shared[r] /\ rows[parent(r)].tree = home[r]
      BY <1>a, <2>1 DEF Creator
    <2>3. QED
      BY <1>a, <2>1, <2>2, CallType DEF IInv, SharedStays
  <1>6. rows' = [rows EXCEPT ![r] = [tree |-> c.of, parent |-> c.parent, key |-> c.key]]
    <2>1. \A o \in Objects : o # r => writes[r][o] = Untouched
      BY <1>a DEF TypeOK, Local, Common, Shaped, Deletes
    <2>2. Seen(r, r) = [tree |-> c.of, parent |-> c.parent, key |-> c.key]
      BY <1>c, <1>1, Sorts DEF Seen, NewRow, parent
    <2>3. \A o \in Objects : o # r => Seen(r, o) = rows[o]
      BY <2>1 DEF Seen
    <2>4. QED
      BY <1>a, <1>b, <2>2, <2>3 DEF Commits, TypeOK
  <1>7. Forest!Namesakes(r) = {}
    BY <1>4 DEF Forest!Namesakes, Forest!Living, Forest!Memories, Memories, Forest!Absent,
      Absent
  <1>8. Forest!Fits(c.parent, c.of)
    BY <1>5 DEF Forest!Fits, Forest!Living, Forest!Memories, Memories, Forest!Absent, Absent
  <1>9. Forest!Owns(r, c.of)
    BY <1>3, <1>c DEF Forest!Owns, Forest!Absent, Absent
  <1>10. QED
    BY <1>2, <1>6, <1>7, <1>8, <1>9 DEF Forest!Create, Forest!Absent, Absent, Op

\* The reread of a creation that found its key is an atomic find: the row is there, in
\* the tree, and the tree is there.
LEMMA RereadFinds ==
  ASSUME IInv, FInv, AInv, NEW r \in Requests, Step(r), Reread(r),
         pc[r] # "rereadInserted", pc'[r] = "committing"
  PROVE  result'[r] \in Memories /\ Forest!Find(r, result'[r])
  <1>a. Local(r) /\ Acting(r) /\ TypeOK /\ InPlace
    BY DEF IInv, FInv, AInv
  <1>b. pc[r] \in {"rereadExisting", "rereadConflict"} /\ Op(r) = "create"
    BY <1>a DEF Reread, Rereads, Local, Common, InTurn, Creating
  <1>c. /\ call[r].key # "none" /\ home[r] \in Trees /\ home[r] # "none"
        /\ home[r] = call[r].of /\ Owner[home[r]] = call[r].actor
    BY <1>a, <1>b, StatementNames, MemoryForestAssumption
    DEF Acting, InPlace, Local, Common, AtHome, OfHome, Objects
  <1>1. PICK m \in Memories : Bound(r, Seen(r, m)) /\ result'[r] = m
    <2>1. \/ result' = result /\ pc'[r] = "aborting"
          \/ \E m \in Memories : Bound(r, Seen(r, m)) /\ result' = [result EXCEPT ![r] = m]
      BY <1>a, <1>b, RefuseTo DEF Reread, At
    <2>2. QED
      BY <1>a, <2>1 DEF TypeOK
  <1>2. Seen(r, m) = rows[m]
    BY <1>b DEF IInv, Unwritten, Early, Nothing, Objects, Seen
  <1>3. rows[m].tree = call[r].of /\ rows[m].key = call[r].key /\ rows[m] # Absent
    BY <1>1, <1>2, <1>c, MemoryForestAssumption DEF Bound, Absent
  <1>4. rows[call[r].of] # Absent
    BY <1>3 DEF FInv, ReferencesHold, Living
  <1>5. m \in Forest!Namesakes(r)
    BY <1>3, <1>c DEF Forest!Namesakes, Forest!Living, Forest!Memories, Memories,
      Forest!Absent, Absent
  <1>6. Forest!Owns(r, call[r].of)
    BY <1>4, <1>c DEF Forest!Owns, Forest!Absent, Absent
  <1>7. UNCHANGED rows
    BY DEF Reread
  <1>8. QED
    BY <1>1, <1>5, <1>6, <1>7, <1>b DEF Forest!Find, Op

\* The COMMIT of a reparenting is an atomic move: what the ancestor walk has climbed
\* holds the new parent and all that is above it now, and not the memory.
LEMMA CommitMoves ==
  ASSUME IInv, FInv, AInv, NEW r \in Requests, Commits(r), Op(r) = "update"
  PROVE  Forest!Move(r)
  <1> DEFINE m == call[r].of
             p == call[r].parent
  <1>a. Local(r) /\ Mover(r) /\ TypeOK /\ pc[r] = "committing" /\ ~Deletes(r)
    BY DEF IInv, FInv, Local, Commits, Deletes
  <1>b. /\ m \in Memories /\ m \in Objects /\ Of(m, home[r]) /\ home[r] \in Trees
        /\ Owner[home[r]] = call[r].actor /\ p = parent(r)
    BY <1>a, Entitled DEF Objects, parent
  <1>1. /\ writes[r][m] \in Rows /\ rows[m] # Absent /\ writes[r][m].parent = p
        /\ \A o \in Objects : o # m => writes[r][o] = Untouched
    BY <1>a, <1>b, Sorts DEF Mover, TypeOK, Local, Common, Shaped
  <1>2. rows[m].tree = home[r] /\ rows[home[r]] # Absent
    BY <1>b, <1>1 DEF Of, FInv, ReferencesHold, Living
  <1>3. p # "none" => p \in Memories /\ rows[p] # Absent /\ rows[p].tree = home[r]
    <2>1. SUFFICES ASSUME p # "none"
                   PROVE  p \in Memories /\ rows[p] # Absent /\ rows[p].tree = home[r]
      OBVIOUS
    <2>2. p \in Memories /\ Of(p, home[r]) /\ (p \in shared[r] \/ p = rows[m].parent)
      BY <1>a, <1>b, <2>1, CallType DEF Mover
    <2>3. rows[p] # Absent
      BY <1>b, <1>1, <2>1, <2>2 DEF IInv, SharedStays, FInv, ReferencesHold, Living
    <2>4. QED
      BY <2>2, <2>3 DEF Of
  <1>4. Forest!NotAbove(m, p)
    <2>1. SUFFICES ASSUME p # "none"
                   PROVE  Forest!NotAbove(m, p)
      BY DEF Forest!NotAbove
    <2>2. PICK S \in SUBSET Memories : Climbed(r, S, "none")
      BY <1>a, <1>b, <2>1 DEF Mover
    <2>3. /\ p \in S /\ m \notin S
          /\ \A n \in S : rows[n] # Absent => rows[n].parent \in S \cup {"none"}
      BY <1>b, <2>1, <2>2 DEF Climbed
    <2>4. QED
      BY <2>3 DEF Forest!NotAbove, Forest!Living, Forest!Memories, Memories,
        Forest!Absent, Absent
  <1>5. rows' = [rows EXCEPT ![m].parent = p]
    <2>1. Seen(r, m) = [rows[m] EXCEPT !.parent = p]
      BY <1>b, <1>1, Rewritten
    <2>2. \A o \in Objects : o # m => Seen(r, o) = rows[o]
      BY <1>1 DEF Seen
    <2>3. QED
      BY <1>a, <1>b, <2>1, <2>2 DEF Commits, TypeOK
  <1>6. m \in Forest!Living /\ Forest!Owns(r, rows[m].tree) /\ Forest!Fits(p, rows[m].tree)
    BY <1>b, <1>1, <1>2, <1>3
    DEF Forest!Owns, Forest!Fits, Forest!Living, Forest!Memories, Memories, Forest!Absent,
        Absent
  <1>7. QED
    BY <1>4, <1>5, <1>6 DEF Forest!Move, Op

\* The COMMIT of a deletion of a memory makes its children roots, misses none, and
\* touches no other row.
LEMMA CommitRemoves ==
  ASSUME IInv, FInv, AInv, NEW r \in Requests, Commits(r), Op(r) = "delete"
  PROVE  Forest!Remove(r)
  <1> DEFINE m == call[r].of
  <1>a. Local(r) /\ Deleter(r) /\ Acting(r) /\ TypeOK /\ pc[r] = "committing" /\ Deletes(r)
    BY DEF IInv, FInv, AInv, Local, Commits, Deletes
  <1>b. /\ m \in Memories /\ m \in Objects /\ m # r /\ Of(m, home[r]) /\ home[r] \in Trees
        /\ Owner[home[r]] = call[r].actor /\ m # "none"
    BY <1>a, Entitled, MemoryForestAssumption DEF Objects
  <1>1. writes[r][m] = Absent
    BY <1>a DEF Deleter
  <1>2. rows[m] # Absent
    BY <1>b, <1>1, Sorts DEF IInv, Exclusive
  <1>3. rows[m].tree = home[r] /\ rows[home[r]] # Absent
    BY <1>b, <1>2 DEF Of, FInv, ReferencesHold, Living
  <1>4. ASSUME NEW o \in Objects
        PROVE  Seen(r, o) = IF o = m THEN Absent
                            ELSE IF rows[o].parent = m
                                 THEN [rows[o] EXCEPT !.parent = "none"] ELSE rows[o]
    <2>1. CASE o = m
      BY <1>1, <2>1, Sorts DEF Seen
    <2>2. CASE o \in Trees
      <3>1. writes[r][o] = Untouched
        BY <1>a, <2>2, MemoryForestAssumption DEF TypeOK, Local, Common, Shaped, Objects
      <3>2. rows[o].parent = "none"
        BY <2>2 DEF FInv, TreeRowsStay, TreeRow, Absent
      <3>3. QED
        BY <1>b, <2>2, <3>1, <3>2, MemoryForestAssumption DEF Seen, Objects
    <2>3. CASE o \in Memories /\ o # m
      <3>1. CASE writes[r][o] = Untouched
        <4>1. Seen(r, o) = rows[o]
          BY <3>1 DEF Seen
        <4>2. ASSUME rows[o].parent = m
              PROVE  FALSE
          <5>1. rows[o] # Absent
            BY <1>b, <4>2 DEF Absent
          <5>2. Seen(r, m) = Absent
            BY <1>1, Sorts DEF Seen
          <5>3. Orphaned(r, o)
            BY <1>b, <4>1, <4>2, <5>1, <5>2 DEF Orphaned
          <5>4. QED
            BY <1>a, <2>3, <5>3 DEF Deleter
        <4>3. QED
          BY <2>3, <4>1, <4>2
      <3>2. CASE writes[r][o] # Untouched
        <4>1. \A n \in Memories : writes[r][n] = Absent => n = m
          BY <1>a DEF Acting
        <4>2. writes[r][o] \in Rows
          BY <1>a, <2>3, <3>2, <4>1 DEF TypeOK
        <4>3. rows[o] # Absent /\ writes[r][o].parent = "none"
          BY <1>a, <4>2 DEF Local, Common, Shaped, Deletes
        <4>4. rows[o].parent = m
          BY <1>a, <2>3, <4>1, <4>2 DEF Deleter, Detached
        <4>5. QED
          BY <2>3, <4>2, <4>3, <4>4, Rewritten
      <3>3. QED
        BY <3>1, <3>2
    <2>4. QED
      BY <2>1, <2>2, <2>3 DEF Objects
  <1>5. m \in Forest!Living /\ Forest!Owns(r, rows[m].tree)
    BY <1>b, <1>2, <1>3
    DEF Forest!Owns, Forest!Living, Forest!Memories, Memories, Forest!Absent, Absent
  <1>6. rows' = [o \in Objects |-> IF o = m THEN Absent
                                  ELSE IF rows[o].parent = m
                                       THEN [rows[o] EXCEPT !.parent = "none"]
                                       ELSE rows[o]]
    BY <1>4 DEF Commits
  <1>7. QED
    BY <1>5, <1>6 DEF Forest!Remove, Op, Forest!Objects, Forest!Memories, Objects,
      Memories, Forest!Absent, Absent

\* The COMMIT of a deletion of a tree takes the tree and every memory of it, whatever
\* was created meanwhile, and touches no other row.
LEMMA CommitDrops ==
  ASSUME IInv, FInv, AInv, NEW r \in Requests, Commits(r), Op(r) = "drop"
  PROVE  Forest!Drop(r)
  <1> DEFINE t == call[r].of
  <1>a. Local(r) /\ Deleter(r) /\ Acting(r) /\ TypeOK /\ pc[r] = "committing" /\ Deletes(r)
    BY DEF IInv, FInv, AInv, Local, Commits, Deletes
  <1>b. t = home[r] /\ t \in Trees /\ t \in Objects /\ Owner[t] = call[r].actor /\ t # r
    BY <1>a, Entitled, MemoryForestAssumption DEF Objects, Memories
  <1>1. writes[r][t] = Absent
    BY <1>a, <1>b DEF Deleter
  <1>2. rows[t] # Absent
    BY <1>b, <1>1, Sorts DEF IInv, Exclusive
  <1>3. ASSUME NEW o \in Objects
        PROVE  Seen(r, o) = IF rows[o].tree = t THEN Absent ELSE rows[o]
    <2>1. CASE o \in Trees
      <3>1. rows[o].tree = t <=> o = t
        BY <1>b, <1>2, <2>1, MemoryForestAssumption
        DEF FInv, TreeRowsStay, TreeRow, Absent
      <3>2. o # t => writes[r][o] = Untouched
        BY <1>a, <1>b, <2>1, MemoryForestAssumption DEF TypeOK, Local, Common, Shaped, Objects
      <3>3. QED
        BY <1>1, <3>1, <3>2, Sorts DEF Seen
    <2>2. CASE o \in Memories
      <3>1. ASSUME Seen(r, o) # Absent
            PROVE  Seen(r, o).tree # t
        BY <1>a, <1>b, <1>1, <2>2, <3>1 DEF Deleter, LeftBehind
      <3>2. CASE writes[r][o] = Untouched
        BY <1>b, <3>1, <3>2, MemoryForestAssumption DEF Seen, Absent
      <3>3. CASE writes[r][o] = Absent
        BY <1>a, <1>b, <2>2, <3>3, Sorts DEF Acting, Seen
      <3>4. ASSUME writes[r][o] \in Rows
            PROVE  FALSE
        <4>1. /\ Seen(r, o) = writes[r][o] /\ Seen(r, o) # Absent /\ rows[o] # Absent
              /\ Seen(r, o).tree = rows[o].tree
          BY <1>a, <3>4, Sorts DEF Local, Common, Shaped, Deletes, Seen, IInv, KeepsKey
        <4>2. Detached(r, o)
          BY <1>a, <2>2, <3>4 DEF Deleter
        <4>3. CASE rows[o].tree = home[r]
          BY <1>b, <3>1, <4>1, <4>3
        <4>4. CASE rows[o].parent \in Memories /\ writes[r][rows[o].parent] = Absent
          <5>1. rows[rows[o].parent].tree = t
            BY <1>a, <1>b, <4>4 DEF Acting
          <5>2. rows[o].parent # "none"
            BY <4>4, MemoryForestAssumption DEF Objects
          <5>3. rows[o].tree = t
            BY <2>2, <4>1, <5>1, <5>2 DEF FInv, ReferencesHold, Living
          <5>4. QED
            BY <3>1, <4>1, <5>3
        <4>5. QED
          BY <1>a, <4>2, <4>3, <4>4 DEF Detached
      <3>5. QED
        BY <1>a, <3>2, <3>3, <3>4 DEF TypeOK
    <2>3. QED
      BY <2>1, <2>2 DEF Objects
  <1>4. rows' = [o \in Objects |-> IF rows[o].tree = t THEN Absent ELSE rows[o]]
    BY <1>3 DEF Commits
  <1>5. Forest!Owns(r, t)
    BY <1>b, <1>2 DEF Forest!Owns, Forest!Absent, Absent
  <1>6. QED
    BY <1>4, <1>5 DEF Forest!Drop, Op, Forest!Objects, Forest!Memories, Objects, Memories,
      Forest!Absent, Absent

\* A creation whose reread returns the memory that it found by its key.
Finds(r) == Reread(r) /\ pc[r] # "rereadInserted" /\ pc'[r] = "committing"

Refusals == {"refused", "conflict", "missing", "failed"}

\* A statement, but for the reread that finds, leads on or is refused.
LEMMA StatementOutcome ==
  ASSUME IInv, FInv, NEW r \in Requests, Step(r), pc[r] \in Statements, ~Finds(r)
  PROVE  /\ rows' = rows
         /\ \/ /\ pc'[r] \in Statements \cup {"committing"} /\ answer'[r] = answer[r]
               /\ Op(r) = "create" /\ pc'[r] = "committing" => writes'[r][r] # Untouched
            \/ pc'[r] = "aborting" /\ answer'[r] \in Refusals
  <1>a. Local(r) /\ TypeOK /\ r \in Objects
    BY DEF FInv, IInv, Objects, Memories
  <1> USE StatementNames DEF At, Refusals
  <1>1. CASE ReadOwner(r)
    BY <1>a, <1>1, GoTo, RefuseTo, AfterOwnerIn DEF ReadOwner
  <1>2. CASE LockParent(r) \/ FindExisting(r) \/ Insert(r)
    BY <1>a, <1>2, GoTo, RefuseTo DEF LockParent, FindExisting, Insert
  <1>3. CASE CheckReferences(r)
    BY <1>a, <1>3, GoTo, RefuseTo DEF CheckReferences
  <1>4. CASE Reread(r)
    <2>1. CASE pc[r] = "rereadInserted"
      <3>1. writes[r][r] # Untouched
        <4>1. Op(r) = "create"
          BY <1>a, <2>1 DEF Local, Common, InTurn, Creating
        <4>2. writes[r][r] = NewRow(r)
          BY <1>a, <2>1, <4>1 DEF Local, Creator
        <4>3. home[r] \in Trees
          BY <2>1 DEF IInv, InPlace
        <4>4. QED
          BY <4>2, <4>3, MemoryForestAssumption DEF NewRow, Untouched
      <3>2. pc'[r] = "committing" /\ UNCHANGED <<rows, writes, answer>>
        BY <1>a, <1>4, <2>1, GoTo DEF Reread, locks
      <3>3. QED
        BY <3>1, <3>2
    <2>2. CASE pc[r] # "rereadInserted"
      <3>1. pc'[r] # "committing"
        BY <1>4, <2>2 DEF Finds
      <3>2. QED
        BY <1>a, <1>4, <3>1, GoTo, RefuseTo DEF Reread
    <2>3. QED
      BY <2>1, <2>2
  <1>5. CASE TakeGraphLock(r) \/ ReadSource(r) \/ ReadTarget(r)
    BY <1>a, <1>5, GoTo, RefuseTo DEF TakeGraphLock, ReadSource, ReadTarget
  <1>6. CASE ReadAncestor(r)
    BY <1>a, <1>6, GoTo, RefuseTo DEF ReadAncestor
  <1>7. CASE Update(r)
    <2>1. Op(r) # "create"
      BY <1>a, <1>7 DEF Update, Local, Common, InTurn, Updating
    <2>2. QED
      BY <1>a, <1>7, <2>1, GoTo, RefuseTo DEF Update
  <1>8. ASSUME NEW sweep \in Sweeps,
               Scan(r, sweep) \/ \E m \in Memories : Take(r, sweep, m)
        PROVE  /\ rows' = rows /\ pc'[r] \in Statements \cup {"committing"}
               /\ answer'[r] = answer[r] /\ Op(r) # "create"
    <2>1. pc[r] \in {sweep, Taking[sweep]}
      BY <1>8 DEF Scan, Take
    <2>2. Deletes(r)
      BY <1>a, <2>1, SweepPlaces
    <2>3. pc'[r] \in {AfterSweep(r, sweep), Taking[sweep]}
      BY <1>a, <1>8, GoTo DEF Scan, Take
    <2>4. QED
      BY <1>8, <2>2, <2>3, AfterSweepIn DEF Scan, Take, Deletes
  <1>9. CASE RemoveMemory(r) \/ DropTree(r)
    BY <1>a, <1>9, GoTo, RefuseTo DEF RemoveMemory, DropTree, Delete
  <1>10. CASE Fail(r)
    BY <1>a, <1>10, RefuseTo DEF Fail
  <1>11. QED
    BY <1>1, <1>2, <1>3, <1>4, <1>5, <1>6, <1>7, <1>8, <1>9, <1>10
    DEF Step, CommitDurable, CommitLost, AnswerUnknown, Acknowledge, Discard

\* The stages of a request that is still at work.
LEMMA StageAtWork ==
  ASSUME IInv, FInv, NEW r \in Requests
  PROVE  /\ pc[r] \in Statements => Stage(r) = "open" /\ Returning(r) = "none"
         /\ pc[r] = "committing" /\ ~Found(r) => Stage(r) = "open" /\ Returning(r) = "none"
         /\ Found(r) => Stage(r) = "done" /\ Returning(r) = result[r]
         /\ pc[r] = "committed" => Stage(r) = "done"
  BY StatementNames
  DEF FInv, Local, Common, AnsweredLast, Stage, Returning, Found, At, Statements

\* A step of a request shows at its stage only.
LEMMA Enters ==
  ASSUME IInv, NEW r \in Requests, Step(r)
  PROVE  /\ \A s, m : Stage(r)' = s /\ Returning(r)' = m => Forest!Enter(r, s, m)
         /\ UNCHANGED rows /\ Stage(r)' = Stage(r) /\ Returning(r)' = Returning(r)
            => UNCHANGED Forest!vars
  <1>1. \A q \in Requests \ {r} : Stage(q)' = Stage(q) /\ Returning(q)' = Returning(q)
    BY OthersStay DEF Stage, Returning, Found, Op, At
  <1>2. call' = call
    BY OthersStay
  <1>3. QED
    BY <1>1, <1>2 DEF Forest!Enter, Forest!vars

\* The COMMIT of what has not taken effect yet is the effect.
LEMMA CommitPerforms ==
  ASSUME IInv, FInv, AInv, NEW r \in Requests, Step(r), CommitDurable(r), ~Found(r)
  PROVE  Stage(r)' # Stage(r) /\ Forest!Perform(r)
  <1>a. /\ TypeOK /\ Local(r) /\ Acting(r) /\ Commits(r) /\ pc[r] = "committing"
        /\ answer' = answer /\ answer[r] \in {"none", "unknown"} /\ result' = result
        /\ Stage(r) = "open"
    BY StageAtWork DEF IInv, FInv, AInv, CommitDurable, Commits, At, Local, Common,
      AnsweredLast
  <1>b. Op(r)' = Op(r) /\ Op(r) \in {"create", "update", "delete", "drop"}
    BY OpStays
  <1> DEFINE m == IF Op(r) = "create" THEN r ELSE "none"
  <1>1. Forest!Effect(r, m)
    BY <1>a, <1>b, CommitCreates, CommitMoves, CommitRemoves, CommitDrops DEF Forest!Effect
  <1>2. Op(r) = "create" => result[r] = r
    BY <1>a DEF Found, At, Acting
  <1>3. CASE answer[r] = "none"
    <2>1. pc'[r] = "committed" /\ answer'[r] = "none"
      BY <1>a, <1>3, GoTo DEF CommitDurable
    <2>2. Stage(r)' = "done" /\ Returning(r)' = m
      BY <1>a, <1>b, <1>2, <2>1 DEF Stage, Returning, At
    <2>3. Forest!Enter(r, "done", m)
      BY <2>2, Enters
    <2>4. QED
      BY <1>a, <1>1, <2>2, <2>3 DEF Forest!Perform, Forest!Memories
  <1>4. CASE answer[r] = "unknown"
    <2>1. pc'[r] = "closed" /\ answer'[r] = "unknown"
      BY <1>a, <1>4, GoTo DEF CommitDurable
    <2>2. Stage(r)' = "over" /\ Returning(r)' = "none"
      BY <1>a, <2>1 DEF Stage, Returning, At, Found
    <2>3. Forest!Enter(r, "over", "none")
      BY <2>2, Enters
    <2>4. QED
      BY <1>a, <1>1, <2>2, <2>3 DEF Forest!Perform, Forest!Memories
  <1>5. QED
    BY <1>a, <1>3, <1>4

\* The COMMIT of a creation that found its key changes nothing.
LEMMA CommitOfFound ==
  ASSUME IInv, FInv, NEW r \in Requests, Step(r), CommitDurable(r), Found(r)
  PROVE  rows' = rows
  <1>1. \A o \in Objects : writes[r][o] = Untouched
    BY DEF IInv, TypeOK, FInv, Local, Common, Shaped, Deletes, Found
  <1>2. \A o \in Objects : Seen(r, o) = rows[o]
    BY <1>1 DEF Seen
  <1>3. QED
    BY <1>2 DEF CommitDurable, IInv, TypeOK

\* The reread that finds is the effect of its creation.
LEMMA FindPerforms ==
  ASSUME IInv, FInv, AInv, NEW r \in Requests, Step(r), Finds(r)
  PROVE  Stage(r)' # Stage(r) /\ Forest!Perform(r)
  <1>a. /\ TypeOK /\ pc[r] \in {"rereadExisting", "rereadConflict"} /\ answer[r] = "none"
        /\ Op(r) = "create" /\ pc'[r] = "committing" /\ r \in Objects
    BY StatementNames DEF Finds, Reread, Rereads, IInv, FInv, Local, Common, AnsweredLast,
      InTurn, Creating, Objects, Memories
  <1>1. result'[r] \in Memories /\ Forest!Find(r, result'[r])
    BY RereadFinds DEF Finds
  <1>2. writes'[r][r] = Untouched
    BY <1>a DEF Finds, Reread, locks, IInv, Unwritten, Early, Nothing
  <1>3. answer'[r] = "none"
    BY <1>a, RefuseTo DEF Finds, Reread
  <1>4. Stage(r)' = "done" /\ Returning(r)' = result'[r]
    BY <1>a, <1>2, <1>3, OpStays DEF Stage, Returning, Found, At
  <1>5. Stage(r) = "open"
    BY <1>a, StageAtWork, StatementNames
  <1>6. Forest!Enter(r, "done", result'[r])
    BY <1>4, Enters
  <1>7. QED
    BY <1>1, <1>4, <1>5, <1>6 DEF Forest!Perform, Forest!Effect, Forest!Memories, Memories

\* The other ends of a transaction are answers, refusals and losses.
LEMMA EndRefines ==
  ASSUME IInv, FInv, AInv, NEW r \in Requests, Step(r),
         \/ CommitDurable(r) /\ Found(r)
         \/ CommitLost(r) \/ AnswerUnknown(r) \/ Acknowledge(r) \/ Discard(r)
  PROVE  [Forest!Next]_(Forest!vars)
  <1>a. /\ TypeOK /\ AnsweredLast(r) /\ answer'[r] # "missing"
        /\ Op(r)' = Op(r) /\ Stage(r)' \in {"open", "done", "answered", "refused", "over"}
    <2>1. answer'[r] \in Answers
      BY NextTypeOK DEF Next, Step, TypeOK
    <2>2. QED
      BY <2>1, OpStays, StepControl DEF IInv, FInv, Local, Common, Control, Stage, Answers
  <1>1. ASSUME rows' = rows, Stage(r) \in {"open", "done"}, Stage(r)' = "over"
        PROVE  [Forest!Next]_(Forest!vars)
    <2>1. Returning(r)' = "none"
      BY <1>1 DEF Returning
    <2>2. Forest!Lose(r)
      BY <1>1, <2>1, Enters DEF Forest!Lose
    <2>3. QED
      BY <1>1, <2>2 DEF Forest!Next
  <1>2. ASSUME rows' = rows, Stage(r)' = Stage(r), Returning(r)' = Returning(r)
        PROVE  [Forest!Next]_(Forest!vars)
    BY <1>2, Enters
  <1>3. CASE CommitDurable(r) /\ Found(r)
    <2>1. /\ rows' = rows /\ answer' = answer /\ result' = result
          /\ answer[r] \in {"none", "unknown"} /\ Stage(r) = "done"
          /\ Returning(r) = result[r] /\ Op(r) = "create"
          /\ pc'[r] = IF answer[r] = "none" THEN "committed" ELSE "closed"
      BY <1>a, <1>3, CommitOfFound, StageAtWork, GoTo
      DEF CommitDurable, AnsweredLast, Found, At
    <2>2. CASE answer[r] = "none"
      BY <1>a, <1>2, <2>1, <2>2 DEF Stage, Returning, At
    <2>3. CASE answer[r] = "unknown"
      BY <1>1, <2>1, <2>3 DEF Stage, Found, At
    <2>4. QED
      BY <2>1, <2>2, <2>3
  <1>4. CASE CommitLost(r)
    <2>1. rows' = rows /\ pc'[r] = "closed" /\ answer'[r] = "unknown"
      BY <1>a, <1>4, GoTo DEF CommitLost, TypeOK
    <2>2. Stage(r) \in {"open", "done"}
      BY <1>4, StageAtWork DEF CommitLost, At
    <2>3. Stage(r)' = "over"
      BY <2>1 DEF Stage, Found, At
    <2>4. QED
      BY <1>1, <2>1, <2>2, <2>3
  <1>5. CASE AnswerUnknown(r)
    <2>1. /\ UNCHANGED <<rows, pc, writes, result, call>>
          /\ answer[r] = "none" /\ answer'[r] = "unknown"
      BY <1>a, <1>5 DEF AnswerUnknown, TypeOK, locks
    <2>2. Stage(r)' = Stage(r) /\ Returning(r)' = Returning(r)
      BY <2>1 DEF Stage, Returning, Found, Op, At
    <2>3. QED
      BY <1>2, <2>1, <2>2
  <1>6. CASE Acknowledge(r)
    <2>1. /\ rows' = rows /\ pc'[r] = "closed" /\ result' = result
          /\ answer'[r] \in {"success", "unknown"} /\ Stage(r) = "done"
      BY <1>a, <1>6, GoTo, StageAtWork DEF Acknowledge, At, TypeOK
    <2>2. CASE answer'[r] = "unknown"
      BY <1>1, <2>1, <2>2 DEF Stage, Found, At
    <2>3. CASE answer'[r] = "success"
      <3>1. Stage(r)' = "answered" /\ Returning(r)' = Returning(r)
        BY <1>a, <2>1, <2>3 DEF Stage, Returning
      <3>2. Forest!Enter(r, "answered", Returning(r))
        BY <3>1, Enters
      <3>3. Forest!Answer(r)
        BY <2>1, <3>2 DEF Forest!Answer
      <3>4. QED
        BY <2>1, <3>1, <3>3 DEF Forest!Next
    <2>4. QED
      BY <2>1, <2>2, <2>3
  <1>7. CASE Discard(r)
    <2>1. /\ UNCHANGED <<rows, answer, result>> /\ pc[r] = "aborting"
          /\ pc'[r] = "closed" /\ answer[r] # "success" /\ answer[r] \in Answers
      BY <1>a, <1>7, GoTo DEF Discard, AnsweredLast, At, TypeOK
    <2>2. CASE answer[r] \in Refusals
      BY <1>2, <1>a, <2>1, <2>2 DEF Stage, Returning, Refusals
    <2>3. CASE answer[r] \in {"none", "unknown"}
      BY <1>1, <2>1, <2>3 DEF Stage, Found, At
    <2>4. QED
      BY <2>1, <2>2, <2>3 DEF Answers, Refusals
  <1>8. QED
    BY <1>3, <1>4, <1>5, <1>6, <1>7

\* Every step of a request is a step of the atomic forest, or leaves it alone.
LEMMA StepRefines ==
  ASSUME IInv, FInv, AInv, NEW r \in Requests, Step(r)
  PROVE  [Forest!Next]_(Forest!vars)
  <1>1. CASE Finds(r)
    BY <1>1, FindPerforms DEF Forest!Next
  <1>2. CASE CommitDurable(r) /\ ~Found(r)
    BY <1>2, CommitPerforms DEF Forest!Next
  <1>3. CASE pc[r] \in Statements /\ ~Finds(r)
    <2>1. Stage(r) = "open" /\ Returning(r) = "none"
      BY <1>3, StageAtWork
    <2>2. rows' = rows
      BY <1>3, StatementOutcome
    <2>3. CASE /\ pc'[r] \in Statements \cup {"committing"} /\ answer'[r] = answer[r]
               /\ Op(r) = "create" /\ pc'[r] = "committing" => writes'[r][r] # Untouched
      <3>1. answer'[r] = "none"
        BY <1>3, <2>3 DEF FInv, Local, Common, AnsweredLast
      <3>2. pc'[r] \notin {"committed", "closed"}
        BY <2>3, StatementNames
      <3>3. Stage(r)' = "open"
        BY <2>3, <3>1, <3>2, OpStays DEF Stage, Found, At
      <3>4. Returning(r)' = "none"
        BY <3>3 DEF Returning
      <3>5. QED
        BY <2>1, <2>2, <3>3, <3>4, Enters
    <2>4. CASE pc'[r] = "aborting" /\ answer'[r] \in Refusals
      <3>1. Stage(r)' = "refused" /\ Returning(r)' = "none"
        BY <2>4 DEF Stage, Returning, Refusals
      <3>2. Forest!Refuse(r)
        BY <2>1, <2>2, <3>1, Enters DEF Forest!Refuse
      <3>3. QED
        BY <2>1, <3>1, <3>2 DEF Forest!Next
    <2>5. QED
      BY <1>3, <2>3, <2>4, StatementOutcome
  <1>4. CASE \/ CommitDurable(r) /\ Found(r)
             \/ CommitLost(r) \/ AnswerUnknown(r) \/ Acknowledge(r) \/ Discard(r)
    BY <1>4, EndRefines
  <1>5. ReadOwner(r) \/ LockParent(r) \/ FindExisting(r) \/ Insert(r)
        \/ CheckReferences(r) \/ TakeGraphLock(r) \/ ReadSource(r) \/ ReadTarget(r)
        \/ ReadAncestor(r) \/ Update(r) \/ RemoveMemory(r) \/ DropTree(r) \/ Fail(r)
        \/ Reread(r)
        => pc[r] \in Statements
    BY StatementNames
    DEF ReadOwner, LockParent, FindExisting, Insert, CheckReferences, TakeGraphLock,
        ReadSource, ReadTarget, ReadAncestor, Update, RemoveMemory, DropTree, Fail, Reread,
        Rereads, At
  <1>6. ASSUME NEW sweep \in Sweeps,
               Scan(r, sweep) \/ \E m \in Memories : Take(r, sweep, m)
        PROVE  pc[r] \in Statements
    <2>1. pc[r] \in {sweep, Taking[sweep]}
      BY <1>6 DEF Scan, Take, At
    <2>2. QED
      BY <2>1, SweepPlaces
  <1>7. QED
    BY <1>1, <1>2, <1>3, <1>4, <1>5, <1>6 DEF Step

\* The requests start as those of the atomic forest do.
LEMMA InitRefines == Init => Forest!Init
  <1> SUFFICES ASSUME Init
               PROVE  Forest!Init
    OBVIOUS
  <1>1. \A r \in Requests : Stage(r) = "open" /\ Returning(r) = "none"
    BY DEF Init, Stage, Returning, Found, At
  <1>2. QED
    BY <1>1 DEF Init, Forest!Init, TreeRow, Forest!Absent, Absent, Forest!Objects,
      Forest!Memories, Objects, Memories

\* The four writers, of many statements each and interleaved in any way, with any
\* failures, implement an atomic forest: each request takes effect at one instant, where
\* all that it checked holds, or never, and is answered truthfully.
THEOREM ForestRefinement == Spec => ImplementsForest
  <1>1. IInv /\ FInv /\ AInv /\ [Next]_vars => [Forest!Next]_(Forest!vars)
    <2> SUFFICES ASSUME IInv, FInv, AInv, [Next]_vars
                 PROVE  [Forest!Next]_(Forest!vars)
      OBVIOUS
    <2>1. CASE Finished \/ UNCHANGED vars
      <3>1. UNCHANGED vars
        BY <2>1 DEF Finished
      <3>2. \A r \in Requests : Stage(r)' = Stage(r) /\ Returning(r)' = Returning(r)
        BY <3>1 DEF vars, Stage, Returning, Found, Op, At
      <3>3. QED
        BY <3>1, <3>2 DEF vars, Forest!vars
    <2>2. QED
      BY <2>1, StepRefines DEF Next, Step
  <1>2. QED
    BY <1>1, InitIInv, InitFInv, ActingAtStart, NextIInv, NextFInv, NextAInv,
       InitRefines, PTL
    DEF Spec, ImplementsForest, Forest!Spec

=============================================================================
