# LoveBud: formal models of the write path

LoveBud is a web application in which people plant trees of memories (songs,
videos), make them public or private, and like, view and comment on them.  The
browser code (`src/js`) talks to Cloudflare Pages Functions
(`src/functions/api`), whose handlers (`src/functions/_shared`) write to one
PostgreSQL database (Neon) through a request-scoped WebSocket transaction, or
proxy to an older backend on Modal (`src/modal_compute`), route by route, as
environment gates say.  Nothing runs in one process for long: each request is a
short-lived function, and everything that two requests share is in the
database.  What is hard about this program is therefore in the database
transactions: their interleaving, the locks and unique keys that are meant to
serialize them, and the COMMIT whose answer never arrives.

The models cover that core first.  `PROJECT.json` maps every definition to the
lines it stands for, and lists the hazards at the lines where they bite.

## Inventory

| Part | State it keeps | Operations | What makes it correct | Model |
|---|---|---|---|---|
| Transaction adapter (`db/neon-ws-transaction-adapter.js`) | a 13-state machine per call, one client | connect, BEGIN, statements, COMMIT or ROLLBACK, close | the answer agrees with the database; every call settles; no session leaks | `NeonTx` |
| Tree likes (`tree-like-direct-neon.js`) | `tree_likes`, `tree_social_counts`, `social_idempotency` | toggle, replay | one toggle per key, exact counts, nothing after revocation | `TreeLike` |
| Comments (`tree-comment-`, `memory-comment-direct-neon.js`) | `tree_comments`, `comments`, `social_rate_limits`, `social_idempotency` | create, replay | one comment per key, limits hold, replay returns the original | `CommentWrite` |
| Hub layouts (`hub-layout-direct-neon.js`, `modal_compute/hub_layouts.py`) | `tree_hub_layouts` | save a revision | no lost update, no orphan | `HubLayout` |
| Comment deletion | `comments.status` | soft delete | a removed comment is not recreated | action of `CommentWrite` |
| Memories (`memory-create-`, `memory-update-`, `memory-delete-direct-neon.js`) | `memories`: tree, parent, client key | create, reparent, delete | a retry converges; parents form a forest; nothing dangles | `MemoryForest` |
| Tree deletion (`tree-delete-direct-neon.js`) | `trees`, `memories` | delete | nothing outlives the tree | `MemoryForest`; action of `HubLayout` |
| Tree and memory update | visibility | update | social writers see a stable visibility | as environment of `TreeLike`, `CommentWrite` |
| Tree creation and fork (`tree-create-`, `tree-fork-direct-neon.js`) | `trees`, `memories`, `users` with the private storage entitlement | create public or private, fork | one fork per owner; a fork is its source; no private tree without entitlement | `TreeCreation` |
| Tree views, reactions | counters, deduplication rows | record, react | each visitor counts once a day | planned (`SocialCounters`) |
| Appreciation orders | saved playback orders | save | revision check | planned |
| Migration runner (`scripts/migration-runner-*`, `migration-postgres-*`) | ledger of applied migrations, pooled sessions, session lock | validate, lock, read, execute, append, release | the ledger is an exact history; nothing runs twice; reports are true | `MigrationRunner`, `MigrationDatabase` |
| Clean bootstrap (`scripts/migration-clean-bootstrap-orchestrator-core.cjs`) | the ledger's table and first row | create, commit, verify | a reported outcome is what was left behind | `CleanBootstrap` |
| Owner list (`js/my-trees*`, `js/auth/auth-cache.js`) | the list shown, two caches, generations, epochs, the busy flag | load, next page, retry, hide, restore, change of account | a late answer changes nothing; the busy flag is its latest request's | `OwnerList` |
| Scout quota (Durable Object) | a window record per key | admit | never more than the limit per window | not modelled: source only, bound to no route |
| Reliability canary, alert delivery | event state machines | fold events | alerts are neither lost nor doubled | not modelled |
| Frontend data layer | caches of the editor, viewer and settings | load, save, retry | no stale answer is applied | not modelled, but for `OwnerList` |
| Readers, routing, authentication, views, playback | none that is shared | | | not modelled |

How they interact: every writer runs its statements through the adapter and
derives its HTTP answer from how the adapter's promise settles; likes, comments
and reactions share `social_idempotency`; likes and views share a row of
`tree_social_counts`; the writers of social rows share the row lock of the tree
or memory with the owner's updates; Cloudflare and Modal share the database and
nothing else, so their advisory lock keys have to be computed alike.  A fork reads
what memory writers and tree updates change.  The migration runner and the
bootstrap share the ledger, the pool and one session lock with each other and
nothing with the request handlers.  The owner list talks to the API only, and
with the rest of the page through the private caches and the epoch of
`auth-cache.js`, which a 401 of any request clears.

## Modules

    CommitOutcome              what a caller may be told, given a fate
      WriteOutcome             the abstract contract of one write
      NeonTx                   the adapter, socket and session     ==> WriteOutcome
        NeonTx_proofs
    ToggleLedger               abstract: one toggle per key
    TreeLike                   concurrent like requests            ==> ToggleLedger
      TreeLike_proofs
    LayoutRegister             abstract: compare-and-set register
    HubLayout                  concurrent layout saves             ==> LayoutRegister
      HubLayout_proofs
    CommentBoard               abstract: comments that appear at one instant
    CommentWrite               concurrent comments, either route   ==> CommentBoard
      CommentWrite_proofs
    AtomicForest               abstract: moves and deletions at one instant
    MemoryForest               concurrent writers of memories       ==> AtomicForest
      MemoryForest_proofs
    TreeCreation               concurrent creations and forks of trees
      TreeCreation_proofs
    MigrationDatabase          ledger, sessions, session lock
      MigrationRunner          runCanonicalMigration
      CleanBootstrap           runBootstrap
        MigrationSystem        both together, with crashes and lost connections
          MigrationSystem_proofs
    OwnerList                  one visit of My Trees
      OwnerList_proofs
    MC*                        the modules TLC checks

(`==>` is a refinement, checked by TLC and proved.)

**NeonTx.**  `state` is `machine.state`, and `safeTransition` is the guard of
the code, with the same table.  `error` and `commitOutcome` are the locals
`pendingError` and `commitOutcome` of `runTransaction`.  The code has one
`await` after another, so there is one action for sending each statement and one
for each way its promise settles.  The other side is explicit: `req` and `rep`
are what travels on the socket, `server` is what became of the transaction.  The
socket may die at any moment, taking what travels with it or not; the server may
execute a COMMIT whose client is gone.  PostgreSQL is modelled as the code
relies on it, including that COMMIT of a failed transaction succeeds as a
command and rolls back.  A statement that fails makes `work()` fail: that is what
every handler's callback does (a callback that swallows the error is the mutant
that breaks the contract).

**TreeLike, CommentWrite, HubLayout.**  Each request is a process whose `pc`
names its next SQL statement.  A statement is atomic (PostgreSQL's READ
COMMITTED), what happens between two statements is not.  A transaction's writes
are kept in the request's own variables and applied by `CommitDurable`; until
then others see only their effect on locks.  `held` is the set of row and
advisory locks, and a statement that would wait in PostgreSQL is disabled while
another request holds the lock, which includes an `INSERT ... ON CONFLICT` that
meets an uncommitted row of the same key.  What the adapter does with a commit is
taken from `NeonTx`'s contract: `CommitDurable` and then `Acknowledge`,
`CommitLost`, or `AnswerUnknown` before either of them.  Any statement may fail
(`Fail`), and the locks are released when the server discards the transaction,
which may be later than the answer.  A request may be a retry of another: calls
are chosen freely in `Init`, so all combinations of actors, targets and keys
occur, and a retry may start while the original's COMMIT is still in flight.

In `HubLayout` a save served by Modal has no "unknown" answer: its
`conn.commit()` raises and the caller sees a plain 500 (`LostCommit`).  That is
why `AnswersAreTrue` reads nothing into a 500 of Modal.

In `CommentWrite` a call's target, the tree or a memory, selects the handler; the
two differ in the order of their statements, in the owner's rights, in the second
rate limit and in what they store as `result_id`.  Requests of an actor on one route
meet at the key and at the actor's slot, those on one memory at its slot too.  The
minute that a slot belongs to is computed before the INSERT is sent and once per
slot: `ReadMinute` stores it in `window`, and `TakeActorSlot` or `TakeTargetSlot`
waits for, and counts in, the slot of that minute although the clock may have gone
on.  So a request may be answered 429 while the present minute has room.  Removal of
a comment, changes of visibility and the minute (`Tick`) are steps of the environment.

**MemoryForest.**  The same kind of processes, over one table `rows` of trees and
memories.  `writes[r]` holds the rows a transaction wrote and has not committed:
it is what the transaction itself sees of them (`Seen`) and at the same time its
exclusive row locks; `shared[r]` are its FOR KEY SHARE locks, `graph` the
advisory lock of the parent graph.  An UPDATE or DELETE of several rows is not
atomic under READ COMMITTED: `Scan` reads the snapshot that fixes the candidate
rows, `Take` waits for the lockers of one of them and tests the WHERE clause
again on the version that is then current; candidates are taken in any order.
The schema does part of the work, and the model says so: the foreign keys of
`memories` (`scripts/migration-add-reactions-comments.sql:16-17`) are the steps
`CheckReferences`, the `orphan` sweep (ON DELETE SET NULL of `parent_id`) and the
`cascade` sweep (ON DELETE CASCADE of `tree_id`), each with a snapshot of its
own.  A deletion whose tree another one removed in the meantime still sweeps the
memories, finds no tree row, and is refused
(`tree-delete-direct-neon.js:150-154`).  Creation is modelled for a schema in which `client_key` and its unique
index exist, as the code demands before it uses them; no script in the
repository creates them.  The Modal writer takes the same advisory key and the
same steps (`modal_compute/memory_writes.py:265,512`), so a request stands for
either runtime.  Row locks that block each other end by `Fail`, as a deadlock
that PostgreSQL breaks does.

**TreeCreation.**  Creations and forks are requests of the kind above.  One tree is
the source of all forks; its memories are numbered in the order of (created_at,
id) and `parent` is any forest on them.  `SELECT ... FOR SHARE` of several rows is
not atomic: `Snapshot` fixes the candidates, `LockMemory` locks one at a time, in
order, and returns its newest version if that is still public.  The owner of the
source interferes at any point with whatever the locks let through.  Creation
reads the private storage entitlement FOR SHARE and then touches the same users
row, so two private creations of one owner can wait on each other; PostgreSQL
breaks that, and one of them takes `Fail`.  `InsertTree` stands for the INSERTs of
the tree and of its copies, which are one step because nobody else sees or locks
the new rows; it fails where the foreign key of `parent_id` would.

**MigrationDatabase, MigrationRunner, CleanBootstrap, MigrationSystem.**  A run is
the sequence of stages of `runCanonicalMigration`; `stage` names the next one, and
each of its statements may throw without or after its effect, its connection may
be lost (`Disconnect`), and its process may die (`Crash`).  A dead client's session
becomes an orphan that keeps the advisory lock until the server ends it (`Reap`);
the lock is reentrant within a session, as PostgreSQL's is, and sessions return
to the pool.  What is injected (`executeMigration`, the precondition and
postcondition checks) is modelled by the answers it may give; `Guarded` migrations
are those whose precondition tells that they are in effect.  Runs of different
deployments have different manifests.  `verifyCleanTarget` is taken to test for
the ledger's table.

**OwnerList.**  JavaScript runs to the next `await`, so an action is what happens
between two of them: the start of a load, the arrival of its answer, a click.
`requests` holds what is being waited for with the generation and the authority
(owner and epoch) captured when it began, as the closures of the code do.
Answers arrive in any order; the page may be hidden in the history cache and
restored, and another tab may sign the user out or in as somebody else.  `Recover` is
what a pageshow does that counts as a restore: that of a page the browser kept
(`Restore`), and the first one of a visit begun by going back or forward (`Arrive`).
`ui` tells the text about signing in (`"ERROR auth"`) from that of other errors: after
a 403 it stays only when the load had painted a cached list, because stopping the
loading manager of the loading section replaces it (`ListForbidden`).

Abstractions: text, positions and titles are model values; audit rows are left
out (nothing reads them); authentication, parsing and validation only decide
which calls reach a transaction; the clock matters only as the rate-limit minute.
Trees and memories exist throughout, except in `HubLayout`, `MemoryForest` and
`TreeCreation`.

## What is checked

| Run | Instance | Shows |
|---|---|---|
| `neon_tx` | up to 3 statements | `Agreement`, `AckedCommitIsReturned`, refinement of `WriteOutcome`; liveness: `CallEnds` |
| `tree_like` | 2 actors, 2 trees, 2 keys, 3 requests, 2 visibility changes, symmetric | `ImplementsLedger`, `CountMatchesLikes`, `NoToggleAfterRevocation`, `NoRequestIsStuck` |
| `hub_layout` | 3 saves, bases 0..2, three kinds of callers, a deletion | `ImplementsRegister`, `LinearHistory`, `AnswersAreTrue`, `NoOrphanLayouts`; liveness: `EverySaveEnds` |
| `comment_routes` | owner and visitor, 1 tree with 2 memories, 2 bodies, 2 keys, 2 requests, limits 1 and 1, 2 minutes, 2 visibility changes | `ImplementsBoard`, `OneCommentPerKey`, `MemoryOriginalIsReplayed`, `WithinRateLimits`, `NoRequestIsStuck` |
| `memory_forest` | every shape of 3 memories with 2 moves and 1 deletion; 2 trees with 2 creations, 2 client keys and 1 deletion | `ImplementsForest`, `Acyclic`, `ReferencesHold`, `KeyNamesOneMemory`, `NeverMissing`, `AnswersAreTrue` |
| `tree_creation` | 2 requests of 1 or 2 owners, 3 memories of which 2 may be copied, 2 changes by others, symmetric | `OneForkPerOwner`, `ForkIsTheSource`, `PrivateIsEntitled` |
| `migration` | 2 runs of 3 deployments, 1 bootstrap, 2 sessions, 3 migrations, 2 faults, symmetric | `LedgerIsPrefix`, `RecordedWasApplied`, `AppliedOnce`, `NoReapply`, `RunsTellTruth` |
| `owner_list` | 2 accounts of 2 pages, 5 generations, 3 epochs, symmetric | `LateAnswersIgnored`, `LoadingMoreIsOwned` |
| `comment_tree_replay`, `migration_bootstrap`, `owner_list_401`, `tree_fork_order` | smaller or equal instances of the same modules | violated: see Findings |

Each module with a type invariant has it checked in its run.

**Bounds.**  Where requests meet at several locks, three are enough for two rivals
and a witness: a rival holding a lock, one waiting, and a third arriving with the
same key on another target.  Two comment requests already meet at every lock they
can share, and with limits of 1 the second is at the limit while the first is
undecided (the code has 10 and 3).  Keys, trees and actors come in twos so that
they can agree or differ.  `MaxFlips = 2` allows a tree to be made private and
public again between two statements.  `MaxMinute = 1` puts a boundary between the
two slots of a request, and between the reading of a minute and the INSERT that counts
in it.  Three memories are the fewest in which two moves that are
each acyclic need a walk of more than one step to see that they are not acyclic
together, with a third request that removes a node of the walk.  `memory_forest`
takes the starting forests up to the names of the memories, the two moves in one
order and never the same move twice, of interchangeable memories the first as the
one that is deleted, and the deletion of the tree against the chain only.  Its two
creations have the same key or none, or one is under the memory of the other:
creations that share neither do not meet.  A parent of a creation may be a memory of another tree, a memory
that another request has not created yet, or one that is being deleted.
`MaxBase = 2` allows a chain of three layouts as well as three rivals.  Three
memories and a limit of two put a source at, below and above the limit;
`MCInit` leaves out public creations (they are private ones without the first
statement), starts with every memory a root, or under the one before it, or under
the one after it, and starts the requests of two owners, who share no lock they
wait for, from one source; `MaxEdits = 2` allows a change and its reversal between two
statements.  Three migrations give a manifest a gap and an edited entry; two
faults let a run die and the run that follows lose its connection.  Five
generations allow a load, a page, a hidden page, its restoration and a retry.
Symmetry is used in runs without liveness only; in `hub_layout` the saves are
ordered by their base, as renaming always permits.

`owner_list` and `owner_list_401` do not check deadlock: a visit may end, and its
generations and epochs are bounded.

**Fairness.**  `NeonTx` and `HubLayout` state it.  In `NeonTx` the event loop runs
the adapter, the server executes what reaches it and a dead socket is noticed;
that is what makes every call end (`CallEnds`), its session included.  In
`HubLayout` a request's next statement is executed when it is not blocked, and a
finished or failed transaction ends, which is what `CallEnds` says of the
adapter.  Weak fairness is on the disjunction, so nothing obliges one outcome
rather than another.  The socket, the owner, the clock and failing statements are
under no fairness.  For likes and comments the same question is asked without
fairness: `NoRequestIsStuck` says that no reachable state leaves every unfinished
request waiting.  It asks for a request that is `Ready`, which is the guard by which
the waiting statements of the model wait, so that it means "has a step that is not a
failure" without the ENABLED that the prover does not know; TLC found the two to
agree in every state of both runs.

Each property is tested against a mutant of the code (`PROJECT.json`,
"mutants"): the definitions in the modules marked *Mutant* are used for that
only and are reachable from no specification.

## Findings

*Retries of tree comments are answered 410.*  The tree comment writer stores
the uuid it drew for the reservation (`tree-comment-direct-neon.js:433`) as the
`result_id` of the completed row (line 554), while the comment is inserted under
another uuid (line 536).  A retry looks the comment up by `result_id` (lines
336-344), never finds it, and answers 410 "no longer available".  The comment at
lines 314-317 says that the original row is re-read by `result_id`; the Modal
writer (`modal_compute/tree_comments.py:197-212`) stores the comment's id.  The
contract test of the replay sets `result_id` to the comment's id by hand.  No
second comment is created (`OneCommentPerKey` holds), but a client that lost the
first answer is told that its comment is gone.

*A memory above its parent makes a tree unforkable.*  The copies of a fork are
inserted one by one in the order of (created_at, id)
(`tree-fork-direct-neon.js:573-576`), with their remapped `parent_id`, whose
foreign key is checked at once.  Reparenting may put a memory under a newer one,
and the copies of a fork all have the `NOW()` of one transaction, so that a fork of
a fork follows random ids.  Where a child comes first, the INSERT is rejected and
every attempt ends in a 500 (`ForksAreAccepted`, run `tree_fork_order`).  Line 568
says "Copy ALL bounded public Memories"; Modal inserts in the same order.

*A bootstrap that committed reports that it was blocked.*  `committed` is set
after COMMIT has been answered
(`migration-clean-bootstrap-orchestrator-core.cjs:509-511`).  If COMMIT takes
effect and its answer is lost, the result is BLOCKED_BEFORE_COMMIT with
`ledgerAppended` false, while table and row are there (`BlockedLeavesNothing`, run
`migration_bootstrap`).  The header promises that nothing remains.

*A 401 is not shown.*  The API client clears the private caches before it throws a
401, which advances the epoch, so the load that receives the error takes itself
for stale and returns (`my-trees-data.js:876`); lines 909-910 ask for the
authentication error "regardless of cache presence" (`AuthErrorIsShown`, run
`owner_list_401`).

## What is proved

All proofs are checked by TLAPS for every value of the constants.

`NeonTx_proofs` (any number of statements; assumption `MaxQueries \in Nat`):
`TypeCorrect`, `AgreementHolds`, `AckedCommitReturned` and `Refinement` (every
step of the adapter and the server is a step of `WriteOutcome` or leaves it
unchanged).  `Agreement` is not inductive: that an error means "not committed"
depends on what is still on the wire.  `IInv` adds that a COMMIT is on the wire
or took effect only after the adapter chose to commit (`CommitOnlyWhenChosen`),
that what is in flight is what is awaited, unless a dead socket has already
rejected it (`InFlight`), that a failed transaction is known to the adapter
before it can commit (`FailedIsNoticed`), that acknowledgements are true
(`AckIsTrue`), and that the locals agree with the state (`BookKeeping`).

`HubLayout_proofs` (any set of saves, any bases; assumption `MaxBase \in Nat`):
`TypeCorrect`, `HistoryIsLinear`, `AnswersTrue`, `NoOrphans` and `Refinement`
(any number of concurrent saves implement the compare-and-set register).  The
argument is the one the missing UNIQUE constraint would have made for us: the
advisory lock is held by one save at a time, from before the latest revision is
read until COMMIT (`LockProtects`), hence what was compared is still the latest
revision when the row becomes durable (`BaseStaysLatest`); a row that is not
committed yet pins the tree (`RowPinsTree`), so no deletion comes between.  The
proof of `LockProtects` uses `LockKey` being equal in both runtimes.

`TreeLike_proofs` (any actors, trees, keys and requests; assumption
`TreeLikeAssumption`: `MaxFlips \in Nat`, finitely many actors, since a count is a
cardinality): `LikeTypeCorrect`, `CountsAreExact`, `TogglesAreAuthorized`,
`LikesImplementLedger` and `NothingIsStuck`.  A toggle reads and writes in separate statements, so
`CountMatchesLikes` says nothing of a request between them.  `IInv` says that
what a transaction has read is still so when it commits, because it is locked from
then on: the tree is public (`AuthorizedStays`), the like is as it was found
(`LikedStays`, by the advisory lock of actor and tree, `Serialized`), the key is
unused (`ReservedStays`), and the count to be stored is one off the current one
(`CountedStays`).  Hence COMMIT toggles exactly what the ledger toggles at that
instant, and `Counted` gives the same count (`ToggleCounts`).  A replay answers a
row that does not change any more (`Completed`, `DurableStays`), so answers too map
to the ledger's; every other step is a stutter (`NextRefines`).

`NothingIsStuck` is about the order of locks, in a second invariant.  `HeldInTurn`:
whoever holds a lock is past the statement that takes it, and whoever has ended holds
none.  The order is the advisory lock, the key, the counts; only the statement that
makes sure there is a row of counts (`EnsureCounts`) locks the counts before the key,
and then only if it inserts the row.  `CountsMade` says why this closes no circle: a
request that is going to update the counts has either inserted their row, and holds
it, or found it committed, and then nobody else can have inserted it.  So whoever a
request waits for is further on than the request, up to a holder of the counts that
need not wait (`CountGoesOn`, `ReserveGoesOn`, `EnsureGoesOn`, `LockGoesOn`).

`CommentWrite_proofs` (any actors, targets, bodies, keys, requests and limits;
assumption `CommentWriteAssumption`: trees are not memories, the bounds are
numbers, and the requests finitely many): `CommentTypeCorrect`, `KeysAreUnique`,
`OriginalsAreReplayed`, `RateLimitsAreKept`, `CommentsAreAuthorized`,
`NothingIsStuck` and `CommentsImplementBoard`.  The
idempotency rows and the comments name each other (`RowsNameComments`,
`CommentsHaveRows`), and a request that reserved a key or took a slot keeps them
locked until COMMIT: the key has no row (`ReservedStays`), the slot, which is that of
the minute it read (`SlotChosen`), has room for one more (`SlotsStay`).  So the commit
that creates a comment is the first of its
key and charges each slot once.  `NamedStays` is about retries: what they are
going to answer is a comment of their own call.  `GoneStays` holds on the memory
route only, as the finding about tree comments says.

`CommentsImplementBoard` puts these together: nothing but `CommentBoard` can be
observed, in which a request first asks for the minutes it is to be charged to (`Ask`,
once per limit, `ReadMinuteRefines`), and its comment then appears in one step that
finds its author allowed, its key unused and room in both limits in those minutes,
counted over the comments on the board.  The step is the durable COMMIT, statements
after each of these was read (`CommitRefines`).
What callers are told is part of the refinement, refusals included, each at the
statement that decides it: `not_found` of a target that is then private, `key_reused`
of a key that a different comment has (`VerifyRefines`), `limited` when the comments
of the minute that the request read have used the limit up, whatever the clock says by
then, and never of a retry whose comment is there (`SlotRefines`), `gone` of a comment that was removed.  The `gone` of the tree route is
left out, because it is not true (see Findings); a 500 or 502 says nothing.
A minute is read once per limit (`ReadOnce`), and `FullIsUsedUp` relates the stored
counts to the comments on the board.
`NoCommentAfterRevocation`, which the run checked before, follows and is kept as a
theorem.  `NothingIsStuck` is simpler than for likes: both routes lock the key, the
actor's slot and the memory's slot in this order (`HeldInTurn`).

`MemoryForest_proofs` (any trees, memories, keys, requests and starting forests;
assumption `MemoryForestAssumption`: names are distinct, the starting forest is
one and binds a key once) rests on three invariants.  From `IInv`, about row
versions and locks, follow `TypeCorrect`, `OneMemoryPerKey` and
`NeverMissingHolds`.  That committed rows bind a key once says nothing about the
rows about to be committed, so `IInv` speaks of every version of a row, committed
or written (`KeyBelongsToOne`): an INSERT with a key waits until no version of
another memory has it, and no other statement changes a tree or a key
(`KeepsKey`).  A commit replaces rows by versions, and only rows that nobody else
wrote (`Exclusive`); the row of a creation is nobody's before it commits (`Born`).
The reread finds its row because a row under FOR KEY SHARE is there and is not
being deleted (`SharedStays`), hence what the pre-check found still has the key
(`FoundStays`).  The proof separates what a statement does to rows and locks
(`StepEffect`) from where it leads (`StepControl`).

From `FInv`, about the forest, follow `ReferencesAlwaysHold`, `NoCycle`,
`AnswersStayTrue`, `MovesAlwaysStand` and `ForestRefinement`.  It says what each kind of request knows
of the rows at each of its statements (`Creator`, `Mover`, `Deleter`):

- *References.*  The sweeps of a deletion read their snapshots one after another,
  while others commit.  Nothing is missed, for whoever commits a memory below a
  row holds that row FOR KEY SHARE, and the deletion has it locked exclusively:
  what still refers to a deleted row is among the rows left in `todo`
  (`Orphaned`, `LeftBehind`).  A commit therefore removes a row only with
  everything below it, or with the references to it.
- *No cycle.*  A cycle is a nonempty set of memories each of whose parents is in
  it.  The memories that an ancestor walk has climbed form a set that contains
  the parent of each of its members, apart from the one where the walk stands
  (`Climbed`), and it stays so (`ClimbedStays`), because only the holder of the
  graph lock gives a memory another parent, a deletion can only make it a root,
  and a creation adds a memory that no walk has met.  The memory that moves is outside that set.  So a set that the
  move would close into a cycle can be cut down to one that was closed before it
  (`AcyclicStep`).  No induction over the length of a path is needed.
- *Moves stand.*  A memory becomes a root by a sweep only where the version under
  the row's lock has a parent that goes (`Detached`): the recheck of the WHERE
  clause.
- *One instant.*  `ForestRefinement` says that nothing but `AtomicForest` can be
  observed: each request takes effect at one instant or never.  For an insertion, a
  move and a deletion the instant is the durable COMMIT, and what was read and
  checked statements before has to hold there: the climbed set still separates the
  memory from its new parent (`CommitMoves`); the versions a deletion has written are
  the whole effect on the forest as it is now, and nothing more (`CommitRemoves`,
  `CommitDrops`).  For a creation that found its key it is the reread
  (`RereadFinds`), since the row may be deleted before the COMMIT, which then writes
  nothing (`CommitOfFound`).  A third invariant, `AInv`, adds that a request acts for
  the owner of the tree, and erases only what it was asked to.  `MovesStand`, which
  the run checked before, follows and is kept as a theorem.

TLC found no state of the memory run outside `IInv`, `FInv` or `AInv`.

`TreeCreation_proofs` (any owners, requests, size, limit and number of changes;
assumption `TreeCreationAssumption`): `CreationTypeCorrect`, `ForksAreUnique`,
`ForksAreTheSource` and `PrivateTreesAreEntitled`.  What a request relies on at
COMMIT is locked from the statement that read it.  `Exclusive` says that two
forks of one owner are never both past the advisory lock, so a fork that found
none is still the first (`FreshIsFirst`); `SourceIsPublic`, `TakenStays` and
`EntitledStays` tie what was read to a share lock; `NothingSkipped` says that a
memory public throughout is either locked or still to be locked, which only the
size check before the INSERT makes complete.

`MigrationSystem_proofs` (any runs, bootstraps, sessions, manifests, number of
migrations and of faults; the assumptions of `MigrationDatabase` and
`MigrationRunner`): `LedgersArePrefixes`, `RecordsAreApplied`,
`GuardedAreAppliedOnce`, `ReportsAreTrue` and `RecordedAreNotReapplied`.  The
argument has three layers.  `LockInv`: pinned sessions are distinct and one of
them holds the lock, so one live client is between the grant and its last write.
`LedgerInv`: hence the ledger that a run read is the ledger as long as it can
write, and `BootIsFirst`.  `RunInv`: what a run may have executed, recorded and
reported follows from its stage.  `Unapplied` is what the precondition gives a
guarded migration.

`OwnerList_proofs` (any accounts, number of pages and bounds; assumption
`OwnerListAssumption`): `BusyButtonIsOwned`, `LateAnswersChangeNothing` and
`StillCurrentIsExact`.  `late` is what the properties mean by an answer that was
overtaken; the code compares a generation and an epoch.  `StalenessIsExact` says
that the two agree, which is inductive only with the numbers of all requests in
the past of the counters (`Numbered`), no request before the page knows who is
signed in (`NothingBeforeBoot`), and the owner recorded in localStorage
(`OwnerIsRecorded`): that is why a user who signs out and in again starts a new
epoch although the account is the same.

The proof of each invariant has one step per action; in `HubLayout_proofs` each
conjunct of `IInv` has a lemma of its own (`Next...`), in the other modules each
conjunct or layer (`...Step`), and the forest has one for each statement.

Only model-checked: liveness (`CallEnds`, `EverySaveEnds`), which rests on fairness and
so on ENABLED, is out of the prover's reach.  Every other property of a passing run is
a theorem.

## Plan

1. The write path (`NeonTx`, `TreeLike`, `CommentWrite`, `HubLayout`,
   `MemoryForest`, `TreeCreation`), migrations and the owner list: done, with the
   proofs above.
2. Proofs next: an abstract specification of what forks promise, which
   `TreeCreation` implements, and of what a deployment promises, for
   `MigrationSystem`; their invariants are theorems already.
3. Models next: views beside likes on the shared row of `tree_social_counts`;
   reactions, which repeat the idempotency of likes; appreciation orders, which
   repeat the register of hub layouts.  They would take the place of shallower
   properties rather than add runs.

## Not modelled

Most of the repository's lines are rendering, forms, styles of text, translations,
validation of strings, one-off scripts and their contract tests: code without
state that outlives a call or that two actors share.  There a model would repeat
the code.  In particular:

- Readers are single statements; routing and authentication are stateless per
  request.  The Modal backend is modelled where it shares rows or lock keys with
  the handlers (`HubLayout`, `MemoryForest`); its twins of the other writers,
  `fork_public_tree` among them, are not.
- Manifests, attestations and provenance are validated before a run starts, by
  pure functions of their input; a run's `input` says only what they concluded.
- The Scout quota is unreachable: its header says that no binding or route leads
  to it.  The reliability cores fold events given to them and keep no state.
- The adapter's pool `release()` that throws, statements of a dead client that are
  executed after its report, and malformed results of injected functions other
  than as throws.
- `OwnerList` leaves out the preload of tree details, creation from the page,
  sorting, filtering, diagnostics and writes of localStorage by other tabs.
- In `TreeCreation`, a users table with unknown required columns, a tree whose owner
  is not the one inserted and a new row that its own transaction cannot reread:
  refusals before anything is written, or branches that PostgreSQL never takes.
