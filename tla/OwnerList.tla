------------------------------ MODULE OwnerList ------------------------------
(***************************************************************************)
(* One visit of the My Trees page: the loads of the owner's list of trees, *)
(* the requests for its further pages, and the caches both keep.  Requests *)
(* are answered in any order, while the page is hidden in the browser's    *)
(* history cache and restored, and while the account changes: the user may *)
(* sign out, or in as somebody else, in another tab.  Late answers are     *)
(* told apart by the generation of the list and by the authority over the  *)
(* private caches, the pair of owner and epoch.                            *)
(*                                                                         *)
(* Source: src/js/my-trees/my-trees-data.js, src/js/my-trees.js,           *)
(* src/js/my-trees/my-trees-state.js, src/js/auth/auth-cache.js and the    *)
(* failure path of src/js/api/base-api-fetch.js.                           *)
(***************************************************************************)
EXTENDS Integers, FiniteSets

CONSTANTS
  Users,
  Pages,          \* pages of trees that each account has
  MaxGenerations, \* bound: loads and times the page is hidden
  MaxEpochs       \* bound: times the private caches are cleared

ASSUME OwnerListAssumption ==
  /\ "none" \notin Users
  /\ Pages \in Nat \ {0}
  /\ {MaxGenerations, MaxEpochs} \subseteq Nat \ {0}

VARIABLES
  page,        \* "auth-pending", "shown" or "hidden"
  arriving,    \* the visit began by going back or forward; its pageshow is yet to come
  ui,          \* the section of the page that is visible
  owner,       \* privateOwnerUid: the account the page has been told of
  epoch,       \* privateOwnerEpoch
  tag,         \* the owner recorded in localStorage
  persist,     \* the list in localStorage with the uid it is scoped to
  memory,      \* the list in LoveBudCache; {} is a miss
  list,        \* lastTreesData
  cursor,      \* treeNextCursor: the number of the next page, 0 when there is none
  loadingMore, \* isLoadingMoreTrees
  generation,  \* ownerListGeneration
  active,      \* activeOwnerListLoad: its generation and reason
  more,        \* activeLoadMoreGeneration
  inFlight,    \* activeLoadMoreInFlight
  requests     \* what is being waited for

shownVars == <<ui, list, cursor>>
cacheVars == <<tag, persist, memory>>
authVars == <<owner, epoch, cacheVars>>
moreVars == <<loadingMore, more, inFlight>>
vars == <<page, arriving, ui, authVars, list, cursor, moreVars, generation, active, requests>>

NoUser == "none"

\* The trees on a page of an account are one element of a list.
Lists == SUBSET (Users \X (1..Pages))
FirstPages(u, n) == {u} \X (1..n)

NoRecord == [uid |-> NoUser, data |-> {}]
NoLoad == [generation |-> 0, reason |-> "none"]

\* requests holds records of a kind, "list", "more" (a further page) or "settlement"
\* (the list just loaded), with the generation, more, owner's uid, epoch, cached list,
\* preserve and cursor that their closures have captured.  late is not in the code:
\* the page was hidden, the account changed, or the list was loaded anew meanwhile.

\* Earlier visits may have left lists in both caches.
Init ==
  /\ page = "auth-pending" /\ ui = "none"
  /\ arriving \in BOOLEAN
  /\ owner = NoUser /\ epoch = 0
  /\ tag \in Users \cup {NoUser}
  /\ persist \in {NoRecord} \cup {[uid |-> tag, data |-> FirstPages(tag, n)] : n \in 1..Pages}
  /\ memory \in {{}, persist.data}
  /\ tag = NoUser => persist = NoRecord
  /\ list = {} /\ cursor = 0
  /\ loadingMore = FALSE /\ more = 0 /\ inFlight = FALSE
  /\ generation = 0 /\ active = NoLoad
  /\ requests = {}

-----------------------------------------------------------------------------
Outdated(qs) == {[q EXCEPT !.late = TRUE] : q \in qs}

\* Mutant: the private caches' epoch is not compared.
StillCurrentGeneration(q) == q.generation = generation

\* stillCurrent: of the newest generation and under the present authority.
StillCurrent(q) ==
  /\ q.generation = generation
  /\ q.uid # NoUser /\ q.uid = owner /\ q.epoch = epoch

\* clearPrivateCaches, called for account u: nobody on a sign-out.
ClearPrivateCaches(u) ==
  /\ epoch < MaxEpochs
  /\ epoch' = epoch + 1
  /\ owner' = u
  /\ tag' = u
  /\ persist' = NoRecord
  /\ memory' = {}

\* syncConfirmedPrivateOwner: the account is another than the known one, which the
\* page has been told of or finds recorded.
SyncOwner(u) ==
  IF (IF owner # NoUser THEN owner ELSE tag) # u
  THEN ClearPrivateCaches(u)
  ELSE owner' = u /\ tag' = u /\ UNCHANGED <<epoch, persist, memory>>

-----------------------------------------------------------------------------
(* loadTrees.                                                              *)

\* The list a load finds: LoveBudCache's, or else the one in localStorage when it is
\* this account's.  Either may have expired, in LoveBudCache no sooner.
Found(m, p, u) == {{}} \cup (IF m # {} THEN {m} ELSE IF p.uid = u THEN {p.data} ELSE {})

\* A new load begins for account u at epoch e, with the caches m and p as they are
\* by then, and paints what it finds.  Without an owner it ends at once.
StartLoad(u, e, m, p, reason, preserve) ==
  /\ generation < MaxGenerations
  /\ generation' = generation + 1
  /\ IF u = NoUser
     THEN /\ active' = NoLoad
          /\ requests' = Outdated(requests)
          /\ memory' = m /\ persist' = p
          /\ UNCHANGED <<ui, list>>
     ELSE \E cached \in Found(m, p, u) :
          /\ active' = [generation |-> generation + 1, reason |-> reason]
          /\ memory' = cached
          /\ persist' = IF cached = {} THEN NoRecord ELSE p
          /\ IF cached # {} THEN ui' = "LOADED" /\ list' = cached
             ELSE /\ ui' = IF preserve /\ ui = "LOADED" THEN ui ELSE "LOADING"
                  /\ UNCHANGED list
          /\ requests' = Outdated(requests) \cup
               {[kind |-> "list", generation |-> generation + 1, more |-> 0, uid |-> u,
                 epoch |-> e, cached |-> cached, preserve |-> preserve, cursor |-> 0,
                 late |-> FALSE]}

\* A load joins the one that is under way.
Coalesce == active # NoLoad

\* whenReady tells the page who is signed in; nobody is sent to the login page.
Boot(u) ==
  /\ page = "auth-pending"
  /\ page' = "shown"
  /\ owner' = u /\ tag' = u
  /\ LET other == tag # u IN
       /\ epoch' = IF other THEN 1 ELSE 0
       /\ StartLoad(u, IF other THEN 1 ELSE 0, IF other THEN {} ELSE memory,
                    IF other THEN NoRecord ELSE persist, "none", FALSE)
  /\ UNCHANGED <<arriving, cursor, moreVars>>

\* The retry button, on the error section.
Retry ==
  /\ page = "shown" /\ ui \in {"ERROR", "ERROR auth"}
  /\ ~Coalesce
  /\ StartLoad(owner, epoch, memory, persist, "none", FALSE)
  /\ UNCHANGED <<page, arriving, owner, epoch, tag, cursor, moreVars>>

\* A tree was renamed, deleted or its visibility changed: clearPersistentTreesCache
\* and reloadTrees.
ReloadTrees ==
  /\ page = "shown" /\ ui = "LOADED"
  /\ IF Coalesce
     THEN persist' = NoRecord /\ UNCHANGED <<memory, ui, list, generation, active, requests>>
     ELSE StartLoad(owner, epoch, memory, NoRecord, "none", FALSE)
  /\ UNCHANGED <<page, arriving, owner, epoch, tag, cursor, moreVars>>

\* setLastTreesData, setTreeNextCursor and both caches; the record in localStorage is
\* scoped to the owner of now.
Store(trees, next) ==
  /\ list' = trees /\ memory' = trees
  /\ cursor' = next
  /\ persist' = [uid |-> owner, data |-> trees]
  /\ ui' = "LOADED"

NextCursor(n) == IF n < Pages THEN n + 1 ELSE 0

\* `finally`: only the load of the active generation is cleared.
Release(q) == active' = IF active.generation = q.generation THEN NoLoad ELSE active

Waiting(kind) == {q \in requests : q.kind = kind}

\* The first page of the list.
ListLoaded(q) ==
  /\ page = "shown" /\ q \in Waiting("list")
  /\ IF StillCurrent(q)
     THEN /\ Store(FirstPages(q.uid, 1), NextCursor(1))
          /\ requests' = (requests \ {q}) \cup {[q EXCEPT !.kind = "settlement"]}
          /\ UNCHANGED active
     ELSE /\ requests' = requests \ {q}
          /\ Release(q)
          /\ UNCHANGED <<shownVars, memory, persist>>
  /\ UNCHANGED <<page, arriving, owner, epoch, tag, moreVars, generation>>

\* settleThenAcknowledge has watched the page for a few frames.
Settle(q) ==
  /\ page = "shown" /\ q \in Waiting("settlement")
  /\ requests' = requests \ {q}
  /\ Release(q)
  /\ UNCHANGED <<page, arriving, shownVars, authVars, moreVars, generation>>

\* No answer, one that is not understood, or a server's error: the cached list, or
\* the one to be preserved, stays.
ListFailed(q) ==
  /\ page = "shown" /\ q \in Waiting("list")
  /\ requests' = requests \ {q}
  /\ Release(q)
  /\ IF ~StillCurrent(q) THEN UNCHANGED <<ui, list>>
     ELSE IF q.cached # {} THEN ui' = "LOADED" /\ list' = q.cached
     ELSE /\ ui' = IF q.preserve /\ ui = "LOADED" THEN ui ELSE "ERROR"
          /\ UNCHANGED list
  /\ UNCHANGED <<page, arriving, cursor, authVars, moreVars, generation>>

\* 403.  When the loading section has come before, ui is "LOADING" or, after TimeOut,
\* "ERROR": setState stops the loading manager, whose callback then replaces the text
\* about signing in by that of a network error.
ListForbidden(q) ==
  /\ page = "shown" /\ q \in Waiting("list")
  /\ requests' = requests \ {q}
  /\ Release(q)
  /\ ui' = IF ~StillCurrent(q) THEN ui
           ELSE IF ui = "LOADED" THEN "ERROR auth" ELSE "ERROR"
  /\ UNCHANGED <<page, arriving, list, cursor, authVars, moreVars, generation>>

\* 401: apiFetch calls clearConfirmedAuthState when a session is confirmed, before the
\* load handles the error, as that of a stale request.
Unauthorized(q) ==
  /\ page = "shown" /\ q \in requests
  /\ IF owner # NoUser
     THEN /\ ClearPrivateCaches(NoUser)
          /\ requests' = Outdated(requests \ {q})
     ELSE /\ requests' = requests \ {q}
          /\ UNCHANGED authVars
  /\ UNCHANGED <<page, arriving, shownVars, generation>>

ListUnauthorized(q) ==
  /\ q.kind = "list"
  /\ Unauthorized(q)
  /\ Release(q)
  /\ UNCHANGED moreVars

-----------------------------------------------------------------------------
(* loadMoreTrees.                                                          *)

LoadMore ==
  /\ page = "shown" /\ ui = "LOADED"
  /\ cursor # 0 /\ ~inFlight /\ active = NoLoad
  /\ more < MaxGenerations
  /\ inFlight' = TRUE /\ loadingMore' = TRUE
  /\ more' = more + 1
  /\ requests' = requests \cup
       {[kind |-> "more", generation |-> generation, more |-> more + 1, uid |-> owner,
         epoch |-> epoch, cached |-> {}, preserve |-> FALSE, cursor |-> cursor,
         late |-> FALSE]}
  /\ UNCHANGED <<page, arriving, shownVars, authVars, generation, active>>

\* Mutant: `finally` clears the state module's flag whoever owns it.
FinishMoreAlways(q) ==
  /\ inFlight' = IF q.more = more THEN FALSE ELSE inFlight
  /\ loadingMore' = FALSE
  /\ UNCHANGED more

\* `finally`, with the setter that installTreeContinuationBridge has replaced.
FinishMore(q) ==
  /\ inFlight' = IF q.more = more THEN FALSE ELSE inFlight
  /\ loadingMore' = (loadingMore /\ inFlight')
  /\ UNCHANGED more

MoreLoaded(q) ==
  /\ page = "shown" /\ q \in Waiting("more")
  /\ requests' = requests \ {q}
  /\ IF StillCurrent(q)
     THEN Store(list \cup {<<q.uid, q.cursor>>}, NextCursor(q.cursor))
     ELSE UNCHANGED <<shownVars, memory, persist>>
  /\ FinishMore(q)
  /\ UNCHANGED <<page, arriving, owner, epoch, tag, generation, active>>

MoreFailed(q) ==
  /\ page = "shown" /\ q \in Waiting("more")
  /\ requests' = requests \ {q}
  /\ FinishMore(q)
  /\ UNCHANGED <<page, arriving, shownVars, authVars, generation, active>>

MoreUnauthorized(q) ==
  /\ q.kind = "more"
  /\ Unauthorized(q)
  /\ FinishMore(q)
  /\ UNCHANGED active

-----------------------------------------------------------------------------
(* The page and the account.                                               *)

\* pagehide: markOwnerListEpochStale, and the loading section is disposed of.
Hide ==
  /\ page = "shown"
  /\ generation < MaxGenerations
  /\ page' = "hidden" /\ arriving' = FALSE
  /\ generation' = generation + 1
  /\ more' = more + 1
  /\ inFlight' = FALSE /\ loadingMore' = FALSE
  /\ cursor' = 0
  /\ ui' = IF ui = "LOADING" THEN "none" ELSE ui
  /\ requests' = Outdated(requests)
  /\ UNCHANGED <<list, authVars, active>>

\* maybeRecoverOwnerListFromHistory: a load of before is superseded, one of an
\* earlier recovery is joined.
Recover ==
  IF \/ owner = NoUser
     \/ ui \notin {"none", "LOADING"}
     \/ active.reason = "history_recovery" /\ active.generation = generation
  THEN UNCHANGED <<ui, list, persist, memory, generation, active, requests>>
  ELSE StartLoad(owner, epoch, memory, persist, "history_recovery", TRUE)

\* The pageshow that ends the loading of the page counts as a restore after a navigation
\* of type back_forward.  One that comes before Boot does nothing: arriving is FALSE then.
Arrive ==
  /\ page = "shown" /\ arriving
  /\ arriving' = FALSE
  /\ Recover
  /\ UNCHANGED <<page, owner, epoch, tag, cursor, moreVars>>

\* pageshow of a page that the browser kept.
Restore ==
  /\ page = "hidden"
  /\ page' = "shown"
  /\ Recover
  /\ UNCHANGED <<arriving, owner, epoch, tag, cursor, moreVars>>

\* The loading manager gives up after 15 seconds; the load goes on.
TimeOut ==
  /\ page = "shown" /\ ui = "LOADING"
  /\ ui' = "ERROR"
  /\ UNCHANGED <<page, arriving, list, cursor, authVars, moreVars, generation, active,
                 requests>>

\* onAuthStateChanged: clearAuthDependentCaches, or persistConfirmedAuthSession.
AuthStateChanged(u) ==
  /\ page = "shown"
  /\ u # owner
  /\ IF u = NoUser THEN ClearPrivateCaches(NoUser) ELSE SyncOwner(u)
  /\ requests' = Outdated(requests)
  /\ UNCHANGED <<page, arriving, shownVars, moreVars, generation, active>>

Next ==
  \/ \E u \in Users : Boot(u)
  \/ Retry \/ ReloadTrees \/ LoadMore
  \/ \E q \in requests :
       \/ ListLoaded(q) \/ ListFailed(q) \/ ListForbidden(q) \/ ListUnauthorized(q)
       \/ Settle(q)
       \/ MoreLoaded(q) \/ MoreFailed(q) \/ MoreUnauthorized(q)
  \/ Hide \/ Arrive \/ Restore \/ TimeOut
  \/ \E u \in Users \cup {NoUser} : AuthStateChanged(u)

Spec == Init /\ [][Next]_vars

-----------------------------------------------------------------------------
(* Properties.                                                             *)

\* q is waited for no longer, if perhaps for the page to settle.
Answered(q) ==
  \A r \in requests' : <<r.kind, r.generation, r.more>> # <<q.kind, q.generation, q.more>>

\* An answer that was waited for while the page was hidden, the account changed or
\* the list was loaded anew neither shows nor caches anything; it may at most clear
\* the caches (stillCurrent in both loadTrees and loadMoreTrees).
LateAnswersIgnored ==
  [][\A q \in requests : q.late /\ Answered(q) =>
       /\ UNCHANGED shownVars
       /\ memory' \in {memory, {}}
       /\ persist' \in {persist, NoRecord}]_vars

\* The button for more pages is busy exactly while its latest request is waited for:
\* "A stale prior-account finalizer must never clear the loading state of a newer
\* request" (src/js/my-trees/my-trees-render.js:284), and a page that was hidden is
\* not left busy.
LoadingMoreIsOwned ==
  /\ loadingMore = inFlight
  /\ inFlight <=> \E q \in Waiting("more") : q.more = more

\* "auth errors (401/403): do not silently keep stale cache.  Show auth error state
\* regardless of cache presence" (src/js/my-trees/my-trees-data.js:909): a 401 to the
\* load of the list that is shown is shown.
AuthErrorIsShown ==
  [][\A q \in requests : ~q.late /\ ListUnauthorized(q) => ui' = "ERROR auth"]_vars
=============================================================================
