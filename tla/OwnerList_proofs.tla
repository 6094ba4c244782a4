-------------------------- MODULE OwnerList_proofs --------------------------
(***************************************************************************)
(* Proofs about OwnerList, for any accounts, pages and bounds: an answer   *)
(* that comes too late changes nothing, and the button for more pages is   *)
(* busy exactly while its latest request is waited for.  The argument: a   *)
(* generation or an epoch that has passed never comes back, so the pair    *)
(* that a request captured tells whether it has been overtaken.            *)
(***************************************************************************)
EXTENDS OwnerList, TLAPS

-----------------------------------------------------------------------------
(* The inductive invariant.                                                *)

Loads ==
  [kind : {"list", "more", "settlement"}, generation : Nat, more : Nat,
   uid : Users \cup {NoUser}, epoch : Nat, cached : Lists, preserve : BOOLEAN,
   cursor : 0..Pages, late : BOOLEAN]

Records == [uid : Users \cup {NoUser}, data : Lists]

TypeOK ==
  /\ page \in {"auth-pending", "shown", "hidden"} /\ arriving \in BOOLEAN
  /\ ui \in {"none", "LOADING", "LOADED", "ERROR", "ERROR auth"}
  /\ owner \in Users \cup {NoUser} /\ tag \in Users \cup {NoUser}
  /\ epoch \in Nat /\ generation \in Nat /\ more \in Nat
  /\ persist \in Records
  /\ memory \in Lists /\ list \in Lists
  /\ cursor \in 0..Pages
  /\ loadingMore \in BOOLEAN /\ inFlight \in BOOLEAN
  /\ active \in [generation : Nat, reason : {"none", "history_recovery"}]
  /\ requests \subseteq Loads

\* Nothing is asked for before the page knows who is signed in.
NothingBeforeBoot == page = "auth-pending" => requests = {} /\ epoch = 0

\* From then on localStorage and the page agree on the owner; so the account that
\* follows a sign-out starts a new epoch, even when it is the same one.
OwnerIsRecorded == page # "auth-pending" => tag = owner

\* What a request captured is not of the future; a request for a further page has a
\* page to ask for and a number that no other one has.
Numbered ==
  /\ \A q \in requests : q.generation <= generation /\ q.epoch <= epoch
  /\ \A q \in Waiting("more") : q.more <= more /\ q.cursor # 0
  /\ \A p, q \in Waiting("more") : p.more = q.more => p = q

\* The pair of generation and epoch that a request captured is the present one as long
\* as nothing has overtaken it, and never again: StillCurrent turns away exactly the
\* late answers, and those to nobody.
StalenessIsExact ==
  \A q \in requests :
    /\ q.late => q.generation < generation \/ q.epoch < epoch
    /\ ~q.late => q.generation = generation /\ q.epoch = epoch /\ q.uid = owner

IInv ==
  /\ TypeOK
  /\ NothingBeforeBoot
  /\ OwnerIsRecorded
  /\ Numbered
  /\ StalenessIsExact
  /\ LoadingMoreIsOwned
-----------------------------------------------------------------------------
(* What a step does to the requests.                                       *)

USE OwnerListAssumption DEF NoUser

\* A request that is overtaken stays what it is, but for being late.
LEMMA OutdatedLoads ==
  ASSUME NEW qs \in SUBSET Loads
  PROVE  /\ Outdated(qs) \in SUBSET Loads
         /\ \A q \in Outdated(qs) :
              /\ q.late = TRUE
              /\ \E p \in qs : q = [p EXCEPT !.late = TRUE]
         /\ \A p \in qs : [p EXCEPT !.late = TRUE] \in Outdated(qs)
  BY DEF Outdated, Loads

\* The numbers of the requests for further pages among qs.
MoreNumbers(qs) == {q.more : q \in {p \in qs : p.kind = "more"}}

\* Being overtaken does not renumber a request.
LEMMA OutdatedNumbers ==
  ASSUME NEW qs \in SUBSET Loads
  PROVE  MoreNumbers(Outdated(qs)) = MoreNumbers(qs)
  <1>1. ASSUME NEW n \in MoreNumbers(Outdated(qs))
        PROVE  n \in MoreNumbers(qs)
    <2>1. PICK q \in Outdated(qs) : q.kind = "more" /\ q.more = n
      BY <1>1 DEF MoreNumbers
    <2>2. PICK p \in qs : q = [p EXCEPT !.late = TRUE]
      BY OutdatedLoads
    <2>3. p.kind = "more" /\ p.more = n
      BY <2>1, <2>2 DEF Loads
    <2>4. QED
      BY <2>3 DEF MoreNumbers
  <1>2. ASSUME NEW n \in MoreNumbers(qs)
        PROVE  n \in MoreNumbers(Outdated(qs))
    <2>1. PICK p \in qs : p.kind = "more" /\ p.more = n
      BY <1>2 DEF MoreNumbers
    <2>2. [p EXCEPT !.late = TRUE] \in Outdated(qs)
      BY OutdatedLoads
    <2>3. /\ [p EXCEPT !.late = TRUE].kind = "more"
          /\ [p EXCEPT !.late = TRUE].more = n
      BY <2>1 DEF Loads
    <2>4. QED
      BY <2>2, <2>3 DEF MoreNumbers
  <1>3. QED
    BY <1>1, <1>2

\* The empty record and the empty load have the types of full ones.
LEMMA NothingTypes ==
  /\ NoRecord \in Records
  /\ NoLoad \in [generation : Nat, reason : {"none", "history_recovery"}]
  <1>1. NoRecord.uid \in Users \cup {NoUser} /\ NoRecord.data \in Lists
    BY DEF NoRecord, Lists
  <1>2. QED
    BY <1>1 DEF NoRecord, Records, NoLoad

\* The counters count, apart from whatever else has a type.
LEMMA NumberTypes ==
  ASSUME TypeOK
  PROVE  /\ generation \in Nat /\ epoch \in Nat /\ more \in Nat
         /\ requests \in SUBSET Loads
  BY DEF TypeOK

\* A new load, which is told apart by its generation, overtakes everything else.
NewLoad(q, u, e) ==
  /\ q \in Loads
  /\ q.kind = "list" /\ q.late = FALSE
  /\ q.generation = generation + 1 /\ q.epoch = e /\ q.uid = u

LoadBegins(u, e) ==
  /\ generation' = generation + 1
  /\ \/ requests' = Outdated(requests)
     \/ \E q : NewLoad(q, u, e) /\ requests' = Outdated(requests) \cup {q}
  /\ ui' \in {"none", "LOADING", "LOADED", "ERROR", "ERROR auth"}
  /\ persist' \in Records /\ memory' \in Lists /\ list' \in Lists
  /\ active' \in [generation : Nat, reason : {"none", "history_recovery"}]

\* Whatever load starts has this effect on what the invariant speaks of.
LEMMA StartLoadEffect ==
  ASSUME TypeOK, NEW u \in Users \cup {NoUser}, NEW e \in Nat, NEW m \in Lists,
         NEW p \in Records, NEW reason \in {"none", "history_recovery"},
         NEW preserve \in BOOLEAN, StartLoad(u, e, m, p, reason, preserve)
  PROVE  LoadBegins(u, e)
  <1>1. CASE u = NoUser
    <2>1. generation' = generation + 1 /\ requests' = Outdated(requests)
      BY <1>1 DEF StartLoad
    <2>2. /\ ui' \in {"none", "LOADING", "LOADED", "ERROR", "ERROR auth"}
          /\ persist' \in Records /\ memory' \in Lists /\ list' \in Lists
      BY <1>1 DEF StartLoad, TypeOK
    <2>3. active' \in [generation : Nat, reason : {"none", "history_recovery"}]
      BY <1>1, NothingTypes DEF StartLoad
    <2>4. QED
      BY <2>1, <2>2, <2>3 DEF LoadBegins
  <1>2. CASE u # NoUser
    <2>1. PICK cached \in Found(m, p, u) :
            /\ active' = [generation |-> generation + 1, reason |-> reason]
            /\ memory' = cached
            /\ persist' = IF cached = {} THEN NoRecord ELSE p
            /\ IF cached # {} THEN ui' = "LOADED" /\ list' = cached
               ELSE /\ ui' = IF preserve /\ ui = "LOADED" THEN ui ELSE "LOADING"
                    /\ UNCHANGED list
            /\ requests' = Outdated(requests) \cup
                 {[kind |-> "list", generation |-> generation + 1, more |-> 0, uid |-> u,
                   epoch |-> e, cached |-> cached, preserve |-> preserve, cursor |-> 0,
                   late |-> FALSE]}
      BY <1>2 DEF StartLoad
    <2>2. cached \in Lists
      BY DEF Found, Records, Lists
    <2>3. DEFINE q == [kind |-> "list", generation |-> generation + 1, more |-> 0,
                      uid |-> u, epoch |-> e, cached |-> cached, preserve |-> preserve,
                      cursor |-> 0, late |-> FALSE]
    <2>4. NewLoad(q, u, e) /\ requests' = Outdated(requests) \cup {q}
      <3>1. q \in Loads
        <4>1. generation + 1 \in Nat /\ 0 \in 0..Pages
          BY NumberTypes
        <4>2. QED
          BY <2>2, <4>1 DEF Loads
      <3>2. QED
        BY <2>1, <3>1 DEF NewLoad
    <2>5. /\ ui' \in {"none", "LOADING", "LOADED", "ERROR", "ERROR auth"}
          /\ persist' \in Records /\ memory' \in Lists /\ list' \in Lists
      BY <2>1, <2>2, NothingTypes DEF TypeOK
    <2>6. active' \in [generation : Nat, reason : {"none", "history_recovery"}]
      BY <2>1, NumberTypes
    <2>7. generation' = generation + 1
      BY DEF StartLoad
    <2>8. QED
      BY <2>4, <2>5, <2>6, <2>7 DEF LoadBegins
  <1>3. QED
    BY <1>1, <1>2

\* What any load finds when it starts is what the page holds by then.
LEMMA ReloadEffect ==
  ASSUME TypeOK, NEW p \in {persist, NoRecord},
         NEW reason \in {"none", "history_recovery"}, NEW preserve \in BOOLEAN,
         StartLoad(owner, epoch, memory, p, reason, preserve)
  PROVE  LoadBegins(owner, epoch)
  <1>1. owner \in Users \cup {NoUser} /\ epoch \in Nat /\ memory \in Lists
    BY DEF TypeOK
  <1>2. p \in Records
    BY NothingTypes DEF TypeOK
  <1>3. QED
    BY <1>1, <1>2, StartLoadEffect

\* Once the page has been told of an owner, another account always starts a new epoch.
LEMMA OtherAccountClears ==
  ASSUME IInv, NEW u \in Users \cup {NoUser}, AuthStateChanged(u)
  PROVE  ClearPrivateCaches(u)
  BY DEF AuthStateChanged, SyncOwner, IInv, OwnerIsRecorded, NoUser

-----------------------------------------------------------------------------
(* The four ways in which a step concerns the requests.                    *)

authority == <<owner, tag, epoch, generation>>

Ignores == UNCHANGED requests /\ UNCHANGED authority

\* One of the requests is answered; the list may still have to settle.
Answers(q) ==
  /\ UNCHANGED authority
  /\ \/ requests' = requests \ {q}
     \/ /\ q.kind = "list"
        /\ requests' = (requests \ {q}) \cup {[q EXCEPT !.kind = "settlement"]}

\* The generation or the epoch passes; of the requests, those of S remain.
Passes ==
  /\ generation' \in Nat /\ epoch' \in Nat
  /\ generation' >= generation /\ epoch' >= epoch
  /\ generation' > generation \/ epoch' > epoch

Present(q) ==
  /\ q \in Loads
  /\ q.kind = "list" /\ q.late = FALSE
  /\ q.generation = generation' /\ q.epoch = epoch' /\ q.uid = owner'

Overtakes(S) ==
  /\ Passes
  /\ \/ requests' = Outdated(S)
     \/ \E q : Present(q) /\ requests' = Outdated(S) \cup {q}

\* A load that starts under the authority of now overtakes all requests.
LEMMA LoadOvertakes ==
  ASSUME TypeOK, UNCHANGED <<owner, epoch>>, LoadBegins(owner, epoch)
  PROVE  Overtakes(requests)
  <1>1. Passes
    <2>1. generation' = generation + 1
      BY DEF LoadBegins
    <2>2. QED
      BY <2>1, NumberTypes DEF Passes
  <1>2. ASSUME NEW q, NewLoad(q, owner, epoch)
        PROVE  Present(q)
    BY <1>2 DEF LoadBegins, NewLoad, Present
  <1>3. QED
    BY <1>1, <1>2 DEF LoadBegins, Overtakes

\* The first load of a visit begins with the epoch that the account gives it.
LEMMA BootOvertakes ==
  ASSUME IInv, NEW u \in Users, Boot(u)
  PROVE  /\ Overtakes(requests)
         /\ ui' \in {"none", "LOADING", "LOADED", "ERROR", "ERROR auth"}
         /\ persist' \in Records /\ memory' \in Lists /\ list' \in Lists
         /\ active' \in [generation : Nat, reason : {"none", "history_recovery"}]
  <1>1. TypeOK /\ epoch = 0
    BY DEF IInv, NothingBeforeBoot, Boot
  <1>2. PICK e \in {0, 1}, m \in {{}, memory}, p \in {NoRecord, persist} :
          epoch' = e /\ StartLoad(u, e, m, p, "none", FALSE)
    BY DEF Boot
  <1>3. m \in Lists /\ p \in Records
    BY <1>1, NothingTypes DEF TypeOK, Lists
  <1>4. LoadBegins(u, e)
    BY <1>1, <1>2, <1>3, StartLoadEffect
  <1>5. owner' = u
    BY DEF Boot
  <1>6. Overtakes(requests)
    <2>1. Passes
      <3>1. generation' = generation + 1
        BY <1>4 DEF LoadBegins
      <3>2. QED
        BY <1>1, <1>2, <3>1, NumberTypes DEF Passes
    <2>2. ASSUME NEW q, NewLoad(q, u, e)
          PROVE  Present(q)
      BY <1>2, <1>4, <1>5, <2>2 DEF LoadBegins, NewLoad, Present
    <2>3. QED
      BY <1>4, <2>1, <2>2 DEF LoadBegins, Overtakes
  <1>7. QED
    BY <1>4, <1>6 DEF LoadBegins

\* A change of the owner is a new epoch.
LEMMA ClearPasses ==
  ASSUME TypeOK, NEW u, ClearPrivateCaches(u), UNCHANGED generation
  PROVE  Passes
  BY NumberTypes DEF ClearPrivateCaches, Passes

\* A 401 is an answer, or a sign-out, which overtakes the other requests.
LEMMA UnauthorizedCases ==
  ASSUME TypeOK, NEW q \in requests, Unauthorized(q)
  PROVE  Answers(q) \/ Overtakes(requests \ {q})
  <1>1. CASE owner # NoUser
    <2>1. Passes
      BY <1>1, ClearPasses DEF Unauthorized
    <2>2. QED
      BY <1>1, <2>1 DEF Unauthorized, Overtakes
  <1>2. CASE owner = NoUser
    BY <1>2 DEF Unauthorized, Answers, authority, authVars, cacheVars
  <1>3. QED
    BY <1>1, <1>2

\* There is no fifth way.
LEMMA StepCases ==
  ASSUME IInv, Next
  PROVE  \/ Ignores
         \/ LoadMore
         \/ \E q \in requests : Answers(q) \/ Overtakes(requests \ {q})
         \/ Overtakes(requests)
  <1>t. TypeOK
    BY DEF IInv
  <1>1. ASSUME NEW u \in Users, Boot(u)
        PROVE  Overtakes(requests)
    BY <1>1, BootOvertakes
  <1>2. CASE Retry
    <2>1. LoadBegins(owner, epoch)
      BY <1>t, <1>2, ReloadEffect DEF Retry
    <2>2. QED
      BY <1>t, <1>2, <2>1, LoadOvertakes DEF Retry
  <1>3. CASE ReloadTrees
    <2>1. CASE Coalesce
      BY <1>3, <2>1 DEF ReloadTrees, Ignores, authority
    <2>2. CASE ~Coalesce
      <3>1. LoadBegins(owner, epoch)
        BY <1>t, <1>3, <2>2, ReloadEffect DEF ReloadTrees
      <3>2. QED
        BY <1>t, <1>3, <3>1, LoadOvertakes DEF ReloadTrees
    <2>3. QED
      BY <2>1, <2>2
  <1>4. ASSUME NEW q \in requests,
               \/ ListLoaded(q) \/ ListFailed(q) \/ ListForbidden(q) \/ Settle(q)
               \/ MoreLoaded(q) \/ MoreFailed(q)
        PROVE  Answers(q)
    BY <1>4 DEF ListLoaded, ListFailed, ListForbidden, Settle, MoreLoaded, MoreFailed,
       Answers, authority, authVars, cacheVars, shownVars, Waiting
  <1>5. ASSUME NEW q \in requests, ListUnauthorized(q) \/ MoreUnauthorized(q)
        PROVE  Answers(q) \/ Overtakes(requests \ {q})
    BY <1>t, <1>5, UnauthorizedCases DEF ListUnauthorized, MoreUnauthorized
  <1>6. CASE Hide
    BY <1>t, <1>6, NumberTypes DEF Hide, Overtakes, Passes, authVars
  <1>7. CASE Arrive \/ Restore
    <2>1. CASE requests' = requests /\ generation' = generation
      BY <1>7, <2>1 DEF Arrive, Restore, Ignores, authority
    <2>2. CASE ~(requests' = requests /\ generation' = generation)
      <3>1. StartLoad(owner, epoch, memory, persist, "history_recovery", TRUE)
        BY <1>7, <2>2 DEF Arrive, Recover, Restore
      <3>2. LoadBegins(owner, epoch)
        BY <1>t, <3>1, ReloadEffect
      <3>3. QED
        BY <1>t, <1>7, <3>2, LoadOvertakes DEF Arrive, Restore
    <2>3. QED
      BY <2>1, <2>2
  <1>8. CASE TimeOut
    BY <1>8 DEF TimeOut, Ignores, authority, authVars, cacheVars
  <1>9. ASSUME NEW u \in Users \cup {NoUser}, AuthStateChanged(u)
        PROVE  Overtakes(requests)
    <2>1. ClearPrivateCaches(u)
      BY <1>9, OtherAccountClears
    <2>2. Passes
      BY <1>t, <1>9, <2>1, ClearPasses DEF AuthStateChanged
    <2>3. QED
      BY <1>9, <2>2 DEF AuthStateChanged, Overtakes
  <1>10. QED
    BY <1>1, <1>2, <1>3, <1>4, <1>5, <1>6, <1>7, <1>8, <1>9 DEF Next

\* The request that LoadMore sends.
Asked ==
  [kind |-> "more", generation |-> generation, more |-> more + 1, uid |-> owner,
   epoch |-> epoch, cached |-> {}, preserve |-> FALSE, cursor |-> cursor, late |-> FALSE]

\* LoadMore adds that request, under the next number.
LEMMA LoadMoreAsks ==
  ASSUME TypeOK, LoadMore
  PROVE  /\ Asked \in Loads
         /\ requests' = requests \cup {Asked}
         /\ UNCHANGED authority /\ more' = more + 1
  <1>1. more + 1 \in Nat
    BY NumberTypes
  <1>2. {} \in Lists
    BY DEF Lists
  <1>3. owner \in Users \cup {NoUser} /\ cursor \in 0..Pages
    BY DEF TypeOK
  <1>4. Asked \in Loads
    BY <1>1, <1>2, <1>3, NumberTypes DEF Asked, Loads
  <1>5. QED
    BY <1>4 DEF LoadMore, Asked, authority, authVars, cacheVars

\* A list that settles is the same request.
LEMMA SettlingLoads ==
  ASSUME NEW q \in Loads
  PROVE  /\ [q EXCEPT !.kind = "settlement"] \in Loads
         /\ [q EXCEPT !.kind = "settlement"].kind = "settlement"
         /\ [q EXCEPT !.kind = "settlement"].generation = q.generation
         /\ [q EXCEPT !.kind = "settlement"].epoch = q.epoch
         /\ [q EXCEPT !.kind = "settlement"].uid = q.uid
         /\ [q EXCEPT !.kind = "settlement"].late = q.late
  BY DEF Loads

\* A request that is overtaken differs in being late only.
LEMMA LateLoads ==
  ASSUME NEW q \in Loads
  PROVE  /\ [q EXCEPT !.late = TRUE] \in Loads
         /\ [q EXCEPT !.late = TRUE].kind = q.kind
         /\ [q EXCEPT !.late = TRUE].generation = q.generation
         /\ [q EXCEPT !.late = TRUE].more = q.more
         /\ [q EXCEPT !.late = TRUE].cursor = q.cursor
         /\ [q EXCEPT !.late = TRUE].epoch = q.epoch
         /\ [q EXCEPT !.late = TRUE].late = TRUE
  BY DEF Loads

\* The requests of the next state are those of this one, settling or overtaken, and
\* what has just been asked for.
LEMMA Origins ==
  ASSUME IInv, Next, NEW q \in requests'
  PROVE  /\ q \in Loads
         /\ \/ /\ UNCHANGED authority
               /\ \/ q \in requests
                  \/ \E p \in requests : q = [p EXCEPT !.kind = "settlement"]
                  \/ LoadMore /\ q = Asked
            \/ /\ Passes
               /\ \/ \E p \in requests : q = [p EXCEPT !.late = TRUE]
                  \/ Present(q)
  <1>t. TypeOK /\ requests \in SUBSET Loads
    BY NumberTypes DEF IInv
  <1>1. CASE Ignores
    BY <1>t, <1>1 DEF Ignores
  <1>2. CASE LoadMore
    BY <1>t, <1>2, LoadMoreAsks
  <1>3. ASSUME NEW p \in requests, Answers(p)
        PROVE  /\ UNCHANGED authority
               /\ q \in Loads
               /\ q \in requests \/ q = [p EXCEPT !.kind = "settlement"]
    BY <1>t, <1>3, SettlingLoads DEF Answers
  <1>4. ASSUME NEW S \in SUBSET requests, Overtakes(S)
        PROVE  /\ Passes
               /\ q \in Loads
               /\ (\E p \in requests : q = [p EXCEPT !.late = TRUE]) \/ Present(q)
    <2>1. S \in SUBSET Loads
      BY <1>t
    <2>2. CASE q \in Outdated(S)
      BY <1>4, <2>1, <2>2, OutdatedLoads DEF Overtakes
    <2>3. CASE Present(q)
      BY <1>4, <2>3 DEF Overtakes, Present
    <2>4. QED
      BY <1>4, <2>2, <2>3 DEF Overtakes
  <1>5. requests \in SUBSET requests /\ \A p \in requests : requests \ {p} \in SUBSET requests
    OBVIOUS
  <1>6. QED
    BY <1>1, <1>2, <1>3, <1>4, <1>5, StepCases

-----------------------------------------------------------------------------
(* Each conjunct of the invariant holds after a step.                      *)

\* Requests become late when the generation or the epoch passes, and are sent under the
\* present ones.
LEMMA NextStaleness ==
  ASSUME IInv, Next
  PROVE  StalenessIsExact'
  <1> SUFFICES ASSUME NEW q \in requests'
               PROVE  /\ q.late => q.generation < generation' \/ q.epoch < epoch'
                      /\ ~q.late => /\ q.generation = generation' /\ q.epoch = epoch'
                                    /\ q.uid = owner'
    BY DEF StalenessIsExact
  <1>t. TypeOK /\ requests \in SUBSET Loads /\ StalenessIsExact /\ Numbered
        /\ generation \in Nat /\ epoch \in Nat
    BY NumberTypes DEF IInv
  <1>1. CASE UNCHANGED authority /\ q \in requests
    BY <1>t, <1>1 DEF StalenessIsExact, authority
  <1>2. ASSUME NEW p \in requests, UNCHANGED authority,
               q = [p EXCEPT !.kind = "settlement"]
        PROVE  /\ q.late => q.generation < generation' \/ q.epoch < epoch'
               /\ ~q.late => /\ q.generation = generation' /\ q.epoch = epoch'
                             /\ q.uid = owner'
    <2>1. /\ q.generation = p.generation /\ q.epoch = p.epoch /\ q.uid = p.uid
          /\ q.late = p.late
      BY <1>t, <1>2, SettlingLoads
    <2>2. QED
      BY <1>t, <1>2, <2>1 DEF StalenessIsExact, authority
  <1>3. CASE UNCHANGED authority /\ q = Asked
    BY <1>3 DEF Asked, authority
  <1>4. ASSUME NEW p \in requests, Passes, q = [p EXCEPT !.late = TRUE]
        PROVE  q.late = TRUE /\ (q.generation < generation' \/ q.epoch < epoch')
    <2>1. /\ q.generation = p.generation /\ q.epoch = p.epoch /\ q.late = TRUE
          /\ p.generation \in Nat /\ p.epoch \in Nat
      BY <1>t, <1>4, LateLoads DEF Loads
    <2>2. p.generation <= generation /\ p.epoch <= epoch
      BY <1>t DEF Numbered
    <2>3. QED
      BY <1>t, <1>4, <2>1, <2>2 DEF Passes
  <1>5. CASE Present(q)
    BY <1>5 DEF Present
  <1>6. QED
    BY <1>1, <1>2, <1>3, <1>4, <1>5, Origins

\* Only a request for a further page, and a page that is hidden, takes a new number.
LEMMA MoreGrows ==
  ASSUME IInv, Next
  PROVE  more' \in {more, more + 1}
  BY DEF Next, Boot, Retry, ReloadTrees, LoadMore, ListLoaded, ListFailed, ListForbidden,
     ListUnauthorized, Settle, MoreLoaded, MoreFailed, MoreUnauthorized, FinishMore, Hide,
     Arrive, Restore, TimeOut, AuthStateChanged, moreVars

\* A request for a further page was one, or has just been sent.
LEMMA MoreOrigins ==
  ASSUME IInv, Next, NEW q \in requests', q.kind = "more"
  PROVE  \/ \E p \in Waiting("more") : q = p /\ UNCHANGED authority
         \/ \E p \in Waiting("more") : q = [p EXCEPT !.late = TRUE] /\ Passes
         \/ LoadMore /\ q = Asked
  <1>t. requests \in SUBSET Loads
    BY NumberTypes DEF IInv
  <1>1. ASSUME NEW p \in requests
        PROVE  /\ q # [p EXCEPT !.kind = "settlement"]
               /\ q = [p EXCEPT !.late = TRUE] => p.kind = "more"
    BY <1>t, SettlingLoads, LateLoads
  <1>2. ~Present(q)
    BY DEF Present
  <1>3. QED
    BY <1>1, <1>2, Origins DEF Waiting

\* Numbers, generations and epochs only grow.
LEMMA NextNumbered ==
  ASSUME IInv, Next
  PROVE  Numbered'
  <1>t. /\ TypeOK /\ requests \in SUBSET Loads /\ Numbered /\ more \in Nat
        /\ generation \in Nat /\ epoch \in Nat
    BY NumberTypes DEF IInv
  <1>1. ASSUME NEW q \in requests'
        PROVE  q.generation <= generation' /\ q.epoch <= epoch'
    <2>1. CASE q.late
      <3>1. StalenessIsExact'
        BY NextStaleness
      <3>2. \/ UNCHANGED authority /\ \E p \in requests : q = p
            \/ UNCHANGED authority /\ \E p \in requests : q = [p EXCEPT !.kind = "settlement"]
            \/ Passes /\ \E p \in requests : q = [p EXCEPT !.late = TRUE]
        <4>1. q # Asked
          BY <2>1 DEF Asked
        <4>2. ~Present(q)
          BY <2>1 DEF Present
        <4>3. QED
          BY <4>1, <4>2, Origins
      <3>3. \E p \in requests : q.generation = p.generation /\ q.epoch = p.epoch
        <4>1. ASSUME NEW p \in requests,
                     \/ q = p \/ q = [p EXCEPT !.kind = "settlement"]
                     \/ q = [p EXCEPT !.late = TRUE]
              PROVE  q.generation = p.generation /\ q.epoch = p.epoch
          <5>1. p \in Loads
            BY <1>t
          <5>2. QED
            BY <4>1, <5>1, SettlingLoads, LateLoads
        <4>2. QED
          BY <3>2, <4>1
      <3>4. PICK p \in requests : q.generation = p.generation /\ q.epoch = p.epoch
        BY <3>3
      <3>5. /\ p.generation <= generation /\ p.epoch <= epoch
            /\ p.generation \in Nat /\ p.epoch \in Nat
        BY <1>t DEF Numbered, Loads
      <3>6. Passes \/ (generation' = generation /\ epoch' = epoch)
        BY <3>2 DEF authority
      <3>7. QED
        BY <1>t, <3>4, <3>5, <3>6 DEF Passes
    <2>2. CASE ~q.late
      <3>1. q.generation = generation' /\ q.epoch = epoch'
        BY <2>2, NextStaleness DEF StalenessIsExact
      <3>2. q \in Loads
        BY Origins
      <3>3. q.generation \in Nat /\ q.epoch \in Nat
        BY <3>2 DEF Loads
      <3>4. QED
        BY <3>1, <3>3
    <2>3. QED
      BY <2>1, <2>2
  <1>2. ASSUME NEW q \in requests', q.kind = "more"
        PROVE  \/ \E p \in Waiting("more") : q.more = p.more /\ p.more <= more
               \/ LoadMore /\ q.more = more + 1
    <2>1. \A p \in Waiting("more") : p.more <= more /\ p \in Loads
      BY <1>t DEF Numbered, Waiting
    <2>2. Asked.more = more + 1
      BY DEF Asked
    <2>3. ASSUME NEW p \in Waiting("more"), q = p \/ q = [p EXCEPT !.late = TRUE]
          PROVE  q.more = p.more
      BY <2>1, <2>3, LateLoads
    <2>4. QED
      BY <1>2, <2>1, <2>2, <2>3, MoreOrigins
  <1>3. ASSUME NEW q \in requests', q.kind = "more"
        PROVE  q.more <= more'
    <2>1. CASE LoadMore /\ q.more = more + 1
      BY <1>t, <2>1, LoadMoreAsks
    <2>2. CASE \E p \in Waiting("more") : q.more = p.more /\ p.more <= more
      <3>1. PICK p \in Waiting("more") : q.more = p.more /\ p.more <= more
        BY <2>2
      <3>2. p.more \in Nat
        BY <1>t DEF Waiting, Loads
      <3>3. QED
        BY <1>t, <3>1, <3>2, MoreGrows
    <2>3. QED
      BY <1>2, <1>3, <2>1, <2>2
  <1>4. ASSUME NEW q \in requests', q.kind = "more"
        PROVE  q.cursor # 0
    <2>1. \A p \in Waiting("more") : p.cursor # 0 /\ p \in Loads
      BY <1>t DEF Numbered, Waiting
    <2>2. LoadMore => Asked.cursor # 0
      BY DEF Asked, LoadMore
    <2>3. ASSUME NEW p \in Waiting("more"), q = p \/ q = [p EXCEPT !.late = TRUE]
          PROVE  q.cursor # 0
      BY <2>1, <2>3, LateLoads
    <2>4. QED
      BY <1>4, <2>2, <2>3, MoreOrigins
  <1>5. ASSUME NEW p \in requests', NEW q \in requests', p.kind = "more",
               q.kind = "more", p.more = q.more
        PROVE  p = q
    <2>1. \A r \in Waiting("more") : r.more <= more /\ r \in Loads /\ r.more # more + 1
      <3>1. \A r \in Waiting("more") : r.more <= more /\ r \in Loads
        BY <1>t DEF Numbered, Waiting
      <3>2. \A r \in Loads : r.more \in Nat
        BY DEF Loads
      <3>3. QED
        BY <1>t, <3>1, <3>2
    <2>2. CASE LoadMore
      <3>1. requests' = requests \cup {Asked} /\ Asked.more = more + 1
        BY <1>t, <2>2, LoadMoreAsks DEF Asked
      <3>2. QED
        BY <1>t, <1>5, <2>1, <3>1 DEF Numbered, Waiting
    <2>3. CASE ~LoadMore /\ UNCHANGED authority
      <3>1. ~Passes
        BY <1>t, <2>3 DEF Passes, authority
      <3>2. QED
        BY <1>t, <1>5, <2>3, <3>1, MoreOrigins DEF Numbered
    <2>4. CASE ~LoadMore /\ ~UNCHANGED authority
      <3>1. PICK a \in Waiting("more") : p = [a EXCEPT !.late = TRUE]
        BY <1>5, <2>4, MoreOrigins
      <3>2. PICK b \in Waiting("more") : q = [b EXCEPT !.late = TRUE]
        BY <1>5, <2>4, MoreOrigins
      <3>3. a.more = p.more /\ b.more = q.more
        BY <2>1, <3>1, <3>2, LateLoads
      <3>4. a = b
        BY <1>t, <1>5, <3>3 DEF Numbered
      <3>5. QED
        BY <3>1, <3>2, <3>4
    <2>5. QED
      BY <2>2, <2>3, <2>4
  <1>6. QED
    BY <1>1, <1>3, <1>4, <1>5 DEF Numbered, Waiting

\* The page is told once who is signed in.
LEMMA NextNothingBeforeBoot ==
  ASSUME IInv, Next
  PROVE  NothingBeforeBoot'
  <1>1. page' # "auth-pending"
    BY DEF Next, Boot, Retry, ReloadTrees, LoadMore, ListLoaded, ListFailed, ListForbidden,
       ListUnauthorized, Unauthorized, Settle, MoreLoaded, MoreFailed, MoreUnauthorized,
       Hide, Arrive, Restore, TimeOut, AuthStateChanged
  <1>2. QED
    BY <1>1 DEF NothingBeforeBoot

\* Whatever sets the owner records it.
LEMMA NextOwnerIsRecorded ==
  ASSUME IInv, Next
  PROVE  OwnerIsRecorded'
  <1>1. CASE page # "auth-pending" /\ UNCHANGED <<owner, tag>>
    BY <1>1 DEF IInv, OwnerIsRecorded
  <1>2. ASSUME NEW u \in Users, Boot(u)
        PROVE  tag' = owner'
    BY <1>2 DEF Boot
  <1>3. ASSUME NEW u \in Users \cup {NoUser}, AuthStateChanged(u)
        PROVE  tag' = owner'
    BY <1>3, OtherAccountClears DEF ClearPrivateCaches
  <1>4. ASSUME NEW q \in requests, Unauthorized(q)
        PROVE  (page # "auth-pending" /\ UNCHANGED <<owner, tag>>) \/ tag' = owner'
    BY <1>4 DEF Unauthorized, ClearPrivateCaches, authVars, cacheVars
  <1>5. CASE \/ Retry \/ ReloadTrees \/ LoadMore \/ Hide \/ Arrive \/ Restore \/ TimeOut
             \/ \E q \in requests :
                  \/ ListLoaded(q) \/ ListFailed(q) \/ ListForbidden(q) \/ Settle(q)
                  \/ MoreLoaded(q) \/ MoreFailed(q)
    <2>1. page # "auth-pending" /\ UNCHANGED <<owner, tag>>
      BY <1>5 DEF Retry, ReloadTrees, LoadMore, ListLoaded, ListFailed, ListForbidden, Settle,
         MoreLoaded, MoreFailed, Hide, Arrive, Restore, TimeOut, authVars, cacheVars
    <2>2. QED
      BY <1>1, <2>1
  <1>6. QED
    BY <1>1, <1>2, <1>3, <1>4, <1>5
    DEF Next, ListUnauthorized, MoreUnauthorized, OwnerIsRecorded

\* The answers keep the types of what is shown and cached.
ShownTypes ==
  /\ ui \in {"none", "LOADING", "LOADED", "ERROR", "ERROR auth"}
  /\ persist \in Records /\ memory \in Lists /\ list \in Lists
  /\ cursor \in 0..Pages
  /\ active \in [generation : Nat, reason : {"none", "history_recovery"}]

\* Pages of an account, and the number of the page that follows, have their types.
LEMMA FirstPageType ==
  ASSUME NEW u \in Users
  PROVE  /\ FirstPages(u, 1) \in Lists
         /\ \A n \in 1..Pages : {<<u, n>>} \in Lists /\ NextCursor(n) \in 0..Pages
         /\ NextCursor(1) \in 0..Pages
  <1>1. 1 \in 1..Pages
    OBVIOUS
  <1>2. \A n \in 1..Pages : {<<u, n>>} \in Lists
    BY DEF Lists
  <1>3. FirstPages(u, 1) \in Lists
    BY <1>1 DEF FirstPages, Lists
  <1>4. \A n \in 1..Pages : NextCursor(n) \in 0..Pages
    BY DEF NextCursor
  <1>5. QED
    BY <1>1, <1>2, <1>3, <1>4

\* What is stored of an answer has its type.
LEMMA StoreTypes ==
  ASSUME TypeOK, NEW trees \in Lists, NEW next \in 0..Pages, Store(trees, next)
  PROVE  /\ ui' \in {"none", "LOADING", "LOADED", "ERROR", "ERROR auth"}
         /\ persist' \in Records /\ memory' \in Lists /\ list' \in Lists
         /\ cursor' \in 0..Pages
  <1>1. owner \in Users \cup {NoUser}
    BY DEF TypeOK
  <1>2. QED
    BY <1>1 DEF Store, Records

\* So have the caches and the authority when they are cleared.
LEMMA ClearTypes ==
  ASSUME TypeOK, NEW u \in Users \cup {NoUser}, ClearPrivateCaches(u)
  PROVE  /\ persist' \in Records /\ memory' \in Lists
         /\ owner' \in Users \cup {NoUser} /\ tag' \in Users \cup {NoUser}
         /\ epoch' \in Nat
  <1>1. {} \in Lists
    BY DEF Lists
  <1>2. epoch' \in Nat
    BY NumberTypes DEF ClearPrivateCaches
  <1>3. QED
    BY <1>1, <1>2, NothingTypes DEF ClearPrivateCaches

\* So has the active load, released or not.
LEMMA ReleaseTypes ==
  ASSUME TypeOK, NEW q, Release(q)
  PROVE  active' \in [generation : Nat, reason : {"none", "history_recovery"}]
  BY NothingTypes DEF TypeOK, Release

\* No answer shows or caches anything of another type.
LEMMA AnswerTypes ==
  ASSUME TypeOK, Numbered, NEW q \in requests,
         \/ ListLoaded(q) \/ ListFailed(q) \/ ListForbidden(q) \/ ListUnauthorized(q)
         \/ Settle(q) \/ MoreLoaded(q) \/ MoreFailed(q) \/ MoreUnauthorized(q)
  PROVE  ShownTypes'
  <1>t. q \in Loads /\ ShownTypes
    BY NumberTypes DEF TypeOK, ShownTypes
  <1>1. CASE ListLoaded(q)
    <2>1. CASE StillCurrent(q)
      <3>1. q.uid \in Users
        BY <1>t, <2>1 DEF StillCurrent, Loads
      <3>2. QED
        BY <1>t, <1>1, <2>1, <3>1, FirstPageType, StoreTypes DEF ListLoaded, ShownTypes
    <2>2. CASE ~StillCurrent(q)
      BY <1>t, <1>1, <2>2, ReleaseTypes DEF ListLoaded, ShownTypes, shownVars
    <2>3. QED
      BY <2>1, <2>2
  <1>2. CASE ListFailed(q)
    <2>1. q.cached \in Lists
      BY <1>t DEF Loads
    <2>2. QED
      BY <1>t, <1>2, <2>1, ReleaseTypes DEF ListFailed, ShownTypes, authVars, cacheVars
  <1>3. CASE ListForbidden(q)
    BY <1>t, <1>3, ReleaseTypes DEF ListForbidden, ShownTypes, authVars, cacheVars
  <1>4. ASSUME Unauthorized(q)
        PROVE  /\ UNCHANGED shownVars
               /\ persist' \in Records /\ memory' \in Lists
    BY <1>t, <1>4, ClearTypes DEF Unauthorized, ShownTypes, authVars, cacheVars
  <1>5. CASE ListUnauthorized(q)
    BY <1>t, <1>4, <1>5, ReleaseTypes DEF ListUnauthorized, ShownTypes, shownVars
  <1>6. CASE Settle(q)
    BY <1>t, <1>6, ReleaseTypes DEF Settle, ShownTypes, authVars, cacheVars, shownVars
  <1>7. CASE MoreLoaded(q)
    <2>1. CASE StillCurrent(q)
      <3>1. q.uid \in Users
        BY <1>t, <2>1 DEF StillCurrent, Loads
      <3>2. q.cursor \in 1..Pages
        <4>1. q.cursor \in 0..Pages /\ q.cursor # 0
          BY <1>t, <1>7 DEF MoreLoaded, Waiting, Loads, Numbered
        <4>2. QED
          BY <4>1
      <3>3. list \cup {<<q.uid, q.cursor>>} \in Lists
        BY <1>t, <3>1, <3>2, FirstPageType DEF ShownTypes, Lists
      <3>4. QED
        BY <1>t, <1>7, <2>1, <3>1, <3>2, <3>3, FirstPageType, StoreTypes
        DEF MoreLoaded, ShownTypes
    <2>2. CASE ~StillCurrent(q)
      BY <1>t, <1>7, <2>2 DEF MoreLoaded, ShownTypes, shownVars
    <2>3. QED
      BY <2>1, <2>2
  <1>8. CASE MoreFailed(q)
    BY <1>t, <1>8 DEF MoreFailed, ShownTypes, authVars, cacheVars, shownVars
  <1>9. CASE MoreUnauthorized(q)
    BY <1>t, <1>4, <1>9 DEF MoreUnauthorized, ShownTypes, shownVars
  <1>10. QED
    BY <1>1, <1>2, <1>3, <1>5, <1>6, <1>7, <1>8, <1>9

\* Neither does any other step.
LEMMA NextShownTypes ==
  ASSUME IInv, Next
  PROVE  ShownTypes'
  <1>t. TypeOK /\ ShownTypes
    BY DEF IInv, TypeOK, ShownTypes
  <1>1. ASSUME LoadBegins(owner, epoch), cursor' = cursor
        PROVE  ShownTypes'
    BY <1>t, <1>1 DEF LoadBegins, ShownTypes
  <1>2. ASSUME NEW u \in Users, Boot(u)
        PROVE  ShownTypes'
    BY <1>t, <1>2, BootOvertakes DEF Boot, ShownTypes
  <1>3. CASE Retry
    BY <1>t, <1>1, <1>3, ReloadEffect DEF Retry
  <1>4. CASE ReloadTrees
    <2>1. CASE Coalesce
      BY <1>t, <1>4, <2>1, NothingTypes DEF ReloadTrees, ShownTypes
    <2>2. CASE ~Coalesce
      BY <1>t, <1>1, <1>4, <2>2, ReloadEffect DEF ReloadTrees
    <2>3. QED
      BY <2>1, <2>2
  <1>5. CASE LoadMore \/ Hide \/ TimeOut
    <2>1. cursor' \in {cursor, 0} /\ 0 \in 0..Pages
      BY <1>5 DEF LoadMore, Hide, TimeOut, shownVars
    <2>2. ui' \in {ui, "none", "ERROR"} /\ UNCHANGED <<persist, memory, list, active>>
      BY <1>5 DEF LoadMore, Hide, TimeOut, authVars, cacheVars, shownVars
    <2>3. QED
      BY <1>t, <2>1, <2>2 DEF ShownTypes
  <1>6. CASE Arrive \/ Restore
    <2>1. CASE UNCHANGED <<ui, list, persist, memory, active>>
      BY <1>t, <1>6, <2>1 DEF Arrive, Restore, ShownTypes
    <2>2. CASE StartLoad(owner, epoch, memory, persist, "history_recovery", TRUE)
      BY <1>t, <1>1, <1>6, <2>2, ReloadEffect DEF Arrive, Restore
    <2>3. QED
      BY <1>6, <2>1, <2>2 DEF Arrive, Recover, Restore
  <1>7. ASSUME NEW u \in Users \cup {NoUser}, AuthStateChanged(u)
        PROVE  ShownTypes'
    BY <1>t, <1>7, OtherAccountClears, ClearTypes DEF AuthStateChanged, ShownTypes, shownVars
  <1>8. QED
    BY <1>t, <1>2, <1>3, <1>4, <1>5, <1>6, <1>7, AnswerTypes DEF Next, IInv

\* Every step keeps the type invariant.
LEMMA NextTypeOK ==
  ASSUME IInv, Next
  PROVE  TypeOK'
  <1>t. TypeOK
    BY DEF IInv
  <1>1. ShownTypes'
    BY NextShownTypes
  <1>2. requests' \in SUBSET Loads
    BY Origins
  <1>3. owner' \in Users \cup {NoUser} /\ tag' \in Users \cup {NoUser}
    <2>1. ASSUME NEW u \in Users, Boot(u)
          PROVE  owner' = u /\ tag' = u
      BY <2>1 DEF Boot
    <2>2. CASE UNCHANGED <<owner, tag>>
      BY <1>t, <2>2 DEF TypeOK
    <2>3. ASSUME NEW u \in Users \cup {NoUser}, AuthStateChanged(u)
          PROVE  owner' = u /\ tag' = u
      BY <2>3, OtherAccountClears DEF ClearPrivateCaches
    <2>4. ASSUME NEW q \in requests, Unauthorized(q)
          PROVE  UNCHANGED <<owner, tag>> \/ (owner' = NoUser /\ tag' = NoUser)
      BY <2>4 DEF Unauthorized, ClearPrivateCaches, authVars, cacheVars
    <2>5. CASE \/ Retry \/ ReloadTrees \/ LoadMore \/ Hide \/ Arrive \/ Restore \/ TimeOut
               \/ \E q \in requests :
                    \/ ListLoaded(q) \/ ListFailed(q) \/ ListForbidden(q) \/ Settle(q)
                    \/ MoreLoaded(q) \/ MoreFailed(q)
      <3>1. UNCHANGED <<owner, tag>>
        BY <2>5 DEF Retry, ReloadTrees, LoadMore, ListLoaded, ListFailed, ListForbidden,
           Settle, MoreLoaded, MoreFailed, Hide, Arrive, Restore, TimeOut, authVars, cacheVars
      <3>2. QED
        BY <2>2, <3>1
    <2>6. QED
      BY <2>1, <2>2, <2>3, <2>4, <2>5 DEF Next, ListUnauthorized, MoreUnauthorized
  <1>4. epoch' \in Nat /\ generation' \in Nat
    <2>1. CASE UNCHANGED authority
      BY <2>1, <1>t, NumberTypes DEF authority
    <2>2. CASE Passes
      BY <2>2 DEF Passes
    <2>3. QED
      BY <1>t, <2>1, <2>2, StepCases, LoadMoreAsks DEF Ignores, Answers, Overtakes
  <1>5. more' \in Nat
    BY <1>t, NumberTypes, MoreGrows
  <1>6. page' \in {"auth-pending", "shown", "hidden"}
    BY <1>t DEF TypeOK, Next, Boot, Retry, ReloadTrees, LoadMore, ListLoaded, ListFailed,
       ListForbidden, ListUnauthorized, Unauthorized, Settle, MoreLoaded, MoreFailed,
       MoreUnauthorized, Hide, Arrive, Restore, TimeOut, AuthStateChanged
  <1>7. arriving' \in BOOLEAN
    <2>1. arriving \in BOOLEAN
      BY <1>t DEF TypeOK
    <2>2. arriving' \in {arriving, FALSE}
      BY DEF Next, Boot, Retry, ReloadTrees, LoadMore, ListLoaded, ListFailed,
         ListForbidden, ListUnauthorized, Unauthorized, Settle, MoreLoaded, MoreFailed,
         MoreUnauthorized, Hide, Arrive, Restore, TimeOut, AuthStateChanged
    <2>3. QED
      BY <2>1, <2>2
  <1>8. loadingMore' \in BOOLEAN /\ inFlight' \in BOOLEAN
    BY <1>t DEF TypeOK, Next, Boot, Retry, ReloadTrees, LoadMore, ListLoaded, ListFailed,
       ListForbidden, ListUnauthorized, Settle, MoreLoaded, MoreFailed, MoreUnauthorized,
       FinishMore, Hide, Arrive, Restore, TimeOut, AuthStateChanged, moreVars
  <1>9. QED
    BY <1>1, <1>2, <1>3, <1>4, <1>5, <1>6, <1>7, <1>8 DEF TypeOK, ShownTypes

-----------------------------------------------------------------------------
(* The button for more pages.                                              *)

\* The button is busy while the latest number is among those that are waited for.
LEMMA OwnedByNumber ==
  LoadingMoreIsOwned <=> /\ loadingMore = inFlight
                         /\ inFlight <=> more \in MoreNumbers(requests)
  BY DEF LoadingMoreIsOwned, MoreNumbers, Waiting

\* An answer to the list leaves the numbers alone, one to a further page takes its own.
LEMMA AnswerNumbers ==
  ASSUME TypeOK, Numbered, NEW q \in requests, Answers(q)
  PROVE  MoreNumbers(requests') = IF q.kind = "more" THEN MoreNumbers(requests) \ {q.more}
                                  ELSE MoreNumbers(requests)
  <1>t. q \in Loads
    BY NumberTypes
  <1>1. CASE q.kind = "more"
    BY <1>1 DEF Answers, MoreNumbers, Numbered, Waiting
  <1>2. CASE q.kind # "more"
    BY <1>t, <1>2, SettlingLoads DEF Answers, MoreNumbers
  <1>3. QED
    BY <1>1, <1>2

\* Whatever overtakes requests sends none for a further page.
LEMMA OvertakenNumbers ==
  ASSUME TypeOK, NEW S \in SUBSET requests, Overtakes(S)
  PROVE  MoreNumbers(requests') = MoreNumbers(S)
  <1>1. S \in SUBSET Loads
    BY NumberTypes
  <1>2. MoreNumbers(Outdated(S)) = MoreNumbers(S)
    BY <1>1, OutdatedNumbers
  <1>3. ASSUME NEW q, Present(q)
        PROVE  MoreNumbers(Outdated(S) \cup {q}) = MoreNumbers(Outdated(S))
    BY <1>3 DEF Present, MoreNumbers
  <1>4. QED
    BY <1>2, <1>3 DEF Overtakes

\* When a request for a further page ends, whatever its answer, the button is busy
\* still only with a later one.
LEMMA FinishedNumbers ==
  ASSUME IInv, NEW q \in requests, q.kind = "more", FinishMore(q),
         Answers(q) \/ Overtakes(requests \ {q})
  PROVE  LoadingMoreIsOwned'
  <1>t. TypeOK /\ Numbered /\ LoadingMoreIsOwned
    BY DEF IInv
  <1>1. MoreNumbers(requests \ {q}) = MoreNumbers(requests) \ {q.more}
    BY <1>t DEF MoreNumbers, Numbered, Waiting
  <1>2. MoreNumbers(requests') = MoreNumbers(requests) \ {q.more}
    <2>1. CASE Answers(q)
      BY <1>t, <2>1, AnswerNumbers
    <2>2. CASE Overtakes(requests \ {q})
      BY <1>t, <1>1, <2>2, OvertakenNumbers
    <2>3. QED
      BY <2>1, <2>2
  <1>3. /\ loadingMore = inFlight
        /\ inFlight <=> more \in MoreNumbers(requests)
    BY <1>t, OwnedByNumber
  <1>4. inFlight \in BOOLEAN
    BY <1>t DEF TypeOK
  <1>5. q.more \in MoreNumbers(requests)
    BY DEF MoreNumbers
  <1>6. /\ inFlight' <=> more' \in MoreNumbers(requests')
        /\ loadingMore' = inFlight'
    BY <1>2, <1>3, <1>4, <1>5 DEF FinishMore
  <1>7. QED
    BY <1>6 DEF LoadingMoreIsOwned, MoreNumbers, Waiting

\* Every step keeps the button's invariant: the actions that leave the flags alone leave
\* the numbers alone too.
LEMMA NextLoadingMore ==
  ASSUME IInv, Next
  PROVE  LoadingMoreIsOwned'
  <1>t. TypeOK /\ Numbered /\ LoadingMoreIsOwned
    BY DEF IInv
  <1>1. /\ loadingMore = inFlight
        /\ inFlight <=> more \in MoreNumbers(requests)
    BY <1>t, OwnedByNumber
  <1>2. ASSUME UNCHANGED moreVars, MoreNumbers(requests') = MoreNumbers(requests)
        PROVE  LoadingMoreIsOwned'
    BY <1>1, <1>2 DEF LoadingMoreIsOwned, MoreNumbers, Waiting, moreVars
  <1>3. ASSUME Ignores \/ Overtakes(requests)
        PROVE  MoreNumbers(requests') = MoreNumbers(requests)
    BY <1>t, <1>3, OvertakenNumbers DEF Ignores
  <1>4. ASSUME NEW u \in Users, Boot(u)
        PROVE  LoadingMoreIsOwned'
    BY <1>2, <1>3, <1>4, BootOvertakes DEF Boot
  <1>5. ASSUME Retry \/ ReloadTrees \/ Arrive \/ Restore
        PROVE  LoadingMoreIsOwned'
    <2>1. CASE UNCHANGED <<requests, generation>>
      BY <1>2, <1>5, <2>1 DEF Retry, ReloadTrees, Arrive, Restore
    <2>2. CASE LoadBegins(owner, epoch)
      BY <1>t, <1>2, <1>3, <1>5, <2>2, LoadOvertakes
      DEF Retry, ReloadTrees, Arrive, Restore
    <2>3. QED
      BY <1>t, <1>5, <2>1, <2>2, ReloadEffect
      DEF Retry, ReloadTrees, Arrive, Recover, Restore
  <1>6. CASE LoadMore
    <2>1. requests' = requests \cup {Asked} /\ more' = more + 1
      BY <1>t, <1>6, LoadMoreAsks
    <2>2. Asked \in requests' /\ Asked.kind = "more" /\ Asked.more = more'
      BY <2>1 DEF Asked
    <2>3. inFlight' = TRUE /\ loadingMore' = TRUE
      BY <1>6 DEF LoadMore
    <2>4. QED
      BY <2>2, <2>3 DEF LoadingMoreIsOwned, Waiting
  <1>7. ASSUME NEW q \in requests,
               \/ ListLoaded(q) \/ ListFailed(q) \/ ListForbidden(q) \/ Settle(q)
        PROVE  LoadingMoreIsOwned'
    <2>1. q.kind # "more" /\ UNCHANGED moreVars
      BY <1>7 DEF ListLoaded, ListFailed, ListForbidden, Settle, Waiting
    <2>2. Answers(q)
      BY <1>7 DEF ListLoaded, ListFailed, ListForbidden, Settle, Answers, authority,
         authVars, cacheVars, Waiting
    <2>3. QED
      BY <1>t, <1>2, <2>1, <2>2, AnswerNumbers
  <1>8. ASSUME NEW q \in requests, MoreLoaded(q) \/ MoreFailed(q)
        PROVE  LoadingMoreIsOwned'
    <2>1. q.kind = "more" /\ FinishMore(q)
      BY <1>8 DEF MoreLoaded, MoreFailed, Waiting
    <2>2. Answers(q)
      BY <1>8 DEF MoreLoaded, MoreFailed, Answers, authority, authVars, cacheVars
    <2>3. QED
      BY <2>1, <2>2, FinishedNumbers
  <1>9. ASSUME NEW q \in requests, ListUnauthorized(q)
        PROVE  LoadingMoreIsOwned'
    <2>1. q.kind # "more" /\ UNCHANGED moreVars
      BY <1>9 DEF ListUnauthorized
    <2>2. CASE Answers(q)
      BY <1>t, <1>2, <2>1, <2>2, AnswerNumbers
    <2>3. CASE Overtakes(requests \ {q})
      <3>1. MoreNumbers(requests \ {q}) = MoreNumbers(requests)
        BY <2>1 DEF MoreNumbers
      <3>2. QED
        BY <1>t, <1>2, <2>1, <2>3, <3>1, OvertakenNumbers
    <2>4. QED
      BY <1>t, <1>9, <2>2, <2>3, UnauthorizedCases DEF ListUnauthorized
  <1>10. ASSUME NEW q \in requests, MoreUnauthorized(q)
         PROVE  LoadingMoreIsOwned'
    BY <1>t, <1>10, UnauthorizedCases, FinishedNumbers DEF MoreUnauthorized
  <1>11. CASE Hide
    <2>1. \A n \in MoreNumbers(requests) : n <= more /\ n \in Nat
      BY <1>t, NumberTypes DEF MoreNumbers, Numbered, Waiting, Loads
    <2>2. more + 1 \notin MoreNumbers(requests)
      BY <1>t, <2>1, NumberTypes
    <2>3. Overtakes(requests)
      BY <1>t, <1>11, NumberTypes DEF Hide, Overtakes, Passes, authVars
    <2>4. /\ more' = more + 1 /\ inFlight' = FALSE /\ loadingMore' = FALSE
      BY <1>11 DEF Hide
    <2>5. more' \notin MoreNumbers(requests')
      BY <1>3, <2>2, <2>3, <2>4
    <2>6. QED
      BY <2>4, <2>5 DEF LoadingMoreIsOwned, MoreNumbers, Waiting
  <1>12. CASE TimeOut
    BY <1>2, <1>12 DEF TimeOut
  <1>13. ASSUME NEW u \in Users \cup {NoUser}, AuthStateChanged(u)
         PROVE  LoadingMoreIsOwned'
    <2>1. Overtakes(requests)
      <3>1. Passes
        BY <1>t, <1>13, OtherAccountClears, ClearPasses DEF AuthStateChanged
      <3>2. QED
        BY <1>13, <3>1 DEF AuthStateChanged, Overtakes
    <2>2. QED
      BY <1>2, <1>3, <1>13, <2>1 DEF AuthStateChanged
  <1>14. QED
    BY <1>4, <1>5, <1>6, <1>7, <1>8, <1>9, <1>10, <1>11, <1>12, <1>13 DEF Next

-----------------------------------------------------------------------------
(* Late answers.                                                           *)

\* A request that remains, late or not, is still waited for.
LEMMA RemainingAreAwaited ==
  ASSUME IInv, NEW q \in requests, Answered(q)
  PROVE  /\ q \notin requests'
         /\ \A S \in SUBSET requests : Overtakes(S) => q \notin S
  <1>t. requests \in SUBSET Loads
    BY NumberTypes DEF IInv
  <1>1. q \notin requests'
    BY DEF Answered
  <1>2. ASSUME NEW S \in SUBSET requests, Overtakes(S), q \in S
        PROVE  FALSE
    <2>1. [q EXCEPT !.late = TRUE] \in requests'
      <3>1. [q EXCEPT !.late = TRUE] \in Outdated(S)
        BY <1>t, <1>2, OutdatedLoads
      <3>2. Outdated(S) \subseteq requests'
        BY <1>2 DEF Overtakes
      <3>3. QED
        BY <3>1, <3>2
    <2>2. /\ [q EXCEPT !.late = TRUE].kind = q.kind
          /\ [q EXCEPT !.late = TRUE].generation = q.generation
          /\ [q EXCEPT !.late = TRUE].more = q.more
      BY <1>t, LateLoads
    <2>3. QED
      BY <2>1, <2>2 DEF Answered
  <1>3. QED
    BY <1>1, <1>2

\* What a late answer may do.
Harmless ==
  /\ UNCHANGED shownVars
  /\ memory' \in {memory, {}}
  /\ persist' \in {persist, NoRecord}

\* The generation or the authority has passed, so no answer to a late request is taken.
LEMMA LateIsHarmless ==
  ASSUME IInv, NEW q \in requests, q.late,
         \/ ListLoaded(q) \/ ListFailed(q) \/ ListForbidden(q) \/ ListUnauthorized(q)
         \/ Settle(q) \/ MoreLoaded(q) \/ MoreFailed(q) \/ MoreUnauthorized(q)
  PROVE  Harmless
  <1>1. ~StillCurrent(q)
    <2>1. TypeOK /\ StalenessIsExact /\ generation \in Nat /\ epoch \in Nat
      BY NumberTypes DEF IInv
    <2>2. q.generation < generation \/ q.epoch < epoch
      BY <2>1 DEF StalenessIsExact
    <2>3. q.generation # generation \/ q.epoch # epoch
      BY <2>1, <2>2
    <2>4. QED
      BY <2>3 DEF StillCurrent
  <1>2. CASE ListLoaded(q) \/ MoreLoaded(q)
    BY <1>1, <1>2 DEF ListLoaded, MoreLoaded, Harmless
  <1>3. CASE ListFailed(q) \/ ListForbidden(q) \/ Settle(q) \/ MoreFailed(q)
    BY <1>1, <1>3 DEF ListFailed, ListForbidden, Settle, MoreFailed, Harmless, shownVars,
       authVars, cacheVars
  <1>4. CASE ListUnauthorized(q) \/ MoreUnauthorized(q)
    BY <1>4 DEF ListUnauthorized, MoreUnauthorized, Unauthorized, ClearPrivateCaches,
       Harmless, authVars, cacheVars
  <1>5. QED
    BY <1>2, <1>3, <1>4

\* A step that ends a late request is an answer to that very request.
LEMMA NextIgnoresLate ==
  ASSUME IInv, [Next]_vars, NEW q \in requests, q.late, Answered(q)
  PROVE  Harmless
  <1>t. TypeOK /\ NothingBeforeBoot
    BY DEF IInv
  <1>1. q \notin requests' /\ ~Overtakes(requests)
    BY RemainingAreAwaited
  <1>2. ASSUME NEW p \in requests, Answers(p) \/ Overtakes(requests \ {p})
        PROVE  p = q
    BY <1>1, <1>2, RemainingAreAwaited DEF Answers
  <1>3. ASSUME NEW p \in requests, Unauthorized(p)
        PROVE  p = q
    BY <1>t, <1>2, <1>3, UnauthorizedCases
  <1>4. ASSUME NEW p \in requests,
               \/ ListLoaded(p) \/ ListFailed(p) \/ ListForbidden(p) \/ Settle(p)
               \/ MoreLoaded(p) \/ MoreFailed(p)
        PROVE  p = q
    <2>1. Answers(p)
      BY <1>4 DEF ListLoaded, ListFailed, ListForbidden, Settle, MoreLoaded, MoreFailed,
         Answers, authority, authVars, cacheVars, shownVars, Waiting
    <2>2. QED
      BY <1>2, <2>1
  <1>5. ~(Retry \/ ReloadTrees \/ Arrive \/ Restore)
    <2>1. ASSUME LoadBegins(owner, epoch), UNCHANGED <<owner, epoch>>
          PROVE  FALSE
      BY <1>t, <1>1, <2>1, LoadOvertakes
    <2>2. QED
      BY <1>t, <1>1, <2>1, ReloadEffect
      DEF Retry, ReloadTrees, Arrive, Recover, Restore
  <1>6. ~(LoadMore \/ TimeOut \/ UNCHANGED vars)
    BY <1>t, <1>1, LoadMoreAsks DEF TimeOut, vars
  <1>7. ~Hide
    BY <1>t, <1>1, NumberTypes DEF Hide, Overtakes, Passes, authVars
  <1>8. \A u \in Users \cup {NoUser} : ~AuthStateChanged(u)
    <2>1. ASSUME NEW u \in Users \cup {NoUser}, AuthStateChanged(u)
          PROVE  FALSE
      <3>1. Passes
        BY <1>t, <2>1, OtherAccountClears, ClearPasses DEF AuthStateChanged
      <3>2. QED
        BY <1>1, <2>1, <3>1 DEF AuthStateChanged, Overtakes
    <2>2. QED
      BY <2>1
  <1>9. \A u \in Users : ~Boot(u)
    BY <1>t DEF Boot, NothingBeforeBoot
  <1>10. QED
    BY <1>3, <1>4, <1>5, <1>6, <1>7, <1>8, <1>9, LateIsHarmless
    DEF Next, ListUnauthorized, MoreUnauthorized

-----------------------------------------------------------------------------
(* The theorems.                                                           *)

\* The invariant holds at the start, whatever an earlier visit left in the caches.
LEMMA InitIInv ==
  ASSUME Init
  PROVE  IInv
  <1>1. tag \in Users \cup {NoUser} /\ requests = {} /\ page = "auth-pending"
    BY DEF Init
  <1>2. persist \in Records
    <2>1. CASE persist = NoRecord
      BY <2>1, NothingTypes
    <2>2. CASE persist # NoRecord
      <3>1. PICK n \in 1..Pages : persist = [uid |-> tag, data |-> FirstPages(tag, n)]
        BY <2>2 DEF Init
      <3>2. tag \in Users
        BY <1>1, <2>2 DEF Init
      <3>3. FirstPages(tag, n) \in Lists
        BY <3>2 DEF FirstPages, Lists
      <3>4. QED
        BY <3>1, <3>2, <3>3 DEF Records
    <2>3. QED
      BY <2>1, <2>2
  <1>3. memory \in Lists
    <2>1. persist.data \in Lists /\ {} \in Lists
      BY <1>2 DEF Records, Lists
    <2>2. QED
      BY <2>1 DEF Init
  <1>4. TypeOK
    <2>1. list \in Lists
      BY DEF Init, Lists
    <2>2. cursor \in 0..Pages /\ epoch \in Nat /\ generation \in Nat /\ more \in Nat
      BY DEF Init
    <2>3. QED
      BY <1>1, <1>2, <1>3, <2>1, <2>2, NothingTypes DEF Init, TypeOK
  <1>5. LoadingMoreIsOwned
    BY <1>1 DEF Init, LoadingMoreIsOwned, Waiting
  <1>6. QED
    BY <1>1, <1>4, <1>5 DEF Init, IInv, NothingBeforeBoot, OwnerIsRecorded, Numbered,
       StalenessIsExact, Waiting

\* Every step keeps the invariant.
LEMMA NextIInv ==
  ASSUME IInv, [Next]_vars
  PROVE  IInv'
  <1>1. CASE Next
    BY <1>1, NextTypeOK, NextNothingBeforeBoot, NextOwnerIsRecorded, NextNumbered,
       NextStaleness, NextLoadingMore DEF IInv
  <1>2. CASE UNCHANGED vars
    BY <1>2 DEF vars, authVars, cacheVars, moreVars, IInv, TypeOK, NothingBeforeBoot,
       OwnerIsRecorded, Numbered, StalenessIsExact, LoadingMoreIsOwned, Waiting
  <1>3. QED
    BY <1>1, <1>2

\* The invariant holds throughout a visit.
THEOREM ListInvariant == Spec => []IInv
  BY InitIInv, NextIInv, PTL DEF Spec

\* The button for more pages is busy exactly while its latest request is waited for,
\* whatever is answered, hidden or overtaken in between.
THEOREM BusyButtonIsOwned == Spec => []LoadingMoreIsOwned
  <1>1. IInv => LoadingMoreIsOwned
    BY DEF IInv
  <1>2. QED
    BY <1>1, ListInvariant, PTL

\* The generation and the authority that a request captured are the present ones exactly
\* as long as the page was not hidden, the account did not change and no other load
\* began: what stillCurrent compares neither lets a late answer in nor turns away one
\* that is in time.
THEOREM StillCurrentIsExact == Spec => []StalenessIsExact
  <1>1. IInv => StalenessIsExact
    BY DEF IInv
  <1>2. QED
    BY <1>1, ListInvariant, PTL

\* A late answer neither shows nor caches anything, in whatever order answers come.
THEOREM LateAnswersChangeNothing == Spec => LateAnswersIgnored
  <1>1. IInv /\ [Next]_vars =>
          [\A q \in requests : q.late /\ Answered(q) =>
             /\ UNCHANGED shownVars
             /\ memory' \in {memory, {}}
             /\ persist' \in {persist, NoRecord}]_vars
    BY NextIgnoresLate DEF Harmless
  <1>2. QED
    BY <1>1, ListInvariant, PTL DEF Spec, LateAnswersIgnored

=============================================================================
