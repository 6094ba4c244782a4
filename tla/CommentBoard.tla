---------------------------- MODULE CommentBoard ----------------------------
(***************************************************************************)
(* What the comment routes promise: a comment appears at one instant, at   *)
(* which its author may write it, its key is unused and the author's       *)
(* limits have room for it, in the minute in which its request asked; and  *)
(* what a caller is told of its request is true at the instant it is       *)
(* decided.  Comments are named by the requests that create them.          *)
(***************************************************************************)
EXTENDS Integers, FiniteSets

CONSTANTS Actors, Owner, Trees, Memories, Bodies, Keys, Requests,
          ActorLimit, TargetLimit

VARIABLES
  public, \* the targets that everybody may comment on
  minute, \* the minute of the clock
  call,   \* what a request asks for
  board,  \* the comment of a request: "none", "visible" or "removed"
  charge, \* the minutes that a request asks to be charged to, or -1
  told    \* what is said of a request: "nothing", a refusal, or the comment it has

vars == <<public, minute, call, board, charge, told>>

Targets == Trees \cup Memories

Init ==
  /\ public = Targets
  /\ minute = 0
  /\ call \in [Requests -> [actor : Actors, target : Targets, body : Bodies, key : Keys]]
  /\ board = [r \in Requests |-> "none"]
  /\ charge = [r \in Requests |-> [actor |-> -1, target |-> -1]]
  /\ told = [r \in Requests |-> "nothing"]

-----------------------------------------------------------------------------
Posted == {r \in Requests : board[r] # "none"}

OnTree(r) == call[r].target \in Trees

\* Requests of one actor on one kind of target, and those with one key.
SameActor(q, r) == call[q].actor = call[r].actor /\ (OnTree(q) <=> OnTree(r))
SameKey(q, r)   == SameActor(q, r) /\ call[q].key = call[r].key

Unused(r) == \A q \in Posted : ~SameKey(q, r)

Allowed(r) ==
  call[r].target \in public \/ (~OnTree(r) /\ call[r].actor = Owner)

\* What the actor of r is charged, by all and for the target of r, in the minutes of r.
OfActor(r)  == {q \in Posted : SameActor(q, r) /\ charge[q].actor = charge[r].actor}
OfTarget(r) == {q \in Posted : /\ call[q].actor = call[r].actor
                               /\ call[q].target = call[r].target
                               /\ charge[q].target = charge[r].target}

ActorFull(r)  == charge[r].actor # -1 /\ Cardinality(OfActor(r)) >= ActorLimit
TargetFull(r) == charge[r].target # -1 /\ Cardinality(OfTarget(r)) >= TargetLimit

-----------------------------------------------------------------------------
\* A request asks once to be charged to the minute of the clock.
Ask(r) ==
  /\ \/ charge[r].actor = -1 /\ charge' = [charge EXCEPT ![r].actor = minute]
     \/ /\ ~OnTree(r) /\ charge[r].target = -1
        /\ charge' = [charge EXCEPT ![r].target = minute]
  /\ UNCHANGED <<public, minute, call, board, told>>

Post(r) ==
  /\ board[r] = "none" /\ Allowed(r) /\ Unused(r)
  /\ charge[r].actor # -1 /\ (OnTree(r) \/ charge[r].target # -1)
  /\ ~ActorFull(r) /\ ~TargetFull(r)
  /\ board' = [board EXCEPT ![r] = "visible"]
  /\ UNCHANGED <<public, minute, call, charge, told>>

Say(r, answer) ==
  /\ told[r] = "nothing"
  /\ told' = [told EXCEPT ![r] = answer]
  /\ UNCHANGED <<public, minute, call, board, charge>>

\* A success is of a comment with this very call, whichever attempt created it.
Succeed(r) == \E q \in Posted : call[q] = call[r] /\ Say(r, q)

\* A retry of what is on the board is never refused by a limit.
Refuse(r) ==
  \/ ~Allowed(r) /\ Say(r, "not_found")
  \/ (\E q \in Posted : SameKey(q, r) /\ call[q] # call[r]) /\ Say(r, "key_reused")
  \/ Unused(r) /\ (ActorFull(r) \/ TargetFull(r)) /\ Say(r, "limited")
  \/ (\E q \in Posted : call[q] = call[r] /\ board[q] = "removed") /\ Say(r, "gone")

Remove(r) ==
  /\ ~OnTree(r) /\ board[r] = "visible"
  /\ board' = [board EXCEPT ![r] = "removed"]
  /\ UNCHANGED <<public, minute, call, charge, told>>

Flip(t) ==
  /\ public' = IF t \in public THEN public \ {t} ELSE public \cup {t}
  /\ UNCHANGED <<minute, call, board, charge, told>>

Tick == minute' = minute + 1 /\ UNCHANGED <<public, call, board, charge, told>>

Next ==
  \/ \E r \in Requests : Ask(r) \/ Post(r) \/ Succeed(r) \/ Refuse(r) \/ Remove(r)
  \/ \E t \in Targets : Flip(t)
  \/ Tick

Spec == Init /\ [][Next]_vars
=============================================================================
