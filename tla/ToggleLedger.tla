---------------------------- MODULE ToggleLedger ----------------------------
(***************************************************************************)
(* What the tree-like route promises: every idempotency key of an actor is *)
(* applied at most once and at one instant, that instant's result is what  *)
(* every success answer for the key reports, and the reported count is the *)
(* number of actors who like the tree at that instant.                     *)
(***************************************************************************)
EXTENDS Integers, FiniteSets

CONSTANTS Actors, Trees, Keys

VARIABLES
  likes,   \* who likes what: pairs <<actor, tree>>
  results, \* the result of each <<actor, key>>, NoResult when not applied
  told     \* successes reported to callers: <<actor, key, result>>

vars == <<likes, results, told>>

NoResult == [state |-> "absent"]

Result(tree, active, count) ==
  [state |-> "completed", tree |-> tree, active |-> active, count |-> count]

Toggled(a, t) ==
  IF <<a, t>> \in likes THEN likes \ {<<a, t>>} ELSE likes \cup {<<a, t>>}

LikeCount(liking, t) == Cardinality({a \in Actors : <<a, t>> \in liking})

Init ==
  /\ likes = {}
  /\ results = [ak \in Actors \X Keys |-> NoResult]
  /\ told = {}

\* The request with key k of actor a takes effect.
Apply(a, t, k) ==
  /\ results[<<a, k>>] = NoResult
  /\ likes' = Toggled(a, t)
  /\ results' = [results EXCEPT ![<<a, k>>] =
                   Result(t, <<a, t>> \in likes', LikeCount(likes', t))]
  /\ UNCHANGED told

\* A caller of (a, k) is answered 200: with the result of the one application.
Tell(a, k) ==
  /\ results[<<a, k>>] # NoResult
  /\ told' = told \cup {<<a, k, results[<<a, k>>]>>}
  /\ UNCHANGED <<likes, results>>

Next == \E a \in Actors, k \in Keys :
          Tell(a, k) \/ \E t \in Trees : Apply(a, t, k)

Spec == Init /\ [][Next]_vars
=============================================================================
