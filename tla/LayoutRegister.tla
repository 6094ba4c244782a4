--------------------------- MODULE LayoutRegister ---------------------------
(***************************************************************************)
(* What saving a hub layout promises: the layouts of a tree are a register *)
(* with compare-and-set.  A save takes effect at one instant, only while   *)
(* the tree exists and only if the revision it was based on is the latest  *)
(* one at that instant; a success is reported only of a save that did.     *)
(***************************************************************************)
EXTENDS Integers

CONSTANTS Saves

VARIABLES
  base,      \* the revision a save was based on
  revision,  \* the revision a save produced, 0 when none
  present,   \* "yes" while the tree exists
  told       \* saves reported as successful

vars == <<base, revision, present, told>>

IsLatest(n) ==
  /\ \A s \in Saves : revision[s] <= n
  /\ n # 0 => \E s \in Saves : revision[s] = n

Init ==
  /\ base \in [Saves -> Nat]
  /\ revision = [s \in Saves |-> 0]
  /\ present = "yes"
  /\ told = {}

CompareAndSet(s) ==
  /\ present = "yes"
  /\ revision[s] = 0
  /\ IsLatest(base[s])
  /\ revision' = [revision EXCEPT ![s] = base[s] + 1]
  /\ UNCHANGED <<base, present, told>>

Tell(s) ==
  /\ revision[s] # 0 \/ present = "no"
  /\ told' = told \cup {s}
  /\ UNCHANGED <<base, revision, present>>

\* Deleting the tree deletes its layouts.
Delete ==
  /\ present = "yes"
  /\ present' = "no"
  /\ revision' = [s \in Saves |-> 0]
  /\ UNCHANGED <<base, told>>

Next == Delete \/ \E s \in Saves : CompareAndSet(s) \/ Tell(s)

Spec == Init /\ [][Next]_vars
=============================================================================
