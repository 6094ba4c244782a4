---------------------------- MODULE AtomicForest ----------------------------
(***************************************************************************)
(* What the four writers of memories promise: each request takes effect at *)
(* one instant or not at all, on a forest that it finds whole and leaves   *)
(* whole.  A success is reported only of a request that took effect, and a *)
(* refusal only of one that never will.                                    *)
(***************************************************************************)

CONSTANTS Trees, Owner, Seeds, Requests, Forests, Scenarios

VARIABLES
  rows,   \* the trees and memories, as in MemoryForest
  call,   \* what a request asks for
  stage,  \* "open", "done", "answered", "refused" or "over"
  result  \* the memory that a creation made or found

vars == <<rows, call, stage, result>>

Memories == Seeds \cup Requests
Objects  == Memories \cup Trees

Absent == [tree |-> "absent", parent |-> "none", key |-> "none"]

Init ==
  /\ \E forest \in Forests :
       rows = [o \in Objects |->
                 IF o \in Trees THEN [tree |-> o, parent |-> "none", key |-> "none"]
                 ELSE IF o \in Seeds THEN forest[o] ELSE Absent]
  /\ call \in Scenarios
  /\ stage = [r \in Requests |-> "open"]
  /\ result = [r \in Requests |-> "none"]

-----------------------------------------------------------------------------
Living == {m \in Memories : rows[m] # Absent}

Owns(r, t) == rows[t] # Absent /\ Owner[t] = call[r].actor

\* p may be the parent of a memory of tree t.
Fits(p, t) == p = "none" \/ (p \in Living /\ rows[p].tree = t)

\* m is neither p nor above it: p and all that is above it are in a set without m.
NotAbove(m, p) ==
  \/ p = "none"
  \/ \E S \in SUBSET Memories :
       /\ p \in S /\ m \notin S
       /\ \A n \in S \cap Living : rows[n].parent \in S \cup {"none"}

\* The memories of the tree of r that have the client key of r.
Namesakes(r) == {m \in Living : /\ call[r].key # "none" /\ rows[m].key = call[r].key
                                /\ rows[m].tree = call[r].of}

Create(r) ==
  LET ask == call[r] IN
  /\ ask.op = "create" /\ Owns(r, ask.of)
  /\ rows[r] = Absent /\ Namesakes(r) = {}
  /\ Fits(ask.parent, ask.of)
  /\ rows' = [rows EXCEPT ![r] = [tree |-> ask.of, parent |-> ask.parent, key |-> ask.key]]

\* The client key has been used: the creation returns that memory.
Find(r, m) ==
  /\ call[r].op = "create" /\ Owns(r, call[r].of)
  /\ m \in Namesakes(r)
  /\ UNCHANGED rows

Move(r) ==
  LET ask == call[r] IN
  /\ ask.op = "update" /\ ask.of \in Living /\ Owns(r, rows[ask.of].tree)
  /\ Fits(ask.parent, rows[ask.of].tree) /\ NotAbove(ask.of, ask.parent)
  /\ rows' = [rows EXCEPT ![ask.of].parent = ask.parent]

\* The children of a memory that goes become roots; nothing else changes.
Remove(r) ==
  LET m == call[r].of IN
  /\ call[r].op = "delete" /\ m \in Living /\ Owns(r, rows[m].tree)
  /\ rows' = [o \in Objects |->
                IF o = m THEN Absent
                ELSE IF rows[o].parent = m THEN [rows[o] EXCEPT !.parent = "none"]
                ELSE rows[o]]

\* A tree goes with its memories; nothing else changes.
Drop(r) ==
  /\ call[r].op = "drop" /\ Owns(r, call[r].of)
  /\ rows' = [o \in Objects |-> IF rows[o].tree = call[r].of THEN Absent ELSE rows[o]]

-----------------------------------------------------------------------------
\* r takes effect, and returns m if it is a creation.
Effect(r, m) ==
  \/ m = r /\ Create(r)
  \/ Find(r, m)
  \/ m = "none" /\ (Move(r) \/ Remove(r) \/ Drop(r))

Enter(r, s, m) ==
  /\ stage' = [stage EXCEPT ![r] = s]
  /\ result' = [result EXCEPT ![r] = m]
  /\ UNCHANGED call

\* The effect of r; its caller may never hear of it.
Perform(r) ==
  /\ stage[r] = "open"
  /\ \E m \in Memories \cup {"none"} :
       Effect(r, m) /\ (Enter(r, "done", m) \/ Enter(r, "over", "none"))

Answer(r) == stage[r] = "done" /\ Enter(r, "answered", result[r]) /\ UNCHANGED rows

Refuse(r) == stage[r] = "open" /\ Enter(r, "refused", "none") /\ UNCHANGED rows

\* r ends without an effect, or without an answer.
Lose(r) ==
  stage[r] \in {"open", "done"} /\ Enter(r, "over", "none") /\ UNCHANGED rows

Next ==
  \E r \in Requests :
    /\ stage'[r] # stage[r]
    /\ Perform(r) \/ Answer(r) \/ Refuse(r) \/ Lose(r)

Spec == Init /\ [][Next]_vars
=============================================================================
