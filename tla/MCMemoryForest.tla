--------------------------- MODULE MCMemoryForest ---------------------------
(***************************************************************************)
(* MemoryForest for TLC, on two kinds of instances.  Reshaping starts from *)
(* the forests of three seeds in one tree and pits two moves against a     *)
(* deletion.  Growing starts from a seed in each of two trees and pits two *)
(* creations against a deletion.                                           *)
(***************************************************************************)
EXTENDS MemoryForest, TLC

CONSTANTS owner, stranger, r1, r2, r3, t1, t2, a, b, c, k1, k2

MCOwner == [t \in Trees |-> owner]

Row(t, m, k) == [tree |-> t, parent |-> m, key |-> k]

-----------------------------------------------------------------------------
\* Up to the names of the seeds: three roots, a child, two children, a chain.
Shapes == {[m \in Seeds |-> "none"],
           (a :> "none" @@ b :> a @@ c :> "none"),
           (a :> "none" @@ b :> a @@ c :> a),
           (a :> "none" @@ b :> a @@ c :> b)}

Reshaped == {[m \in Seeds |-> Row(t1, f[m], "none")] : f \in Shapes}

Moves == {s \in Calls : s.op = "update" /\ s.actor = owner /\ s.of \in Seeds
                        /\ s.parent \in Seeds \cup {"none"}}
Removals == {s \in Calls : s.op \in {"delete", "drop"} /\ s.actor = owner
                           /\ s.of \in Seeds \cup {t1}}

Rank == [m \in Seeds |-> CASE m = a -> 1 [] m = b -> 2 [] m = c -> 3]
Order(s) == 3 * Rank[s.of] + Rank[s.parent]

\* The two moves differ, and are interchangeable: they are taken in one order.
Reshaping == {s \in [Requests -> Moves \cup Removals] :
                /\ {s[r1], s[r2]} \subseteq {m \in Moves : m.parent \notin {"none", m.of}}
                /\ Order(s[r1]) < Order(s[r2])
                /\ s[r3] \in Removals}

-----------------------------------------------------------------------------
\* Both trees have a seed with the same client key; c is a bystander.
Roots == {[m \in Seeds |-> Row(IF m = a THEN t1 ELSE t2, "none",
                               IF m = c THEN "none" ELSE k1)]}

\* The creations share a key, a parent, or name the other's memory as a parent.
Creations == {s \in Calls : s.op = "create" /\ s.of = t1
                            /\ s.parent \in {a, b, r1, "none"}
                            /\ (s.actor = stranger => s.parent = "none" /\ s.key = "none")}

Cuts == {s \in Calls : s.op \in {"delete", "drop"} /\ s.actor = owner
                       /\ s.of \in {a, r1, t1}}

\* The creations meet: they have the same key, or one is under the memory of the other.
\* Those that nothing refers to are interchangeable: they are taken in the order of
\* their parents.
Growing == {s \in [Requests -> Creations \cup Cuts] :
              /\ {s[r1], s[r2]} \subseteq Creations /\ s[r1].parent # r1 /\ s[r3] \in Cuts
              /\ s[r1].key = s[r2].key \/ s[r2].parent = r1
              /\ \/ r1 \in {s[r2].parent, s[r3].of}
                 \/ /\ s[r2].parent = a => s[r1].parent = a
                    /\ s[r1].parent = "none" => s[r2].parent = "none"}

-----------------------------------------------------------------------------
MCForests   == Reshaped \cup Roots
MCScenarios == Reshaping \cup Growing

\* Roots, or siblings, without children are interchangeable.
Twins(m, n) == /\ rows[m].parent = rows[n].parent
               /\ \A o \in Seeds : rows[o].parent \notin {m, n}

\* Of interchangeable seeds the first is deleted.  The deletion of the tree takes every
\* memory, so it is pitted against the chain only, where each has a parent or a child.
MCInit == /\ Init
          /\ (call \in Reshaping) <=> ([m \in Seeds |-> rows[m]] \in Reshaped)
          /\ call \in Reshaping =>
               IF call[r3].op = "drop" THEN rows[c].parent = b
               ELSE \A m \in Seeds : Twins(m, call[r3].of) => Rank[call[r3].of] <= Rank[m]

MCSpec == MCInit /\ [][Next]_vars
=============================================================================
