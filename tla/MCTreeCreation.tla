--------------------------- MODULE MCTreeCreation ---------------------------
(***************************************************************************)
(* TreeCreation for TLC: two requests of one owner or of two, on a source  *)
(* of three memories of which two may be copied.                           *)
(***************************************************************************)
EXTENDS TreeCreation, TLC

\* Two forks, two private creations or a fork beside a private creation; a public
\* creation is one without its first statement.  Owners are new only where that
\* changes what their bootstrap locks.  The requests of two owners share no lock
\* that they would wait for, so they start from one source only.  Every memory is a
\* root, or hangs under the one before it, or under the one after it; moves do the rest.
MCInit ==
  /\ Init
  /\ \A r \in Requests : Op(r) # "public"
  /\ stamped => users = Owners
  /\ entitled \subseteq {owner(r) : r \in {q \in Requests : Op(q) = "private"}}
  /\ shown \in {1..MaxCopied, Memories}
  /\ parent \in {[m \in Memories |-> Root], [m \in Memories |-> m - 1],
                 [m \in Memories |-> (m + 1) % (Size + 1)]}
  /\ \/ \A p, q \in Requests : owner(p) = owner(q)
     \/ stamped /\ shown # Memories /\ parent = [m \in Memories |-> Root]

MCSpec == MCInit /\ [][Next]_vars

\* Memories are ordered by their age; owners and requests are interchangeable.
Symmetry == Permutations(Owners) \cup Permutations(Requests)
=============================================================================
