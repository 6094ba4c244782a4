--------------------------- MODULE MCCommentWrite ---------------------------
(***************************************************************************)
(* CommentWrite for TLC, one configuration per question.  The two requests *)
(* can be the owner's or a visitor's, share a route, a target, a key, a    *)
(* body, a scope or none of them, and there is one slot left.              *)
(***************************************************************************)
EXTENDS CommentWrite, TLC

\* Owner is a fixed actor and minutes are ordered; everything else is symmetric.
Symmetry == Permutations(Trees) \cup Permutations(Memories)
            \cup Permutations(Bodies) \cup Permutations(Keys)
            \cup Permutations(Requests)
=============================================================================
