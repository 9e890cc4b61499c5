--------------------------- MODULE MCCommentSync ---------------------------
(***************************************************************************)
(* Instances of CommentSync for TLC, and a claim the documentation of the  *)
(* repository makes that the code does not keep.                           *)
(***************************************************************************)
EXTENDS CommentSync, TLC

CONSTANTS c1, c2, c3, r1

\* Sound for what holds in every state: workers are alike, and so are the two
\* dated comments that nobody answers.
Symmetry == Permutations(Worker) \cup Permutations({c2, c3})

OneThread ==
    [c \in Comment |-> IF c = r1 THEN c1 ELSE NoComment]

-----------------------------------------------------------------------------
\* yehub-be/docs/polling.md has replies find parents stored in earlier runs.
\* No adapter returns a reply whose parent is not newer than the cursor.
RepliesArrive ==
    []<><<\E w \in Worker : Finish(w)>>_vars =>
        \A c \in Replies : Visible(c) ~> Stored(c)
=============================================================================
