------------------------- MODULE MCCommentPublisher -------------------------
(***************************************************************************)
(* Small instances of CommentPublisher for TLC.  Nothing in the module     *)
(* tells one verdict from the other.                                       *)
(***************************************************************************)
EXTENDS CommentPublisher, TLC

Symmetry == Permutations(Verdicts)
=============================================================================
