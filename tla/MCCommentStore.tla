--------------------------- MODULE MCCommentStore ---------------------------
(* The comment store for TLC; the constants are in the .cfg files. *)
EXTENDS CommentStore
=============================================================================
