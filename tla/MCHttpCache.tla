---------------------------- MODULE MCHttpCache ----------------------------
(* The page caches for TLC. *)
EXTENDS HttpCache, TLC

CONSTANTS w1, w2

\* Nothing tells the workers apart.
WorkerSymmetry == Permutations({w1, w2})
=============================================================================
