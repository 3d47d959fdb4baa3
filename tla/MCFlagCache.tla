---------------------------- MODULE MCFlagCache ----------------------------
(* The flagged listing cache for TLC: two comments under the page of the     *)
(* listing, c0 there from the start and c1 posted, and c2 under another      *)
(* page, whose poster stores the same flag.                                  *)
EXTENDS FlagCache, TLC

CONSTANTS c0, c1, c2, d1, d2, r1, r2

MCDirOf == (c0 :> d1) @@ (c1 :> d1) @@ (c2 :> d2)
\* Nothing tells the requests apart.
RequestSymmetry == Permutations({r1, r2})
=============================================================================
