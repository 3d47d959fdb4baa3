----------------------------- MODULE MCPrefork -----------------------------
(***************************************************************************)
(* Small pools for TLC.                                                    *)
(***************************************************************************)
EXTENDS PreforkInv, TLC

BothStops == {"SHUTDOWN", "CLEANDOWN"}
CleanStop == {"CLEANDOWN"}
NoStops   == {}

Symmetry == Permutations(Workers)
=============================================================================
