------------------------- MODULE MCRefreshCoordinator -------------------------
(* Instances of RefreshCoordinator for TLC.                                *)
EXTENDS RefreshCoordinator, TLC

CONSTANTS x1, x2, r1, r2, r3, r4, r5

RequestSymmetry == Permutations({r1, r2, r3, r4, r5})

=============================================================================
