-------------------------- MODULE MCTodayMarketPage --------------------------
(* Instances of TodayMarketPage for TLC.                                   *)
EXTENDS TodayMarketPage, TLC

CONSTANTS x1, x2, p1, r1, r2, r3, r4, r5

RequestSymmetry == Permutations({r1, r2, r3, r4, r5})

=============================================================================
