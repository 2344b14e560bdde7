--------------------------- MODULE MC_FeeSolver ----------------------------
(* Instantiation of FeeSolver for TLC: a pool of up to four coins whose    *)
(* values straddle the fee (weight 4 per output, base fee 1), amounts that *)
(* need one to four coins, and output caps below the pool size so that the *)
(* sliding window and the soft-limit fallback are both exercised.          *)
EXTENDS FeeSolver

MCValues       == {1, 3, 8}
MCAmounts      == {0, 1, 6, 13}
MCCaps         == {1, 2}
MCCapsZero     == {0, 1, 2, 3}
MCChangeCounts == {1}
MCChangeCountsAll == {1, 2, 3}
MCTokenLegs    == {0, 2}
MCAmountsLive  == {6, 13}
MCTokenLegsLive == {0}
=============================================================================
