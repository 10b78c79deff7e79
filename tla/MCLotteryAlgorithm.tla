------------------------- MODULE MCLotteryAlgorithm -------------------------
(***************************************************************************)
(* Instances of LotteryAlgorithm for TLC: the pools of up to MaxPool       *)
(* participants, in the order the query returned them.                     *)
(***************************************************************************)
EXTENDS LotteryAlgorithm

CONSTANT MaxPool

MCPeople == 1..MaxPool
MCPools == {[k \in 1..n |-> k] : n \in 0..MaxPool}
MCCounts == 0..(MaxPool + 1)
=============================================================================
