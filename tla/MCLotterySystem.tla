-------------------------- MODULE MCLotterySystem --------------------------
(***************************************************************************)
(* Instances of LotterySystem for TLC.                                     *)
(***************************************************************************)
EXTENDS LotteryRefinement, TLC

\* A reading of the replica's clock with nanoseconds to lose.
MCAppTimes == {1001}

Symmetry == Permutations(Workers) \cup Permutations(Users)
=============================================================================
