---------------------------- MODULE MCBookingPath ----------------------------
(***************************************************************************)
(* Instances of BookingPath for TLC: two replicas, a with two goroutines   *)
(* and b with one.                                                         *)
(***************************************************************************)
EXTENDS BookingPath, TLC

CONSTANTS p1, p2, p3

MCKeys == Replicas \X Events
MCHome == [p \in Procs |-> IF p = p3 THEN "b" ELSE "a"]
Symmetry == Permutations({p1, p2}) \cup Permutations(Gates) \cup Permutations(Tokens)
=============================================================================
