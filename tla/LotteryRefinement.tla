------------------------- MODULE LotteryRefinement -------------------------
(***************************************************************************)
(* The system as an implementation of EventLifecycle: the tables are the   *)
(* abstract state, with the ranking of an event read off its audit rows.   *)
(***************************************************************************)
EXTENDS LotteryInvariant

Lifecycle ==
  INSTANCE EventLifecycle
    WITH Row <- EventRow, outcome <- [e \in EventIds |-> UsersOf(draws[e])]

\* Transactions, locks, replicas and failures do not show: whatever runs at the
\* same time and fails in the middle, the committed tables change by whole
\* operations of the lifecycle that the README of the repository draws.
Promised == Lifecycle!Spec
=============================================================================
