------------------------------ MODULE Ranking ------------------------------
(***************************************************************************)
(* The outcome of a draw as a value: a ranking of the participants, split  *)
(* into winners and waitlist.                                              *)
(***************************************************************************)
EXTENDS Integers, FiniteSets, Sequences

\* The results of a shuffle of S.
Orderings(S) ==
  {s \in [1..Cardinality(S) -> S] :
      \A i, j \in 1..Cardinality(S) : s[i] = s[j] => i = j}

\* Variant: the last winner goes missing.
WinnersShort(s, count) == IF count >= Len(s) THEN s ELSE SubSeq(s, 1, count - 1)

\* The split of SelectWinners, into winners and waitlist.
Winners(s, count) ==
  IF count >= Len(s) THEN s ELSE SubSeq(s, 1, count)
Waitlist(s, count) ==
  IF count >= Len(s) THEN <<>> ELSE SubSeq(s, count + 1, Len(s))
=============================================================================
