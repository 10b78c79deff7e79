-------------------------- MODULE LotteryAlgorithm --------------------------
(***************************************************************************)
(* SelectWinners and FairShuffle of internal/lottery/algorithm.go, one     *)
(* swap at a time.  Go indexes from 0 and TLA+ sequences from 1: result[i] *)
(* of the code is result[i + 1] here.                                      *)
(***************************************************************************)
EXTENDS Ranking

CONSTANTS
  People,   \* the user ids
  Pools,    \* the participant lists that a draw may fetch
  Counts    \* the winner counts it may be called with

ASSUME PoolsAssumption ==
  /\ Counts \subseteq Int
  /\ Pools \subseteq Seq(People)
  /\ \A s \in Pools : \A a, b \in DOMAIN s : s[a] = s[b] => a = b

VARIABLES
  pool,      \* participants
  count,     \* the number of winners asked for
  result,    \* the copy that is shuffled
  i,         \* the loop variable
  picks,     \* the random numbers drawn so far
  out,       \* "running", "done" or "error"
  winners,
  waitlist

algorithmVars == <<pool, count, result, i, picks, out, winners, waitlist>>

\* The call: the early returns of SelectWinners, then the copy.
InitAlgorithm ==
  /\ pool \in Pools
  /\ count \in Counts
  /\ result = pool
  /\ i = Len(pool) - 1
  /\ picks = <<>>
  /\ out = IF pool = <<>> \/ count < 1 THEN "error" ELSE "running"
  /\ winners = <<>>
  /\ waitlist = <<>>

\* Variant: the loop runs once more.
UnfinishedLong(k) == k >= 0

\* The loop condition of FairShuffle.
Unfinished(k) == k > 0

\* Variant: rand.Int is asked for a number below i, so i itself never comes.
RangeShort(k) == 0..(k - 1)

\* The numbers rand.Int(rand.Reader, i+1) can return.
RandRange(k) == 0..k

\* Variant: one of the two assignments of the swap is lost.
SwapHalf(s, a, b) == [s EXCEPT ![a + 1] = s[b + 1]]

Swap(s, a, b) == [s EXCEPT ![a + 1] = s[b + 1], ![b + 1] = s[a + 1]]

\* One iteration of the loop of FairShuffle.
Iterate ==
  /\ out = "running" /\ Unfinished(i)
  /\ \E j \in RandRange(i) :
       /\ result' = Swap(result, i, j)
       /\ picks' = Append(picks, j)
  /\ i' = i - 1
  /\ UNCHANGED <<pool, count, out, winners, waitlist>>

\* crypto/rand fails: no draw, and no weaker source.
RandFails ==
  /\ out = "running" /\ Unfinished(i)
  /\ out' = "error"
  /\ UNCHANGED <<pool, count, result, i, picks, winners, waitlist>>

\* The split of SelectWinners.
Split ==
  /\ out = "running" /\ ~Unfinished(i)
  /\ winners' = Winners(result, count)
  /\ waitlist' = Waitlist(result, count)
  /\ out' = "done"
  /\ UNCHANGED <<pool, count, result, i, picks>>

NextAlgorithm == Iterate \/ RandFails \/ Split

SpecAlgorithm == InitAlgorithm /\ [][NextAlgorithm]_algorithmVars

-----------------------------------------------------------------------------
Members == {pool[k] : k \in DOMAIN pool}

\* The random numbers that lead from the list s to the ranking r: at each
\* step, where the member that ends up at place k is just then.
Picks[s \in Seq(People), r \in Seq(People), k \in Nat] ==
  IF k = 0 THEN <<>>
  ELSE LET j == CHOOSE j \in 0..k : s[j + 1] = r[k + 1]
       IN  <<j>> \o Picks[Swap(s, k, j), r, k - 1]

\* The types, and the range of the loop variable.
AlgorithmTypeOK ==
  /\ pool \in Pools /\ count \in Counts
  /\ result \in [DOMAIN pool -> Members]
  /\ i \in Int /\ i < Len(pool) /\ (out = "running" => i >= 0)
  /\ picks \in Seq(Nat)
  /\ out \in {"running", "done", "error"}
  /\ winners \in Seq(Members) /\ waitlist \in Seq(Members)

\* The split gives every participant one place: winners and waitlist together
\* rank all of them once, and there are as many winners as asked for, or as
\* there are participants.
EveryoneRankedOnce ==
  out = "done" =>
    /\ winners \o waitlist \in Orderings(Members)
    /\ Len(winners) = IF count < Len(pool) THEN count ELSE Len(pool)

\* Every member still unplaced may be picked for place i, and each ranking
\* comes from exactly one sequence of random numbers, which can be read off it.
\* There are then n! sequences and n! rankings, and uniform numbers make every
\* ranking equally likely.
ShuffleIsUniform ==
  /\ out = "running" =>
       \A j \in 0..i : i > 0 => ENABLED (Iterate /\ picks' = Append(picks, j))
  /\ out = "done" =>
       /\ Len(picks) = Len(pool) - 1
       /\ \A k \in DOMAIN picks : picks[k] \in 0..(Len(pool) - k)
       /\ picks = Picks[pool, result, Len(pool) - 1]
=============================================================================
