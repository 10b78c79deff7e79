------------------------------ MODULE FifoLine ------------------------------
(***************************************************************************)
(* What the gates of gate.go promise: per key one line of processes, whose *)
(* first one is inside.  A newcomer joins at the end, a process that waits *)
(* may give up, and only the first one leaves after its turn.              *)
(***************************************************************************)
EXTENDS Integers, Sequences

CONSTANTS Keys, Procs
VARIABLE line

InLine(p) == \E k \in Keys : \E i \in 1..Len(line[k]) : line[k][i] = p

Join(p, k) ==
  /\ ~InLine(p)
  /\ line' = [line EXCEPT ![k] = Append(@, p)]

Without(s, i) == SubSeq(s, 1, i - 1) \o SubSeq(s, i + 1, Len(s))

GiveUp(k) ==
  \E i \in 2..Len(line[k]) : line' = [line EXCEPT ![k] = Without(@, i)]

Depart(k) ==
  /\ line[k] # <<>>
  /\ line' = [line EXCEPT ![k] = Tail(@)]

Init == line = [k \in Keys |-> <<>>]

Next ==
  \E k \in Keys : Depart(k) \/ GiveUp(k) \/ \E p \in Procs : Join(p, k)

Spec == Init /\ [][Next]_line
=============================================================================
