----------------------------- MODULE EventGates -----------------------------
(***************************************************************************)
(* The in-process FIFO gates of internal/booking/gate.go.                  *)
(*                                                                         *)
(* A gate is a heap object with a channel of capacity 1 and a reference    *)
(* count; the map m finds the gate of an event.  A key is an event of one  *)
(* replica.  The parts of enter and release that run under the mutex mu    *)
(* are one step each; everything between them is open to other goroutines. *)
(* A channel operation is one step: the runtime queues blocked senders and *)
(* a receive from a full channel hands the slot to the oldest one.         *)
(***************************************************************************)
EXTENDS Integers, FiniteSets, Sequences

CONSTANTS
  Keys,     \* events, of each replica
  Procs,    \* goroutines that serve a booking
  Gates,    \* addresses of gate objects
  Nil       \* the nil pointer

ASSUME GateAssumption ==
  /\ IsFiniteSet(Procs)
  /\ Nil \notin Gates \cup Keys

VARIABLES
  m,      \* the map from keys to gates
  refs,   \* gate.refs
  slot,   \* whether the channel gate.slot is full
  queue,  \* the senders blocked on gate.slot, oldest first
  at,     \* where each goroutine is
  key,    \* the key it entered with
  gt      \* the gate pointer it holds

gateVars == <<m, refs, slot, queue, at, key, gt>>

Stages == {"out", "select", "blocked", "inside", "leaving", "timedOut"}

\* A gate object that nothing points to is garbage and its address is free.
Fresh == {g \in Gates : (\A k \in Keys : m[k] # g) /\ (\A p \in Procs : gt[p] # g)}

\* Variant: a goroutine that finds a gate does not count its reference.
CountedNot(g) == refs

\* One more reference to gate g.
Counted(g) == [refs EXCEPT ![g] = @ + 1]

\* enter up to the select: find or make the gate, count the reference.
Enter(p, k) ==
  /\ at[p] = "out"
  /\ \/ /\ m[k] # Nil
        /\ refs' = Counted(m[k])
        /\ gt' = [gt EXCEPT ![p] = m[k]]
        /\ UNCHANGED <<m, slot, queue>>
     \/ /\ m[k] = Nil
        /\ \E g \in Fresh :
             /\ m' = [m EXCEPT ![k] = g]
             /\ refs' = [refs EXCEPT ![g] = 1]
             /\ slot' = [slot EXCEPT ![g] = FALSE]
             /\ queue' = [queue EXCEPT ![g] = <<>>]
             /\ gt' = [gt EXCEPT ![p] = g]
  /\ key' = [key EXCEPT ![p] = k]
  /\ at' = [at EXCEPT ![p] = "select"]

\* The runtime appends a blocked sender to the queue of the channel.
Block(s, p) == Append(s, p)

\* The select tries to send: into the free slot, or to the end of the queue.
Send(p) ==
  LET g == gt[p]
  IN  /\ at[p] = "select"
      /\ \/ /\ ~slot[g]
            /\ slot' = [slot EXCEPT ![g] = TRUE]
            /\ at' = [at EXCEPT ![p] = "inside"]
            /\ UNCHANGED queue
         \/ /\ slot[g]
            /\ queue' = [queue EXCEPT ![g] = Block(@, p)]
            /\ at' = [at EXCEPT ![p] = "blocked"]
            /\ UNCHANGED slot
      /\ UNCHANGED <<m, refs, key, gt>>

\* The list s without its i-th element.  (RemoveAt of SequencesExt, whose many
\* definitions would slow down every step of the proofs about this module.)
Without(s, i) == SubSeq(s, 1, i - 1) \o SubSeq(s, i + 1, Len(s))

\* ctx.Done() is ready: the select takes it, even if the slot is free too,
\* and a blocked sender leaves the queue.
TimeOut(p) ==
  LET g == gt[p]
  IN  /\ \/ /\ at[p] = "select"
            /\ UNCHANGED queue
         \/ /\ at[p] = "blocked"
            /\ \E i \in DOMAIN queue[g] :
                 /\ queue[g][i] = p
                 /\ queue' = [queue EXCEPT ![g] = Without(@, i)]
      /\ at' = [at EXCEPT ![p] = "timedOut"]
      /\ UNCHANGED <<m, refs, slot, key, gt>>

\* The sender that a receive from a full channel completes, if there is one.
Woken(s) == IF s = <<>> THEN {} ELSE {Head(s)}

\* Variant: the leave function only calls release, without the receive.
LeaveSlotFull(p) ==
  /\ at[p] = "inside"
  /\ at' = [at EXCEPT ![p] = "leaving"]
  /\ UNCHANGED <<m, refs, slot, queue, key, gt>>

\* The receive of the leave function: the oldest blocked sender completes.
Leave(p) ==
  LET g == gt[p]
      next == Woken(queue[g])
  IN  /\ at[p] = "inside"
      /\ slot[g]
      /\ slot' = [slot EXCEPT ![g] = next # {}]
      /\ queue' = [queue EXCEPT ![g] = IF next = {} THEN @ ELSE Tail(@)]
      /\ at' = [q \in Procs |-> IF q = p THEN "leaving"
                               ELSE IF q \in next THEN "inside" ELSE at[q]]
      /\ UNCHANGED <<m, refs, key, gt>>

\* Variant: the map entry of an idle gate stays.
UnlinkNever(k, g) == m

\* Variant: the map entry goes with any of the references.
UnlinkAlways(k, g) == [m EXCEPT ![k] = Nil]

\* The map after one of the references to gate g of key k is gone.
Unlink(k, g) == IF refs[g] = 1 THEN [m EXCEPT ![k] = Nil] ELSE m

\* release: forget the reference, and the map entry with the last one.
release(p) ==
  LET g == gt[p]
  IN  /\ at[p] \in {"leaving", "timedOut"}
      /\ refs' = [refs EXCEPT ![g] = @ - 1]
      /\ m' = Unlink(key[p], g)
      /\ at' = [at EXCEPT ![p] = "out"]
      /\ gt' = [gt EXCEPT ![p] = Nil]
      /\ key' = [key EXCEPT ![p] = Nil]
      /\ UNCHANGED <<slot, queue>>

InitGates ==
  /\ m = [k \in Keys |-> Nil]
  /\ refs = [g \in Gates |-> 0]
  /\ slot = [g \in Gates |-> FALSE]
  /\ queue = [g \in Gates |-> <<>>]
  /\ at = [p \in Procs |-> "out"]
  /\ key = [p \in Procs |-> Nil]
  /\ gt = [p \in Procs |-> Nil]

NextGates ==
  \E p \in Procs :
    \/ \E k \in Keys : Enter(p, k)
    \/ Send(p) \/ TimeOut(p) \/ Leave(p) \/ release(p)

SpecGates == InitGates /\ [][NextGates]_gateVars

\* A goroutine that can run does run, and whoever is inside leaves: the
\* transaction ends with its request's context.  No deadline is assumed.
FairGates ==
  \A p \in Procs : WF_gateVars(Send(p)) /\ WF_gateVars(Leave(p)) /\ WF_gateVars(release(p))

FairSpecGates == SpecGates /\ FairGates

-----------------------------------------------------------------------------
\* Every variable has its type; in particular no reference count of gate.go goes
\* below 0.
GatesTypeOK ==
  /\ m \in [Keys -> Gates \cup {Nil}]
  /\ refs \in [Gates -> Nat]
  /\ slot \in [Gates -> BOOLEAN]
  /\ queue \in [Gates -> Seq(Procs)]
  /\ at \in [Procs -> Stages]
  /\ key \in [Procs -> Keys \cup {Nil}]
  /\ gt \in [Procs -> Gates \cup {Nil}]

Inside(k) == {p \in Procs : at[p] = "inside" /\ key[p] = k}
Pointing(g) == {p \in Procs : gt[p] = g}

\* At most one goroutine is past the gate of an event, although gates are
\* deleted and made anew while requests come and go.
OneInside ==
  \A p, q \in Procs :
    at[p] = "inside" /\ at[q] = "inside" /\ key[p] = key[q] => p = q

\* The reference counts are exact and the map holds exactly the gates in use:
\* a deleted gate has no goroutine left on it, delete never removes the gate
\* of somebody else, and an idle gate is not leaked.
GatesInUse ==
  /\ \A p \in Procs : at[p] # "out" => m[key[p]] = gt[p]
  /\ \A k \in Keys : m[k] # Nil =>
       /\ refs[m[k]] = Cardinality(Pointing(m[k]))
       /\ refs[m[k]] > 0

\* The slot is taken exactly when somebody is inside, and nobody waits for a
\* slot that is free: the receive of leave never blocks, and no wake-up is lost.
SlotIsOwned ==
  \A k \in Keys : m[k] # Nil =>
    /\ slot[m[k]] <=> Inside(k) # {}
    /\ queue[m[k]] # <<>> => slot[m[k]]

\* The line in front of each event: who is inside, then who waits.
Line(k) ==
  IF m[k] = Nil THEN <<>>
  ELSE IF Inside(k) = {} THEN queue[m[k]]
  ELSE <<CHOOSE p \in Inside(k) : TRUE>> \o queue[m[k]]

\* What the gates promise: the lines of FifoLine.
Fifo == INSTANCE FifoLine WITH line <- [k \in Keys |-> Line(k)]
FirstComeFirstServed == Fifo!Spec

\* A request that waits at the gate of an event gets in or gives up, however
\* many requests come after it.
NobodyStarves ==
  \A p \in Procs : at[p] \in {"select", "blocked"} ~> at[p] \in {"inside", "timedOut"}
=============================================================================
