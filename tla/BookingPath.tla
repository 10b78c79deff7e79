----------------------------- MODULE BookingPath -----------------------------
(***************************************************************************)
(* BookWithLock of internal/booking/service.go, on several replicas that   *)
(* share one Redis: the FIFO gate of the replica, then the Redis lock with *)
(* a token and a TTL, then createBooking, then the owner-safe release.     *)
(*                                                                         *)
(* A Redis command whose reply the client does not wait for any longer, or *)
(* that go-redis repeats, stays on the wire: Redis may still run it, at    *)
(* any later time, or never.  createBooking is one stage here; module      *)
(* Booking has its statements and does not rely on the locks taken here.   *)
(***************************************************************************)
EXTENDS EventGates

CONSTANTS
  Replicas,
  Events,
  Home,      \* the replica of each goroutine
  Tokens,    \* bound: values of newToken in use at the same time
  MayCrash   \* the replicas whose process may die

ASSUME PathAssumption ==
  /\ Keys = Replicas \X Events
  /\ Home \in [Procs -> Replicas]
  /\ MayCrash \subseteq Replicas
  /\ Nil \notin Tokens

VARIABLES
  stage,  \* what BookWithLock does once it is past the gate
  token,  \* its lock token
  held,   \* "never" locked, "held", or the TTL "expired" before the release
  lock,   \* the lock keys in Redis: the token stored under each event
  wire    \* commands Redis may still run although nobody waits for them

redisVars == <<stage, token, held, lock, wire>>
pathVars == <<gateVars, redisVars>>

EventOf(p) == key[p][2]

Command(p) == [op |-> stage[p], ev |-> EventOf(p), token |-> token[p]]

To(p, s) == stage' = [stage EXCEPT ![p] = s]

\* Variant: the release deletes the key without comparing the token.
RunNoOwner(c) ==
  lock' = [lock EXCEPT ![c.ev] =
             IF c.op = "set" THEN (IF @ = Nil THEN c.token ELSE @) ELSE Nil]

\* What Redis does with a command: SET NX, or the script luaReleaseLock.
Run(c) ==
  lock' = [lock EXCEPT ![c.ev] =
             IF c.op = "set" THEN (IF @ = Nil THEN c.token ELSE @)
                             ELSE (IF @ = c.token THEN Nil ELSE @)]

-----------------------------------------------------------------------------
Arrive(p) ==
  /\ \E e \in Events : Enter(p, <<Home[p], e>>)
  /\ UNCHANGED redisVars

\* Waiting at the gate; a time-out there is ErrEventBusy.
AtGate(p) ==
  /\ Send(p) \/ TimeOut(p) \/ release(p)
  /\ UNCHANGED redisVars

\* newToken: a value that nobody has, or an error.
newToken(p) ==
  /\ at[p] = "inside" /\ stage[p] = "none"
  /\ \/ /\ \E t \in Tokens :
             /\ \A q \in Procs : token[q] # t
             /\ \A e \in Events : lock[e] # t
             /\ \A c \in wire : c.token # t
             /\ token' = [token EXCEPT ![p] = t]
        /\ To(p, "set")
     \/ /\ To(p, "done")
        /\ UNCHANGED token
  /\ UNCHANGED <<gateVars, held, lock, wire>>

\* SET NX answers: the lock is ours, or somebody has it.
SetNX(p) ==
  /\ stage[p] = "set"
  /\ Run(Command(p))
  /\ \/ /\ lock[EventOf(p)] = Nil
        /\ To(p, "booking")
        /\ held' = [held EXCEPT ![p] = "held"]
     \/ /\ lock[EventOf(p)] # Nil
        /\ To(p, "backoff")
        /\ UNCHANGED held
  /\ UNCHANGED <<gateVars, token, wire>>

\* The timer of the backoff, or the end of waitCtx: ErrEventBusy.
Retry(p) ==
  /\ stage[p] = "backoff"
  /\ To(p, "set")
  /\ UNCHANGED <<gateVars, token, held, lock, wire>>
GiveUp(p) ==
  /\ stage[p] = "backoff"
  /\ To(p, "done")
  /\ UNCHANGED <<gateVars, token, held, lock, wire>>

\* createBooking returns, and the deferred release is next.
EndBooking(p) ==
  /\ stage[p] = "booking"
  /\ To(p, "del")
  /\ UNCHANGED <<gateVars, token, held, lock, wire>>

\* The release script answers.
ReleaseLock(p) ==
  /\ stage[p] = "del"
  /\ Run(Command(p))
  /\ To(p, "done")
  /\ UNCHANGED <<gateVars, token, held, wire>>

\* The stages that wait for a reply of Redis.
Unanswered == {"set", "del"}

\* No reply: the client sends the command again on another connection,
\* or its deadline ends the wait.
Resend(p) ==
  /\ stage[p] \in Unanswered
  /\ wire' = wire \cup {Command(p)}
  /\ UNCHANGED <<gateVars, stage, token, held, lock>>
CommandFails(p) ==
  /\ stage[p] \in Unanswered
  /\ wire' \in {wire, wire \cup {Command(p)}}
  /\ To(p, "done")
  /\ UNCHANGED <<gateVars, token, held, lock>>

\* Variant: leave is deferred only once the lock is acquired.
FinishedOwners(p) == stage[p] = "done" /\ held[p] # "never"

\* Every way out of BookWithLock past the gate runs the deferred calls.
Finished(p) == stage[p] = "done"

\* The deferred leave; the next request in line is past the gate.
LeaveGate(p) ==
  /\ Finished(p)
  /\ Leave(p)
  /\ To(p, "none")
  /\ token' = [token EXCEPT ![p] = Nil]
  /\ held' = [held EXCEPT ![p] = "never"]
  /\ UNCHANGED <<lock, wire>>

-----------------------------------------------------------------------------
\* Redis runs a command from the wire, or never receives it.
Late(c) ==
  /\ Run(c) \/ UNCHANGED lock
  /\ wire' = wire \ {c}
  /\ UNCHANGED <<gateVars, stage, token, held>>

\* The TTL of a lock key ends.
Expire(e) ==
  /\ lock[e] # Nil
  /\ lock' = [lock EXCEPT ![e] = Nil]
  /\ held' = [p \in Procs |-> IF token[p] = lock[e] /\ held[p] = "held"
                                THEN "expired" ELSE held[p]]
  /\ UNCHANGED <<gateVars, stage, token, wire>>

\* The process of a replica dies with its gates and its requests; what it
\* sent to Redis is on the wire.
Crash(a) ==
  LET dead == {p \in Procs : Home[p] = a}
      sent == {Command(p) : p \in {q \in dead : stage[q] \in Unanswered}}
      gone == {m[k] : k \in {l \in Keys : l[1] = a}}
  IN  /\ a \in MayCrash
      /\ \E p \in dead : at[p] # "out"
      /\ m' = [k \in Keys |-> IF k[1] = a THEN Nil ELSE m[k]]
      /\ at' = [p \in Procs |-> IF p \in dead THEN "out" ELSE at[p]]
      /\ key' = [p \in Procs |-> IF p \in dead THEN Nil ELSE key[p]]
      /\ gt' = [p \in Procs |-> IF p \in dead THEN Nil ELSE gt[p]]
      /\ stage' = [p \in Procs |-> IF p \in dead THEN "none" ELSE stage[p]]
      /\ token' = [p \in Procs |-> IF p \in dead THEN Nil ELSE token[p]]
      /\ held' = [p \in Procs |-> IF p \in dead THEN "never" ELSE held[p]]
      /\ wire' = wire \cup sent
      /\ slot' = [g \in Gates |-> g \notin gone /\ slot[g]]
      /\ queue' = [g \in Gates |-> IF g \in gone THEN <<>> ELSE queue[g]]
      /\ UNCHANGED <<refs, lock>>

InitPath ==
  /\ InitGates
  /\ stage = [p \in Procs |-> "none"]
  /\ token = [p \in Procs |-> Nil]
  /\ held = [p \in Procs |-> "never"]
  /\ lock = [e \in Events |-> Nil]
  /\ wire = {}

\* The steps of a request past the gate.
Inner(p) ==
  \/ newToken(p) \/ SetNX(p) \/ Retry(p) \/ GiveUp(p) \/ EndBooking(p)
  \/ ReleaseLock(p) \/ CommandFails(p) \/ LeaveGate(p)

NextPath ==
  \/ \E p \in Procs : Arrive(p) \/ AtGate(p) \/ Inner(p) \/ Resend(p)
  \/ \E c \in wire : Late(c)
  \/ \E e \in Events : Expire(e)
  \/ \E a \in Replicas : Crash(a)

SpecPath == InitPath /\ [][NextPath]_pathVars

\* Goroutines run; Redis calls end with a reply or with an error; the backoff
\* loop sees the end of waitCtx, as the select of an iteration that starts
\* after it does; commands do not stay on the wire and keys do not outlive
\* their TTL.
FairPath ==
  /\ \A p \in Procs :
       /\ WF_pathVars(AtGate(p))
       /\ WF_pathVars(Inner(p))
       /\ SF_pathVars(GiveUp(p))
  /\ WF_pathVars(\E c \in wire : Late(c))
  /\ \A e \in Events : WF_pathVars(Expire(e))

FairSpecPath == SpecPath /\ FairPath

-----------------------------------------------------------------------------
\* Two requests book the same event at the same time, on whatever replicas,
\* only if the lock of one of them expired: no crash, no repeated or late
\* command and no release by a request that lost its lock lets a second one in.
ExclusiveUntilExpiry ==
  \A p, q \in Procs :
    /\ p # q /\ stage[p] = "booking" /\ stage[q] = "booking"
    /\ EventOf(p) = EventOf(q)
    => held[p] = "expired" \/ held[q] = "expired"

\* A request that never learned that it owns the lock does not leave it
\* behind: the SET is not applied without the request knowing it.
NoUnknownOwner ==
  \A p \in Procs :
    stage[p] = "done" /\ held[p] = "never" /\ token[p] # Nil =>
      lock[EventOf(p)] # token[p]

\* Every booking request comes back, with an answer or because its process
\* died: nobody waits for ever at a gate or for a lock left behind.
EveryBookingReturns == \A p \in Procs : at[p] # "out" ~> at[p] = "out"
=============================================================================
