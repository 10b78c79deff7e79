-------------------------- MODULE BookingPathProofs --------------------------
(***************************************************************************)
(* BookWithLock on any number of replicas, goroutines and events: a crash  *)
(* of a replica leaves the gates of the others intact, and the Redis lock  *)
(* keeps bookings of an event apart until its TTL ends.                    *)
(***************************************************************************)
EXTENDS EventGatesProofs, BookingPath

\* A goroutine enters the gates of its own replica only.
HomeInv == \A p \in Procs : at[p] # "out" => key[p][1] = Home[p]

PathStages == {"none", "set", "backoff", "booking", "del", "done"}

PathTypeOK ==
  /\ stage \in [Procs -> PathStages]
  /\ token \in [Procs -> Tokens \cup {Nil}]
  /\ held \in [Procs -> {"never", "held", "expired"}]
  /\ lock \in [Events -> Tokens \cup {Nil}]
  /\ wire \subseteq [op : Unanswered, ev : Events, token : Tokens]

\* Only a goroutine past the gate has a token, and nobody else has the same.
TokenInv ==
  /\ \A p \in Procs : stage[p] # "none" => at[p] = "inside"
  /\ \A p \in Procs : stage[p] \in {"set", "backoff", "booking", "del"} => token[p] # Nil
  /\ \A p, q \in Procs : token[p] = token[q] /\ token[p] # Nil => p = q

\* A request that books has the lock until the TTL ends.
HeldLock ==
  \A p \in Procs : stage[p] = "booking" =>
    \/ held[p] = "expired"
    \/ held[p] = "held" /\ lock[EventOf(p)] = token[p]

\* Nobody is to release a lock before its owner has booked: no release with
\* its token is on the wire.
NoEarlyRelease ==
  \A p \in Procs, c \in wire :
    stage[p] \in {"set", "backoff", "booking"} => ~(c.op = "del" /\ c.token = token[p])

PathInv ==
  /\ GatesInv /\ HomeInv
  /\ PathTypeOK /\ TokenInv /\ HeldLock /\ NoEarlyRelease

-----------------------------------------------------------------------------
\* The parts of a key.
LEMMA KeyParts ==
  /\ \A k \in Keys : k[1] \in Replicas /\ k[2] \in Events
  /\ \A a \in Replicas, e \in Events : <<a, e>> \in Keys
  BY PathAssumption

\* A goroutine past the gate has a key, and so an event.
LEMMA InsideKey ==
  ASSUME PathInv, NEW p \in Procs, stage[p] # "none"
  PROVE  at[p] = "inside" /\ key[p] \in Keys /\ EventOf(p) \in Events
<1>1. at[p] = "inside" /\ key[p] \in Keys
  BY DEF PathInv, TokenInv, GatesInv, HeldInv
<1>2. QED BY <1>1, KeyParts DEF EventOf

\* The steps past the gate do not touch the gates, except the deferred leave.
LEMMA InnerSteps ==
  ASSUME NEW p \in Procs, Inner(p) \/ Resend(p)
  PROVE  LeaveGate(p) \/ UNCHANGED gateVars
  BY DEF Inner, Resend, newToken, SetNX, Retry, GiveUp, EndBooking, ReleaseLock,
         CommandFails

\* A crash takes the gates of one replica away and leaves the others alone.
LEMMA CrashKeepsGates ==
  ASSUME GatesInv, HomeInv, NEW a \in Replicas, Crash(a)
  PROVE  GatesInv' /\ HomeInv'
<1> DEFINE dead == {p \in Procs : Home[p] = a}
           gone == {m[k] : k \in {l \in Keys : l[1] = a}}
<1>1. /\ m' = [k \in Keys |-> IF k[1] = a THEN Nil ELSE m[k]]
      /\ at' = [p \in Procs |-> IF p \in dead THEN "out" ELSE at[p]]
      /\ key' = [p \in Procs |-> IF p \in dead THEN Nil ELSE key[p]]
      /\ gt' = [p \in Procs |-> IF p \in dead THEN Nil ELSE gt[p]]
      /\ slot' = [g \in Gates |-> g \notin gone /\ slot[g]]
      /\ queue' = [g \in Gates |-> IF g \in gone THEN <<>> ELSE queue[g]]
      /\ refs' = refs
  BY DEF Crash
<1>2. GatesTypeOK /\ HeldInv /\ OneKey /\ Counts /\ Owners /\ Queues
  BY DEF GatesInv
<1>3. ASSUME NEW p \in Procs, at[p] # "out"
      PROVE  /\ key[p] \in Keys /\ gt[p] \in Gates /\ m[key[p]] = gt[p] /\ gt[p] # Nil
             /\ gt[p] \in gone <=> p \in dead
  <2>1. key[p] \in Keys /\ gt[p] \in Gates /\ m[key[p]] = gt[p] /\ key[p][1] = Home[p]
    BY <1>2, <1>3 DEF HeldInv, HomeInv
  <2>2. gt[p] # Nil
    BY <2>1, GateAssumption
  <2>3. gt[p] \in gone <=> p \in dead
    BY <1>2, <2>1, <2>2 DEF OneKey
  <2>4. QED BY <2>1, <2>2, <2>3
<1>4. \A p \in Procs \ dead : at'[p] = at[p] /\ key'[p] = key[p] /\ gt'[p] = gt[p]
  BY <1>1
<1>5. \A p \in dead : at'[p] = "out" /\ key'[p] = Nil /\ gt'[p] = Nil
  BY <1>1
<1>6. \A k \in Keys : m'[k] = IF k[1] = a THEN Nil ELSE m[k]
  BY <1>1
<1>7. GatesTypeOK'
  <2>1. queue' \in [Gates -> Seq(Procs)]
    BY <1>1, <1>2, ListEmpty DEF GatesTypeOK
  <2>2. m' \in [Keys -> Gates \cup {Nil}] /\ refs' \in [Gates -> Nat]
    BY <1>1, <1>2 DEF GatesTypeOK
  <2>3. at' \in [Procs -> Stages] /\ key' \in [Procs -> Keys \cup {Nil}]
    BY <1>1, <1>2 DEF GatesTypeOK, Stages
  <2>4. gt' \in [Procs -> Gates \cup {Nil}]
    BY <1>1, <1>2 DEF GatesTypeOK
  <2>5. slot' \in [Gates -> BOOLEAN]
    BY <1>1, <1>2 DEF GatesTypeOK
  <2>6. QED BY <2>1, <2>2, <2>3, <2>4, <2>5 DEF GatesTypeOK
<1>8. HomeInv'
  BY <1>4, <1>5 DEF HomeInv
<1>9. HeldInv'
  <2>1. ASSUME NEW p \in Procs \ dead, at[p] # "out" PROVE m'[key[p]] = gt[p]
    BY <1>3, <1>6, <2>1 DEF HomeInv
  <2>2. QED BY <1>2, <1>4, <1>5, <2>1 DEF HeldInv
<1>10. OneKey'
  BY <1>2, <1>6 DEF OneKey
<1>11. Counts'
  <2> SUFFICES ASSUME NEW k \in Keys, m'[k] # Nil
               PROVE  /\ refs'[m'[k]] = Cardinality({p \in Procs : gt'[p] = m'[k]})
                      /\ {p \in Procs : gt'[p] = m'[k]} # {}
    BY DEF Counts, Pointing
  <2>1. m'[k] = m[k] /\ k[1] # a /\ m[k] # Nil
    BY <1>6
  <2>2. m[k] \notin gone
    BY <1>2, <2>1 DEF OneKey
  <2>3. \A p \in Procs : gt[p] = m[k] => p \notin dead
    BY <1>2, <1>3, <2>1, <2>2 DEF HeldInv
  <2>4. {p \in Procs : gt'[p] = m[k]} = Pointing(m[k])
    BY <1>4, <1>5, <2>1, <2>3 DEF Pointing
  <2>5. refs[m[k]] = Cardinality(Pointing(m[k])) /\ Pointing(m[k]) # {}
    BY <1>2, <2>1 DEF Counts
  <2>6. QED BY <1>1, <2>1, <2>4, <2>5, ZenonT(60)
<1>12. Owners'
  <2>1. ASSUME NEW p \in Procs, at'[p] = "inside" PROVE slot'[gt'[p]]
    <3>1. p \notin dead /\ at[p] = "inside" /\ gt'[p] = gt[p]
      BY <1>4, <1>5, <2>1
    <3>2. gt[p] \in Gates \ gone /\ slot[gt[p]]
      BY <1>2, <1>3, <3>1 DEF Owners
    <3>3. QED BY <1>1, <3>1, <3>2, ZenonT(60)
  <2>2. \A p, q \in Procs :
          at'[p] = "inside" /\ at'[q] = "inside" /\ gt'[p] = gt'[q] => p = q
    BY <1>2, <1>4, <1>5 DEF Owners
  <2>3. ASSUME NEW g \in Gates, slot'[g]
        PROVE  \E p \in Procs : at'[p] = "inside" /\ gt'[p] = g
    <3>1. g \notin gone /\ slot[g]
      BY <1>1, <2>3, ZenonT(60)
    <3>2. PICK p \in Procs : at[p] = "inside" /\ gt[p] = g
      BY <1>2, <3>1 DEF Owners
    <3>3. p \notin dead
      BY <1>3, <3>1, <3>2
    <3>4. QED BY <1>4, <3>2, <3>3
  <2>4. QED BY <2>1, <2>2, <2>3 DEF Owners
<1>13. Queues'
  <2> SUFFICES ASSUME NEW g \in Gates
               PROVE  /\ \A i \in 1..Len(queue'[g]) :
                           at'[queue'[g][i]] = "blocked" /\ gt'[queue'[g][i]] = g
                      /\ \A i, j \in 1..Len(queue'[g]) :
                           queue'[g][i] = queue'[g][j] => i = j
                      /\ queue'[g] # <<>> => slot'[g]
    BY DEF Queues
  <2>1. CASE g \in gone
    <3>1. queue'[g] = <<>> /\ Len(<<>>) = 0
      BY <1>1, <2>1
    <3>2. QED BY <3>1
  <2>2. CASE g \notin gone
    <3>1. queue'[g] = queue[g] /\ slot'[g] = slot[g]
      BY <1>1, <1>2, <2>2 DEF GatesTypeOK
    <3>2. ASSUME NEW i \in 1..Len(queue[g])
          PROVE  at'[queue[g][i]] = "blocked" /\ gt'[queue[g][i]] = g
      <4>1. /\ queue[g][i] \in Procs /\ at[queue[g][i]] = "blocked"
            /\ gt[queue[g][i]] = g
        BY <1>2, QueueMembers DEF Queues
      <4>2. queue[g][i] \notin dead
        BY <1>3, <2>2, <4>1
      <4>3. QED BY <1>4, <4>1, <4>2
    <3>3. QED BY <1>2, <3>1, <3>2 DEF Queues
  <2>3. QED BY <2>1, <2>2
<1>14. QED BY <1>7, <1>8, <1>9, <1>10, <1>11, <1>12, <1>13 DEF GatesInv

\* Every step of the booking path keeps the gates of all replicas in order.
LEMMA PathKeepsGates ==
  ASSUME GatesInv, HomeInv, [NextPath]_pathVars
  PROVE  GatesInv' /\ HomeInv'
<1>1. CASE UNCHANGED gateVars
  <2>1. HomeInv'
    BY <1>1 DEF gateVars, HomeInv
  <2>2. QED BY <1>1, <2>1, GatesNext
<1>2. ASSUME NEW p \in Procs, Arrive(p) PROVE GatesInv' /\ HomeInv'
  <2>1. PICK e \in Events : Enter(p, <<Home[p], e>>)
    BY <1>2 DEF Arrive
  <2>2. <<Home[p], e>> \in Keys
    BY KeyParts, PathAssumption
  <2>3. NextGates
    BY <2>1, <2>2 DEF NextGates
  <2>4. HomeInv'
    BY <2>1 DEF Enter, HomeInv, GatesInv, GatesTypeOK
  <2>5. QED BY <2>3, <2>4, GatesNext
<1>3. ASSUME NEW p \in Procs, AtGate(p) PROVE GatesInv' /\ HomeInv'
  <2>1. NextGates
    BY <1>3 DEF AtGate, NextGates
  <2>2. CASE Send(p) \/ TimeOut(p)
    BY <2>1, <2>2, GatesNext, ZenonT(60) DEF Send, TimeOut, HomeInv, GatesInv, GatesTypeOK
  <2>3. CASE release(p)
    BY <2>1, <2>3, GatesNext DEF release, HomeInv, GatesInv, GatesTypeOK
  <2>4. QED BY <1>3, <2>2, <2>3 DEF AtGate
<1>4. ASSUME NEW p \in Procs, LeaveGate(p) PROVE GatesInv' /\ HomeInv'
  <2>1. Leave(p) /\ NextGates
    BY <1>4 DEF LeaveGate, NextGates
  <2>2. gt[p] \in Gates /\ key' = key
    BY <2>1 DEF Leave, GatesInv, HeldInv
  <2>3. ASSUME NEW q \in Woken(queue[gt[p]]) PROVE at[q] # "out"
    <3>1. PICK s \in Seq(Procs) : s = queue[gt[p]]
      BY <2>2 DEF GatesInv, GatesTypeOK
    <3>2. s # <<>> /\ q = s[1]
      BY <2>3, <3>1 DEF Woken
    <3>3. 1 \in 1..Len(s)
      BY <3>2, ListEmpty
    <3>4. QED BY <2>2, <3>1, <3>2, <3>3 DEF GatesInv, Queues
  <2>4. \A q \in Procs : at'[q] # "out" => at[q] # "out"
    BY <2>1, <2>3, Zenon DEF Leave
  <2>5. QED BY <2>1, <2>2, <2>4, GatesNext DEF HomeInv
<1>5. ASSUME (\E c \in wire : Late(c)) \/ \E e \in Events : Expire(e)
      PROVE  UNCHANGED gateVars
  BY <1>5 DEF Late, Expire
<1>6. QED
  BY <1>1, <1>2, <1>3, <1>4, <1>5, InnerSteps, CrashKeepsGates DEF NextPath, pathVars

-----------------------------------------------------------------------------
(***************************************************************************)
(* The Redis lock.                                                         *)
(***************************************************************************)
RedisInv == PathTypeOK /\ TokenInv /\ HeldLock /\ NoEarlyRelease

Commands == [op : Unanswered, ev : Events, token : Tokens]

\* The command a goroutine waits for is well formed.
LEMMA CommandType ==
  ASSUME PathInv, NEW p \in Procs, stage[p] \in Unanswered
  PROVE  Command(p) \in Commands
<1>1. EventOf(p) \in Events
  BY InsideKey DEF Unanswered
<1>2. token[p] \in Tokens
  BY DEF PathInv, PathTypeOK, TokenInv, Unanswered
<1>3. QED BY <1>1, <1>2 DEF Command, Commands

\* Redis leaves a lock with its owner unless it runs the owner's release.
LEMMA RunKeeps ==
  ASSUME PathTypeOK, NEW c \in Commands, Run(c)
  PROVE  /\ lock' \in [Events -> Tokens \cup {Nil}]
         /\ \A e \in Events :
              lock[e] # Nil /\ ~(c.op = "del" /\ c.token = lock[e]) => lock'[e] = lock[e]
         /\ c.op = "set" /\ lock[c.ev] = Nil => lock'[c.ev] = c.token
<1>1. c.ev \in Events /\ c.token \in Tokens /\ c.op \in {"set", "del"}
  BY DEF Commands, Unanswered
<1>2. lock' = [lock EXCEPT ![c.ev] =
                 IF c.op = "set" THEN (IF lock[c.ev] = Nil THEN c.token ELSE lock[c.ev])
                                 ELSE (IF lock[c.ev] = c.token THEN Nil ELSE lock[c.ev])]
  BY DEF Run
<1>3. QED BY <1>1, <1>2 DEF PathTypeOK

\* Steps of goroutines that are not past the gate, or leave it, do not
\* disturb the lock.
LEMMA GateKeepsRedis ==
  ASSUME PathInv, UNCHANGED redisVars,
         \A p \in Procs : at[p] = "inside" => at'[p] = "inside" /\ key'[p] = key[p]
  PROVE  RedisInv'
<1>1. PathTypeOK'
  BY DEF PathInv, PathTypeOK, redisVars
<1>2. TokenInv' /\ NoEarlyRelease'
  BY DEF PathInv, TokenInv, NoEarlyRelease, redisVars
<1>3. HeldLock'
  BY DEF PathInv, TokenInv, HeldLock, EventOf, redisVars
<1>4. QED BY <1>1, <1>2, <1>3 DEF RedisInv

\* A fresh token is on no lock, in no command and with no other goroutine.
LEMMA NewTokenKeeps ==
  ASSUME PathInv, NEW p \in Procs, newToken(p)
  PROVE  RedisInv'
<1>1. /\ at' = at /\ key' = key /\ held' = held /\ lock' = lock /\ wire' = wire
      /\ at[p] = "inside" /\ stage[p] = "none"
  BY DEF newToken, gateVars
<1>2. PathTypeOK /\ TokenInv /\ HeldLock /\ NoEarlyRelease
  BY DEF PathInv
<1>3. CASE /\ token' = token /\ stage' = [stage EXCEPT ![p] = "done"]
  BY <1>1, <1>2, <1>3 DEF RedisInv, PathTypeOK, PathStages, TokenInv, HeldLock,
                          NoEarlyRelease, EventOf
<1>4. ASSUME NEW t \in Tokens, \A q \in Procs : token[q] # t, \A c \in wire : c.token # t,
             token' = [token EXCEPT ![p] = t], stage' = [stage EXCEPT ![p] = "set"]
      PROVE  RedisInv'
  <2>1. t # Nil
    BY PathAssumption
  <2>2. /\ token'[p] = t /\ stage'[p] = "set"
        /\ \A q \in Procs \ {p} : token'[q] = token[q] /\ stage'[q] = stage[q]
    BY <1>2, <1>4 DEF PathTypeOK
  <2>3. PathTypeOK'
    BY <1>1, <1>2, <1>4 DEF PathTypeOK, PathStages
  <2>4. TokenInv'
    BY <1>1, <1>2, <1>4, <2>1, <2>2 DEF TokenInv
  <2>5. HeldLock'
    BY <1>1, <1>2, <2>2 DEF HeldLock, EventOf
  <2>6. NoEarlyRelease'
    BY <1>1, <1>2, <1>4, <2>2 DEF NoEarlyRelease
  <2>7. QED BY <2>3, <2>4, <2>5, <2>6 DEF RedisInv
<1>5. QED BY <1>3, <1>4 DEF newToken, To

\* SET NX takes a free lock and no other.
LEMMA SetKeeps ==
  ASSUME PathInv, NEW p \in Procs, SetNX(p)
  PROVE  RedisInv'
<1>1. /\ at' = at /\ key' = key /\ token' = token /\ wire' = wire
      /\ stage[p] = "set" /\ Run(Command(p))
  BY DEF SetNX, gateVars
<1>2. PathTypeOK /\ TokenInv /\ HeldLock /\ NoEarlyRelease
  BY DEF PathInv
<1>3. PICK c \in Commands : c = Command(p)
  BY <1>1, CommandType DEF Unanswered
<1>4. c.op = "set" /\ c.ev = EventOf(p) /\ c.token = token[p]
  BY <1>1, <1>3 DEF Command
<1>5. /\ lock' \in [Events -> Tokens \cup {Nil}]
      /\ \A e \in Events : lock[e] # Nil => lock'[e] = lock[e]
      /\ lock[EventOf(p)] = Nil => lock'[EventOf(p)] = token[p]
  BY <1>1, <1>2, <1>3, <1>4, RunKeeps
<1>6. \/ /\ lock[EventOf(p)] = Nil /\ stage' = [stage EXCEPT ![p] = "booking"]
         /\ held' = [held EXCEPT ![p] = "held"]
      \/ stage' = [stage EXCEPT ![p] = "backoff"] /\ held' = held
  BY DEF SetNX, To
<1>7. /\ \A q \in Procs \ {p} : stage'[q] = stage[q] /\ held'[q] = held[q]
      /\ \/ lock[EventOf(p)] = Nil /\ stage'[p] = "booking" /\ held'[p] = "held"
         \/ stage'[p] = "backoff"
  BY <1>2, <1>6 DEF PathTypeOK
<1>8. PathTypeOK'
  BY <1>1, <1>2, <1>5, <1>6 DEF PathTypeOK, PathStages
<1>9. TokenInv' /\ NoEarlyRelease'
  BY <1>1, <1>2, <1>7 DEF TokenInv, NoEarlyRelease
<1>10. HeldLock'
  <2> SUFFICES ASSUME NEW q \in Procs, stage'[q] = "booking"
               PROVE  \/ held'[q] = "expired"
                      \/ held'[q] = "held" /\ lock'[EventOf(q)] = token'[q]
    BY <1>1 DEF HeldLock, EventOf
  <2>1. CASE q = p
    BY <1>1, <1>5, <1>7, <2>1
  <2>2. CASE q # p
    <3>1. stage[q] = "booking" /\ held'[q] = held[q] /\ token[q] # Nil
      BY <1>2, <1>7, <2>2 DEF TokenInv
    <3>2. EventOf(q) \in Events
      BY <3>1, InsideKey
    <3>3. QED BY <1>1, <1>2, <1>5, <3>1, <3>2 DEF HeldLock
  <2>3. QED BY <2>1, <2>2
<1>11. QED BY <1>8, <1>9, <1>10 DEF RedisInv

\* The backoff, and the end of createBooking, change nothing in Redis.
LEMMA MoveKeeps ==
  ASSUME PathInv, NEW p \in Procs, Retry(p) \/ GiveUp(p) \/ EndBooking(p)
  PROVE  RedisInv'
<1>1. /\ at' = at /\ key' = key /\ token' = token /\ held' = held
      /\ lock' = lock /\ wire' = wire
      /\ \/ stage[p] = "backoff" /\ stage' = [stage EXCEPT ![p] = "set"]
         \/ stage[p] = "backoff" /\ stage' = [stage EXCEPT ![p] = "done"]
         \/ stage[p] = "booking" /\ stage' = [stage EXCEPT ![p] = "del"]
  BY DEF Retry, GiveUp, EndBooking, To, gateVars
<1>2. PathTypeOK /\ TokenInv /\ HeldLock /\ NoEarlyRelease
  BY DEF PathInv
<1>3. PathTypeOK'
  BY <1>1, <1>2 DEF PathTypeOK, PathStages
<1>4. TokenInv' /\ HeldLock' /\ NoEarlyRelease'
  BY <1>1, <1>2 DEF PathTypeOK, TokenInv, HeldLock, NoEarlyRelease, EventOf
<1>5. QED BY <1>3, <1>4 DEF RedisInv

\* The owner-safe release deletes no lock but the caller's.
LEMMA ReleaseKeepsLock ==
  ASSUME PathInv, NEW p \in Procs, ReleaseLock(p)
  PROVE  RedisInv'
<1>1. /\ at' = at /\ key' = key /\ token' = token /\ held' = held /\ wire' = wire
      /\ stage[p] = "del" /\ Run(Command(p)) /\ stage' = [stage EXCEPT ![p] = "done"]
  BY DEF ReleaseLock, To, gateVars
<1>2. PathTypeOK /\ TokenInv /\ HeldLock /\ NoEarlyRelease
  BY DEF PathInv
<1>3. PICK c \in Commands : c = Command(p)
  BY <1>1, CommandType DEF Unanswered
<1>4. c.op = "del" /\ c.ev = EventOf(p) /\ c.token = token[p]
  BY <1>1, <1>3 DEF Command
<1>5. /\ lock' \in [Events -> Tokens \cup {Nil}]
      /\ \A e \in Events : lock[e] # Nil /\ lock[e] # token[p] => lock'[e] = lock[e]
  BY <1>1, <1>2, <1>3, <1>4, RunKeeps
<1>6. stage'[p] = "done" /\ \A q \in Procs \ {p} : stage'[q] = stage[q]
  BY <1>1, <1>2 DEF PathTypeOK
<1>7. PathTypeOK'
  BY <1>1, <1>2, <1>5 DEF PathTypeOK, PathStages
<1>8. TokenInv' /\ NoEarlyRelease'
  BY <1>1, <1>2, <1>6 DEF TokenInv, NoEarlyRelease
<1>9. HeldLock'
  <2> SUFFICES ASSUME NEW q \in Procs, stage'[q] = "booking"
               PROVE  \/ held'[q] = "expired"
                      \/ held'[q] = "held" /\ lock'[EventOf(q)] = token'[q]
    BY <1>1 DEF HeldLock, EventOf
  <2>1. q # p /\ stage[q] = "booking" /\ token[q] # Nil /\ token[q] # token[p]
    BY <1>2, <1>6 DEF TokenInv
  <2>2. EventOf(q) \in Events
    BY <2>1, InsideKey
  <2>3. QED BY <1>1, <1>2, <1>5, <2>1, <2>2 DEF HeldLock
<1>10. QED BY <1>7, <1>8, <1>9 DEF RedisInv

\* A command that may still run: a release only after the booking.
LEMMA WireKeeps ==
  ASSUME PathInv, NEW p \in Procs, Resend(p) \/ CommandFails(p)
  PROVE  RedisInv'
<1>1. /\ at' = at /\ key' = key /\ token' = token /\ held' = held /\ lock' = lock
      /\ stage[p] \in Unanswered /\ wire' \subseteq wire \cup {Command(p)}
      /\ stage' = stage \/ stage' = [stage EXCEPT ![p] = "done"]
  BY DEF Resend, CommandFails, To, gateVars
<1>2. PathTypeOK /\ TokenInv /\ HeldLock /\ NoEarlyRelease
  BY DEF PathInv
<1>3. PICK c \in Commands : c = Command(p)
  BY <1>1, CommandType
<1>4. c.op = stage[p] /\ c.token = token[p] /\ token[p] # Nil
  BY <1>1, <1>2, <1>3 DEF Command, TokenInv, Unanswered
<1>5. \A q \in Procs : stage'[q] = stage[q] \/ stage'[q] = "done"
  BY <1>1, <1>2 DEF PathTypeOK
<1>6. PathTypeOK'
  BY <1>1, <1>2, <1>3 DEF PathTypeOK, PathStages, Commands
<1>7. TokenInv' /\ HeldLock'
  <2>1. \A q \in Procs : stage[q] # "none" \/ stage'[q] = stage[q]
    BY <1>1, <1>2 DEF PathTypeOK, Unanswered
  <2>2. QED BY <1>1, <1>2, <1>5, <2>1 DEF TokenInv, HeldLock, EventOf
<1>8. NoEarlyRelease'
  <2> SUFFICES ASSUME NEW q \in Procs, NEW d \in wire',
                      stage'[q] \in {"set", "backoff", "booking"},
                      d.op = "del", d.token = token[q]
               PROVE  FALSE
    BY <1>1 DEF NoEarlyRelease
  <2>1. stage[q] \in {"set", "backoff", "booking"}
    BY <1>5
  <2>2. d = c
    BY <1>1, <1>2, <1>3, <2>1 DEF NoEarlyRelease
  <2>3. q = p
    BY <1>2, <1>4, <2>2 DEF TokenInv
  <2>4. QED BY <1>4, <2>1, <2>2, <2>3
<1>9. QED BY <1>6, <1>7, <1>8 DEF RedisInv

\* The deferred leave forgets the token and lets the next goroutine in.
LEMMA LeaveGateKeeps ==
  ASSUME PathInv, NEW p \in Procs, LeaveGate(p)
  PROVE  RedisInv'
<1>1. /\ key' = key /\ lock' = lock /\ wire' = wire /\ stage[p] = "done"
      /\ stage' = [stage EXCEPT ![p] = "none"] /\ token' = [token EXCEPT ![p] = Nil]
      /\ held' = [held EXCEPT ![p] = "never"] /\ Leave(p)
  BY DEF LeaveGate, Leave, To, Finished
<1>2. PathTypeOK /\ TokenInv /\ HeldLock /\ NoEarlyRelease
  BY DEF PathInv
<1>3. /\ stage'[p] = "none" /\ token'[p] = Nil
      /\ \A q \in Procs \ {p} :
           stage'[q] = stage[q] /\ token'[q] = token[q] /\ held'[q] = held[q]
  BY <1>1, <1>2 DEF PathTypeOK
<1>4. \A q \in Procs \ {p} : at[q] = "inside" => at'[q] = "inside"
  BY <1>1, Zenon DEF Leave
<1>5. PathTypeOK'
  BY <1>1, <1>2 DEF PathTypeOK, PathStages
<1>6. TokenInv'
  BY <1>2, <1>3, <1>4 DEF TokenInv
<1>7. HeldLock' /\ NoEarlyRelease'
  BY <1>1, <1>2, <1>3 DEF HeldLock, NoEarlyRelease, EventOf
<1>8. QED BY <1>5, <1>6, <1>7 DEF RedisInv

\* A late command does no harm: a SET takes only a free lock, and a release
\* only that of a request that has booked.
LEMMA LateKeeps ==
  ASSUME PathInv, NEW c \in wire, Late(c)
  PROVE  RedisInv'
<1>1. /\ at' = at /\ key' = key /\ stage' = stage /\ token' = token /\ held' = held
      /\ wire' = wire \ {c} /\ (Run(c) \/ lock' = lock)
  BY DEF Late, gateVars
<1>2. PathTypeOK /\ TokenInv /\ HeldLock /\ NoEarlyRelease
  BY DEF PathInv
<1>3. c \in Commands
  BY <1>2 DEF PathTypeOK, Commands
<1>4. /\ lock' \in [Events -> Tokens \cup {Nil}]
      /\ \A e \in Events :
           lock[e] # Nil /\ ~(c.op = "del" /\ c.token = lock[e]) => lock'[e] = lock[e]
  BY <1>1, <1>2, <1>3, RunKeeps DEF PathTypeOK
<1>5. PathTypeOK'
  BY <1>1, <1>2, <1>4 DEF PathTypeOK
<1>6. TokenInv' /\ NoEarlyRelease'
  BY <1>1, <1>2 DEF TokenInv, NoEarlyRelease
<1>7. HeldLock'
  <2> SUFFICES ASSUME NEW q \in Procs, stage[q] = "booking"
               PROVE  \/ held[q] = "expired"
                      \/ held[q] = "held" /\ lock'[EventOf(q)] = token[q]
    BY <1>1 DEF HeldLock, EventOf
  <2>1. token[q] # Nil /\ ~(c.op = "del" /\ c.token = token[q])
    BY <1>2 DEF TokenInv, NoEarlyRelease
  <2>2. EventOf(q) \in Events
    BY InsideKey
  <2>3. QED BY <1>2, <1>4, <2>1, <2>2 DEF HeldLock
<1>8. QED BY <1>5, <1>6, <1>7 DEF RedisInv

\* The end of a TTL is recorded with the request whose lock it was.
LEMMA ExpireKeeps ==
  ASSUME PathInv, NEW e \in Events, Expire(e)
  PROVE  RedisInv'
<1>1. /\ at' = at /\ key' = key /\ stage' = stage /\ token' = token /\ wire' = wire
      /\ lock' = [lock EXCEPT ![e] = Nil]
      /\ held' = [p \in Procs |-> IF token[p] = lock[e] /\ held[p] = "held"
                                    THEN "expired" ELSE held[p]]
  BY DEF Expire, gateVars
<1>2. PathTypeOK /\ TokenInv /\ HeldLock /\ NoEarlyRelease
  BY DEF PathInv
<1>3. PathTypeOK'
  BY <1>1, <1>2 DEF PathTypeOK
<1>4. TokenInv' /\ NoEarlyRelease'
  BY <1>1, <1>2 DEF TokenInv, NoEarlyRelease
<1>5. HeldLock'
  BY <1>1, <1>2 DEF PathTypeOK, HeldLock, EventOf
<1>6. QED BY <1>3, <1>4, <1>5 DEF RedisInv

\* A crash leaves the locks of the survivors alone, and what the dead sent is
\* no release of a survivor's lock.
LEMMA CrashKeepsRedis ==
  ASSUME PathInv, NEW a \in Replicas, Crash(a)
  PROVE  RedisInv'
<1> DEFINE dead == {p \in Procs : Home[p] = a}
           sent == {Command(p) : p \in {q \in dead : stage[q] \in Unanswered}}
<1>1. /\ at' = [p \in Procs |-> IF p \in dead THEN "out" ELSE at[p]]
      /\ key' = [p \in Procs |-> IF p \in dead THEN Nil ELSE key[p]]
      /\ stage' = [p \in Procs |-> IF p \in dead THEN "none" ELSE stage[p]]
      /\ token' = [p \in Procs |-> IF p \in dead THEN Nil ELSE token[p]]
      /\ held' = [p \in Procs |-> IF p \in dead THEN "never" ELSE held[p]]
      /\ wire' = wire \cup sent /\ lock' = lock
  BY DEF Crash
<1>2. PathTypeOK /\ TokenInv /\ HeldLock /\ NoEarlyRelease
  BY DEF PathInv
<1>3. \A p \in Procs \ dead :
        /\ at'[p] = at[p] /\ key'[p] = key[p] /\ stage'[p] = stage[p]
        /\ token'[p] = token[p] /\ held'[p] = held[p]
  BY <1>1
<1>4. \A p \in dead : stage'[p] = "none" /\ token'[p] = Nil
  BY <1>1
<1>5. PathTypeOK'
  <2>1. sent \subseteq Commands
    BY CommandType
  <2>2. wire' \subseteq [op : Unanswered, ev : Events, token : Tokens]
    BY <1>1, <1>2, <2>1 DEF PathTypeOK, Commands
  <2>3. /\ stage' \in [Procs -> PathStages] /\ token' \in [Procs -> Tokens \cup {Nil}]
        /\ held' \in [Procs -> {"never", "held", "expired"}]
    BY <1>1, <1>2 DEF PathTypeOK, PathStages
  <2>4. QED BY <1>1, <1>2, <2>2, <2>3 DEF PathTypeOK
<1>6. TokenInv'
  BY <1>2, <1>3, <1>4 DEF TokenInv
<1>7. HeldLock'
  BY <1>1, <1>2, <1>3, <1>4 DEF HeldLock, EventOf
<1>8. NoEarlyRelease'
  <2> SUFFICES ASSUME NEW p \in Procs, NEW c \in wire',
                      stage'[p] \in {"set", "backoff", "booking"},
                      c.op = "del", c.token = token'[p]
               PROVE  FALSE
    BY DEF NoEarlyRelease
  <2>1. p \notin dead /\ stage[p] = stage'[p] /\ token[p] = token'[p] /\ token[p] # Nil
    BY <1>2, <1>3, <1>4 DEF TokenInv
  <2>2. c \notin wire
    BY <1>2, <2>1 DEF NoEarlyRelease
  <2>3. PICK q \in dead : c = Command(q)
    BY <1>1, <2>2
  <2>4. c.token = token[q]
    BY <2>3 DEF Command
  <2>5. QED BY <1>2, <2>1, <2>4 DEF TokenInv
<1>9. QED BY <1>5, <1>6, <1>7, <1>8 DEF RedisInv

-----------------------------------------------------------------------------
\* Every step of the booking path keeps the invariant.
LEMMA NextPathInv == PathInv /\ [NextPath]_pathVars => PathInv'
<1> SUFFICES ASSUME PathInv, [NextPath]_pathVars PROVE PathInv'
  OBVIOUS
<1>1. GatesInv' /\ HomeInv'
  BY PathKeepsGates DEF PathInv
<1>2. ASSUME NEW p \in Procs, Arrive(p) PROVE RedisInv'
  <2>1. UNCHANGED redisVars
    BY <1>2 DEF Arrive
  <2>2. \A q \in Procs : at[q] = "inside" => at'[q] = "inside" /\ key'[q] = key[q]
    BY <1>2 DEF Arrive, Enter, PathInv, GatesInv, GatesTypeOK
  <2>3. QED BY <2>1, <2>2, GateKeepsRedis
<1>3. ASSUME NEW p \in Procs, AtGate(p) PROVE RedisInv'
  <2>1. UNCHANGED redisVars
    BY <1>3 DEF AtGate
  <2>2. \A q \in Procs : at[q] = "inside" => at'[q] = "inside" /\ key'[q] = key[q]
    BY <1>3 DEF AtGate, Send, TimeOut, release, PathInv, GatesInv, GatesTypeOK
  <2>3. QED BY <2>1, <2>2, GateKeepsRedis
<1>4. ASSUME NEW p \in Procs, Inner(p) \/ Resend(p) PROVE RedisInv'
  BY <1>4, NewTokenKeeps, SetKeeps, MoveKeeps, ReleaseKeepsLock, WireKeeps,
     LeaveGateKeeps DEF Inner
<1>5. ASSUME UNCHANGED pathVars PROVE RedisInv'
  BY <1>5, GateKeepsRedis, ZenonT(60) DEF pathVars, gateVars
<1>6. RedisInv'
  BY <1>2, <1>3, <1>4, <1>5, LateKeeps, ExpireKeeps, CrashKeepsRedis DEF NextPath
<1>7. QED BY <1>1, <1>6 DEF PathInv, RedisInv

\* The invariant holds in every state of the booking path.
LEMMA PathSafe == SpecPath => []PathInv
<1>1. InitPath => PathInv
  <2> SUFFICES ASSUME InitPath PROVE PathInv
    OBVIOUS
  <2>1. GatesInv
    BY GatesInit DEF InitPath
  <2>2. HomeInv
    BY DEF InitPath, InitGates, HomeInv
  <2>3. PathTypeOK /\ TokenInv /\ HeldLock /\ NoEarlyRelease
    BY DEF InitPath, PathTypeOK, PathStages, TokenInv, HeldLock, NoEarlyRelease
  <2>4. QED BY <2>1, <2>2, <2>3 DEF PathInv
<1>2. QED BY <1>1, NextPathInv, PTL DEF SpecPath

\* At most one goroutine of a replica is past the gate of an event, although
\* other replicas crash and start again with gates of their own.
THEOREM OneInsideDespiteCrashes == SpecPath => []OneInside
<1>1. PathInv => OneInside
  BY DEF PathInv, GatesInv, HeldInv, Owners, OneInside
<1>2. QED BY <1>1, PathSafe, PTL

\* Two requests book the same event at the same time only after a TTL ended:
\* neither crashes nor commands that Redis runs late or twice let a second
\* request in, and a release never takes the lock from a new owner.
THEOREM LockIsExclusive == SpecPath => []ExclusiveUntilExpiry
<1>1. PathInv => ExclusiveUntilExpiry
  BY DEF PathInv, TokenInv, HeldLock, ExclusiveUntilExpiry
<1>2. QED BY <1>1, PathSafe, PTL
=============================================================================
