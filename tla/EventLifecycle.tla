--------------------------- MODULE EventLifecycle ---------------------------
(***************************************************************************)
(* What the system promises about an event, with no transactions, locks,   *)
(* replicas or failures: the row of an event, who is booked on it, and the *)
(* ranking its draw produced change in five atomic ways and in no other.   *)
(***************************************************************************)
EXTENDS Integers, FiniteSets, Sequences

CONSTANTS EventIds, Users, Row, NoEvent

VARIABLES
  event,     \* the row of each event, NoEvent before it is created
  bookings,  \* the users booked on it
  outcome    \* the users in rank order once it is drawn

vars == <<event, bookings, outcome>>

Rankings(S) ==
  {s \in [1..Cardinality(S) -> S] :
      \A i, j \in 1..Cardinality(S) : s[i] = s[j] => i = j}

Create(e) ==
  /\ event[e] = NoEvent
  /\ event'[e] \in Row /\ event'[e].status = "open"
  /\ event' = [event EXCEPT ![e] = event'[e]]
  /\ UNCHANGED <<bookings, outcome>>

Book(e, u) ==
  /\ event[e].status = "open"
  /\ u \notin bookings[e]
  /\ Cardinality(bookings[e]) < event[e].capacity
  /\ bookings' = [bookings EXCEPT ![e] = @ \cup {u}]
  /\ UNCHANGED <<event, outcome>>

Close(e) ==
  /\ event[e].status = "open"
  /\ event' = [event EXCEPT ![e].status = "closed"]
  /\ UNCHANGED <<bookings, outcome>>

Cancel(e) ==
  /\ event[e].status \in {"open", "closed"}
  /\ event' = [event EXCEPT ![e].status = "cancelled"]
  /\ UNCHANGED <<bookings, outcome>>

\* Every booked user is ranked once, and nobody else.
Draw(e) ==
  /\ event[e].status = "closed"
  /\ bookings[e] # {}
  /\ \E s \in Rankings(bookings[e]) : outcome' = [outcome EXCEPT ![e] = s]
  /\ event' = [event EXCEPT ![e].status = "drawn"]
  /\ UNCHANGED bookings

Init ==
  /\ event = [e \in EventIds |-> NoEvent]
  /\ bookings = [e \in EventIds |-> {}]
  /\ outcome = [e \in EventIds |-> <<>>]

Next ==
  \E e \in EventIds :
    \/ Create(e) \/ Close(e) \/ Cancel(e) \/ Draw(e)
    \/ \E u \in Users : Book(e, u)

Spec == Init /\ [][Next]_vars
=============================================================================
