--------------------------- MODULE LotterySystem ---------------------------
(***************************************************************************)
(* The services together on one database: bookings, administration, draws  *)
(* and result pages run at the same time on any number of workers, of one  *)
(* replica or of several, and any of them may fail at any statement.       *)
(***************************************************************************)
EXTENDS Booking, Events, Lottery

\* A client sends a request to an idle worker.
Arrive(r) ==
  \E e \in EventIds :
    \/ \E u \in Users : BeginBooking(r, e, u)
    \/ BeginClose(r, e)
    \/ BeginCancel(r, e)
    \/ BeginDraw(r, e)
    \/ BeginResults(r, e)

Create(r) ==
  \E e \in EventIds, capacity \in 0..MaxCapacity, winnerCount \in 0..MaxCapacity,
     drawAt, now \in 0..MaxClock :
    CreateEvent(r, e, capacity, winnerCount, drawAt, now)

\* The request runs its next statement.
Step(r) == BookingStep(r) \/ EventStep(r) \/ LotteryStep(r) \/ Rollback(r)

Failure(r) == StatementFails(r) \/ LoseConnection(r)

Orphan(r) == OrphanAborts(r) \/ OrphanCommits(r)

Next ==
  \/ \E r \in Workers :
       Arrive(r) \/ Create(r) \/ Step(r) \/ Failure(r) \/ Orphan(r)
  \/ Tick

Init == InitDatabase

Spec == Init /\ [][Next]_vars

\* Every statement returns, or the request's context (30 s) ends it; a row
\* lock goes to its waiters in turn; the server ends orphaned sessions.
Fairness ==
  \A r \in Workers :
    /\ WF_vars(Step(r) \/ Failure(r))
    /\ SF_vars(LockForBooking(r) \/ LockForTransition(r) \/ LockForDraw(r))
    /\ WF_vars(Orphan(r))

FairSpec == Spec /\ Fairness

-----------------------------------------------------------------------------
Labels == {"idle", "rollback", "orphan", "orphanCommit"}
            \cup InTransaction \cup Reading

Codes == {"none", "internal", "booked", "already_booked", "event_full",
          "event_not_open", "event_not_found", "created", "invalid_input",
          "closed", "cancelled", "invalid_transition", "already_drawn",
          "event_cancelled", "event_not_closed", "draw_not_due",
          "no_participants", "results_unavailable",
          "verified", "mismatch", "unsealed"}

Digest == EventIds \X Nat \X Nat \X Nat \X Seq(Users \X Nat)

Locals == [began : 0..MaxClock, row : EventRow \cup {NoEvent},
           order : Seq(Users), stamp : Nat, fetched : Seq(DrawRow), code : Codes]

Writes == [users : SUBSET Users, rows : Seq(DrawRow),
           seals : SUBSET Digest, status : Status \cup {"keep"}]

Answers == [code : Codes, status : Status \cup {"absent"}, count : Nat,
            winners : Seq(Users), waitlist : Seq(Users)]

\* Every variable has its type: rows obey the CHECK constraints of their
\* tables, and a request in progress names an event (and a user, if it books).
TypeOK ==
  /\ event \in [EventIds -> EventRow \cup {NoEvent}]
  /\ bookings \in [EventIds -> SUBSET Users]
  /\ draws \in [EventIds -> Seq(DrawRow)]
  /\ seals \in [EventIds -> SUBSET Digest]
  /\ rowLock \in [EventIds -> Workers \cup {None}]
  /\ clock \in 0..MaxClock
  /\ pc \in [Workers -> Labels]
  /\ req \in [Workers -> Request \cup {NoRequest}]
  /\ loc \in [Workers -> Locals]
  /\ writes \in [Workers -> Writes]
  /\ answer \in [Workers -> Answers]
  /\ \A r \in Workers : pc[r] # "idle" => req[r] \in Request

-----------------------------------------------------------------------------
(***************************************************************************)
(* Safety.                                                                 *)
(***************************************************************************)

\* An event never has more bookings than its capacity, whatever bookings
\* interleave, fail, or commit after their client was told of an error.
CapacityRespected ==
  \A e \in EventIds : Cardinality(bookings[e]) <= event[e].capacity

\* A draw is all or nothing: audit rows and seal are there exactly when the
\* event is drawn, and they rank every booked user once.
DrawIsComplete ==
  \A e \in EventIds :
    IF event[e].status = "drawn"
      THEN /\ UsersOf(draws[e]) \in Orderings(bookings[e])
           /\ Cardinality(seals[e]) = 1
      ELSE draws[e] = <<>> /\ seals[e] = {}

\* No event is drawn before its draw_at by the database clock.
DrawIsDue ==
  \A e \in EventIds : event[e].status = "drawn" => event[e].drawAt <= clock

\* What a client of Book was told stays true for ever: a confirmed booking
\* (or one reported as existing) is not lost, and a user told that the event
\* is full or not open is not in the lottery, not even by an earlier request
\* that seemed to fail.
BookingAnswersHold ==
  \A r \in Workers :
    LET code == answer[r].code
        e == Ev(r)
    IN  req[r].op = "book" =>
          /\ code \in {"booked", "already_booked"} => req[r].user \in bookings[e]
          /\ code = "event_full" =>
               /\ Cardinality(bookings[e]) = event[e].capacity
               /\ req[r].user \notin bookings[e]
          /\ code = "event_not_open" =>
               /\ event[e].status # "open"
               /\ req[r].user \notin bookings[e]

\* What an administrator was told stays true: a closed event takes no more
\* bookings, so the count in the reply is the final one, and the reply never
\* shows the event open; a refused draw was refused for a lasting reason.
AdminAnswersHold ==
  \A r \in Workers :
    LET a == answer[r]
        e == Ev(r)
    IN  /\ a.code \in {"closed", "cancelled"} =>
             /\ a.status \in {"closed", "drawn", "cancelled"}
             /\ a.count = Cardinality(bookings[e])
        /\ a.code = "cancelled" => event[e].status = "cancelled"
        /\ a.code \in {"already_drawn", "event_cancelled", "invalid_transition"} =>
             event[e].status \in {"drawn", "cancelled"}
        /\ a.code = "no_participants" =>
             bookings[e] = {} /\ event[e].status \in {"closed", "cancelled"}

\* GetResults reads the event, the rows and the seal in three separate
\* queries, and still never finds a draw unsealed or different from its seal.
ResultsVerify ==
  \A r \in Workers : answer[r].code \notin {"unsealed", "mismatch"}

\* Everybody who is shown the outcome of an event, by the draw itself or by a
\* results page, is shown the same winners and the same waitlist.
ResultsAgree ==
  \A q, r \in Workers :
    /\ answer[q].code = "verified" /\ answer[r].code = "verified"
    /\ Ev(q) = Ev(r)
    => /\ answer[q].winners = answer[r].winners
       /\ answer[q].waitlist = answer[r].waitlist
       /\ answer[q].winners # <<>>

FinalUntouched ==
  \A e \in EventIds :
    event[e].status \in {"drawn", "cancelled"} =>
      /\ event'[e] = event[e] /\ bookings'[e] = bookings[e]
      /\ draws'[e] = draws[e] /\ seals'[e] = seals[e]

\* A drawn or cancelled event is final: no later step, of a request that was
\* already running or of one that was given up, changes anything about it.
FinalIsFinal == [][FinalUntouched]_vars

(***************************************************************************)
(* Liveness.                                                               *)
(***************************************************************************)

\* Every request that arrives comes to an end and every row lock is given
\* back: no transaction waits for a lock whose holder waits for it, and no
\* way of leaving a handler, an error or a lost connection included, keeps
\* the lock.
EveryRequestEnds ==
  \A r \in Workers :
    pc[r] # "idle" ~> pc[r] = "idle" /\ \A e \in EventIds : rowLock[e] # r
=============================================================================
