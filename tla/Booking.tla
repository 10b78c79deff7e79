------------------------------- MODULE Booking -------------------------------
(***************************************************************************)
(* The booking transaction, createBooking of internal/booking/service.go.  *)
(* It is entered here without the in-process gate and the Redis lock that  *)
(* BookWithLock puts in front of it: the row lock alone has to be enough.  *)
(***************************************************************************)
EXTENDS Database

BeginBooking(r, e, u) == Begin(r, "book", e, u, "lockRow")

\* SELECT status, capacity FROM events WHERE id = $1 FOR UPDATE
LockForBooking(r) ==
  /\ pc[r] = "lockRow" /\ req[r].op = "book"
  /\ \/ /\ ~Exists(Ev(r))
        /\ Refuse(r, "event_not_found")
        /\ UNCHANGED rowLock
     \/ /\ Exists(Ev(r))
        /\ LockRow(r)
        /\ Goto(r, "exists")
        /\ loc' = [loc EXCEPT ![r].row = event[Ev(r)]]
  /\ UNCHANGED <<tables, clock, req, writes, answer>>

\* Variant: any status will do.
BookableAlways(r) == TRUE

\* The event was open when its row was locked.
Bookable(r) == loc[r].row.status = "open"

\* SELECT EXISTS(...), then the test of the status read under the lock.
CheckExisting(r) ==
  /\ pc[r] = "exists"
  /\ \/ /\ req[r].user \in bookings[Ev(r)]
        /\ Refuse(r, "already_booked")
     \/ /\ req[r].user \notin bookings[Ev(r)]
        /\ ~Bookable(r)
        /\ Refuse(r, "event_not_open")
     \/ /\ req[r].user \notin bookings[Ev(r)]
        /\ Bookable(r)
        /\ Goto(r, "count")
        /\ UNCHANGED loc
  /\ UNCHANGED <<tables, rowLock, clock, req, writes, answer>>

\* Variants: full one seat too early, and one seat too late.
FullEarly(r) == Cardinality(bookings[Ev(r)]) + 1 >= loc[r].row.capacity
FullLate(r) == Cardinality(bookings[Ev(r)]) > loc[r].row.capacity

Full(r) == Cardinality(bookings[Ev(r)]) >= loc[r].row.capacity

\* SELECT COUNT(*) FROM bookings WHERE event_id = $1
CountBookings(r) ==
  /\ pc[r] = "count"
  /\ IF Full(r)
       THEN Refuse(r, "event_full")
       ELSE Goto(r, "insert") /\ UNCHANGED loc
  /\ UNCHANGED <<tables, rowLock, clock, req, writes, answer>>

\* INSERT INTO bookings.  UNIQUE (event_id, user_id) makes the statement wait
\* for another session's uncommitted row of the same user, and fail on a
\* committed one.  The branch for a violated foreign key (ErrEventNotFound) is
\* never taken: the event is locked, and no statement deletes users or events.
InsertBooking(r) ==
  /\ pc[r] = "insert"
  /\ \A q \in Workers \ {r} :
        Ev(q) = Ev(r) => req[r].user \notin writes[q].users
  /\ IF req[r].user \in bookings[Ev(r)]
       THEN Refuse(r, "already_booked") /\ UNCHANGED writes
       ELSE /\ writes' = [writes EXCEPT ![r].users = {req[r].user}]
            /\ Goto(r, "commit")
            /\ UNCHANGED loc
  /\ UNCHANGED <<tables, rowLock, clock, req, answer>>

CommitBooking(r) ==
  /\ pc[r] = "commit" /\ req[r].op = "book"
  /\ Apply(r)
  /\ Release(r)
  /\ Finish(r, Reply("booked"))
  /\ UNCHANGED <<clock, req>>

BookingStep(r) ==
  \/ LockForBooking(r) \/ CheckExisting(r) \/ CountBookings(r)
  \/ InsertBooking(r) \/ CommitBooking(r)
=============================================================================
