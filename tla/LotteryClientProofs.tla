------------------------- MODULE LotteryClientProofs -------------------------
(***************************************************************************)
(* What the clients of LotterySystem can rely on.  How an event can change *)
(* while requests run, and why every reply rests on something that lasts;  *)
(* seen from outside, bookings, transitions and draws of an event are      *)
(* atomic (the refinement of EventLifecycle), every reply stays true, and  *)
(* all who are shown the outcome of an event are shown the same one.       *)
(***************************************************************************)
EXTENDS LotterySafetyProofs, LotteryRefinement

\* What AnswersInv says of one request.
Answered(r) == Told(r, answer[r].code) /\ Shown(r) /\ Read(r)

\* A step touches no event that was drawn or cancelled before it.
LEMMA NextFinal ==
  ASSUME IInv, [Next]_vars
  PROVE  FinalUntouched
<1> SUFFICES ASSUME NEW f \in EventIds, event[f].status \in {"drawn", "cancelled"}
             PROVE  /\ event'[f] = event[f] /\ bookings'[f] = bookings[f]
                    /\ draws'[f] = draws[f] /\ seals'[f] = seals[f]
  BY DEF FinalUntouched
<1>1. TypeOK
  BY DEF IInv, Typed
<1>2. CASE UNCHANGED tables
  BY <1>2 DEF tables
<1>3. ASSUME NEW e \in EventIds, Opens(e) \/ Draws(e) \/ \E u \in Users : Books(e, u)
      PROVE  /\ event'[f] = event[f] /\ bookings'[f] = bookings[f]
             /\ draws'[f] = draws[f] /\ seals'[f] = seals[f]
  BY <1>1, <1>3 DEF TypeOK, Opens, Draws, Books, Exists
<1>4. ASSUME NEW e \in EventIds, NEW op \in {"close", "cancel"},
             Moves(e, Sources(op), Target(op))
      PROVE  /\ event'[f] = event[f] /\ bookings'[f] = bookings[f]
             /\ draws'[f] = draws[f] /\ seals'[f] = seals[f]
  BY <1>1, <1>4, ZenonT(60) DEF TypeOK, Moves, Sources
<1>5. QED BY <1>2, <1>3, <1>4, TableSteps DEF IInv

\* No step, of a request that was already running or of one that was given
\* up, changes anything about a drawn or cancelled event.
THEOREM FinalForEver == Spec => FinalIsFinal
<1>1. IInv /\ [Next]_vars => [FinalUntouched]_vars
  BY NextFinal
<1>2. QED BY <1>1, Inductive, PTL DEF Spec, FinalIsFinal

\* How a step can change an event that exists: its capacity and its number of
\* winners stay, bookings are only added while it is open and has room, and
\* its status only moves forward.
LEMMA EventSteps ==
  ASSUME IInv, [Next]_vars, NEW e \in EventIds, Exists(e)
  PROVE  /\ event'[e].status # "absent"
         /\ event'[e].capacity = event[e].capacity
         /\ event'[e].winnerCount = event[e].winnerCount
         /\ bookings[e] \subseteq bookings'[e]
         /\ event[e].status # "open" \/ Cardinality(bookings[e]) = event[e].capacity
              => bookings'[e] = bookings[e]
         /\ event[e].status # "open" => event'[e].status # "open"
         /\ event[e].status = "closed" /\ bookings[e] = {}
              => event'[e].status \in {"closed", "cancelled"}
<1> DEFINE Goal == /\ event'[e].status # "absent"
                   /\ event'[e].capacity = event[e].capacity
                   /\ event'[e].winnerCount = event[e].winnerCount
                   /\ bookings[e] \subseteq bookings'[e]
                   /\ event[e].status # "open"
                        \/ Cardinality(bookings[e]) = event[e].capacity
                        => bookings'[e] = bookings[e]
                   /\ event[e].status # "open" => event'[e].status # "open"
                   /\ event[e].status = "closed" /\ bookings[e] = {}
                        => event'[e].status \in {"closed", "cancelled"}
<1> TypeOK /\ event[e] \in EventRow
  BY DEF IInv, Typed, TypeOK, Exists, NoEvent
<1>2. event[e].capacity \in Nat /\ Cardinality(bookings[e]) \in Nat
  BY BookingsFinite DEF EventRow
<1>3. CASE UNCHANGED tables
  BY <1>3 DEF tables, Exists
<1>4. ASSUME NEW f \in EventIds, Opens(f) PROVE Goal
  BY <1>4 DEF Opens, TypeOK, Exists
<1>5. ASSUME NEW f \in EventIds, NEW u \in Users, Books(f, u) PROVE Goal
  BY <1>2, <1>5 DEF Books, TypeOK, Exists
<1>6. ASSUME NEW f \in EventIds, Draws(f) PROVE Goal
  <2>1. /\ event' = [event EXCEPT ![f].status = "drawn"] /\ bookings' = bookings
        /\ event[f].status = "closed" /\ bookings[f] # {}
    BY <1>6, Zenon DEF Draws
  <2>2. QED BY <2>1 DEF TypeOK, EventRow, Exists
<1>7. ASSUME NEW f \in EventIds, NEW op \in {"close", "cancel"},
             Moves(f, Sources(op), Target(op))
      PROVE  Goal
  BY <1>7 DEF Moves, Sources, Target, TypeOK, EventRow, Exists
<1>8. QED BY <1>3, <1>4, <1>5, <1>6, <1>7, TableSteps DEF IInv

\* What a code says of an event stays true in every step.
LEMMA ToldStable ==
  ASSUME IInv, [Next]_vars, NEW r \in Workers, NEW code, req'[r] = req[r],
         Told(r, code)
  PROVE  Told(r, code)'
<1>1. CASE code \in Silent
  BY <1>1 DEF Told
<1>2. CASE code \notin Silent
  <2>1. PICK e \in EventIds : e = Ev(r) /\ Exists(e)
    BY <1>2 DEF Told
  <2>2. PICK user : user = req[r].user
    OBVIOUS
  <2>3. Ev(r)' = e /\ req'[r].user = user
    BY <2>1, <2>2 DEF Ev
  <2>4. event[e].status \in {"drawn", "cancelled"} => event'[e] = event[e]
    BY NextFinal DEF FinalUntouched
  <2>5. /\ Exists(e)'
        /\ event'[e].capacity = event[e].capacity
        /\ bookings[e] \subseteq bookings'[e]
        /\ event[e].status # "open" \/ Cardinality(bookings[e]) = event[e].capacity
             => bookings'[e] = bookings[e]
        /\ event[e].status # "open" => event'[e].status # "open"
        /\ event[e].status = "closed" /\ bookings[e] = {}
             => event'[e].status \in {"closed", "cancelled"}
    BY <2>1, EventSteps DEF Exists
  <2>6. QED BY <1>2, <2>1, <2>2, <2>3, <2>4, <2>5 DEF Told
<1>3. QED BY <1>1, <1>2

\* What a reply shows besides its code stays true in every step.
LEMMA ShownStable ==
  ASSUME IInv, [Next]_vars, NEW r \in Workers, req'[r] = req[r],
         answer'[r] = answer[r], Told(r, answer[r].code), Shown(r)
  PROVE  Shown(r)'
<1>1. CASE answer[r].code \notin {"closed", "cancelled", "verified"}
  BY <1>1 DEF Shown
<1>2. CASE answer[r].code \in {"closed", "cancelled", "verified"}
  <2> PICK e \in EventIds : e = Ev(r) /\ Exists(e)
    BY <1>2 DEF Told, Silent
  <2>2. Ev(r)' = e
    BY DEF Ev
  <2>3. answer[r].code # "verified" => bookings'[e] = bookings[e]
    BY <1>2, EventSteps DEF Told, Silent
  <2>4. answer[r].code = "verified" => event'[e] = event[e] /\ draws'[e] = draws[e]
    BY NextFinal DEF FinalUntouched, Told, Silent
  <2>5. QED BY <1>2, <2>2, <2>3, <2>4 DEF Shown
<1>3. QED BY <1>1, <1>2

\* What a handler has read of a drawn event stays true in every step.
LEMMA ReadStable ==
  ASSUME IInv, [Next]_vars, NEW r \in Workers, req'[r] = req[r],
         pc'[r] = pc[r], loc'[r] = loc[r], Read(r)
  PROVE  Read(r)'
<1>1. Ev(r)' = Ev(r)
  BY DEF Ev
<1>2. pc[r] = "rollback" => Told(r, loc[r].code)'
  BY ToldStable DEF Read
<1>3. pc[r] = "getByID" => Told(r, Target(req[r].op))'
  BY ToldStable DEF Read
<1>4. pc[r] \in {"fetchRows", "fetchSeal"} =>
        event'[Ev(r)] = event[Ev(r)] /\ draws'[Ev(r)] = draws[Ev(r)]
  BY NextFinal, BusyRequest DEF Read, FinalUntouched, IInv
<1>5. QED BY <1>1, <1>2, <1>3, <1>4 DEF Read

\* A handler answers only its own client.
LEMMA OthersAnswers ==
  ASSUME Typed, NEW r \in Workers, Acts(r), NEW q \in Workers, q # r
  PROVE  answer'[q] = answer[q]
<1> USE DEF Finish
<1>1. CASE Arrive(r) \/ Create(r)
  BY <1>1 DEF Typed, TypeOK, Arrive, BeginBooking, BeginClose, BeginCancel,
              BeginDraw, BeginResults, Begin, Create, CreateEvent
<1>2. CASE BookingStep(r)
  BY <1>2 DEF Typed, TypeOK, BookingStep, LockForBooking, CheckExisting,
              CountBookings, InsertBooking, CommitBooking
<1>3. CASE LotteryStep(r)
  BY <1>3, Zenon DEF Typed, TypeOK, LotteryStep, LockForDraw, FetchParticipants,
              InsertDraw, InsertSeal, MarkDrawn, CommitDraw, FetchDrawnEvent,
              FetchRows, FetchSeal
<1>4. CASE Rollback(r) \/ Failure(r) \/ Orphan(r)
  BY <1>4 DEF Typed, TypeOK, Rollback, Failure, StatementFails, LoseConnection,
              Orphan, OrphanAborts, OrphanCommits
<1>5. CASE EventStep(r)
  BY <1>5 DEF Typed, TypeOK, EventStep, LockForTransition, UpdateStatus,
              CommitTransition, GetByID
<1>6. QED BY <1>1, <1>2, <1>3, <1>4, <1>5 DEF Acts, Step

\* A handler that moves on inside its transaction, or gives up its session,
\* leaves its client with what it was told before, if anything.
LEMMA AdvanceAnswered ==
  ASSUME IInv, [Next]_vars, NEW r \in Workers, Answered(r), req'[r] = req[r],
         answer'[r] = answer[r],
         pc'[r] \notin {"rollback", "getByID", "fetchRows", "fetchSeal"}
  PROVE  Answered(r)'
<1>1. Told(r, answer[r].code)'
  BY ToldStable DEF Answered
<1>2. Shown(r)'
  BY ShownStable DEF Answered
<1>3. QED BY <1>1, <1>2 DEF Answered, Read

\* A handler that refuses has a reason that will hold.
LEMMA RefuseAnswered ==
  ASSUME IInv, [Next]_vars, NEW r \in Workers, Answered(r), req'[r] = req[r],
         answer'[r] = answer[r], NEW code, Refuse(r, code), Told(r, code),
         code \notin {"closed", "cancelled", "verified"}
  PROVE  Answered(r)'
<1>1. Told(r, answer[r].code)' /\ Told(r, code)'
  BY ToldStable DEF Answered
<1>2. Shown(r)'
  BY ShownStable DEF Answered
<1>3. pc'[r] = "rollback" /\ loc'[r].code = code
  BY DEF Refuse, Goto, IInv, Typed, TypeOK, Locals
<1>4. QED BY <1>1, <1>2, <1>3 DEF Answered, Read

\* A reply that is no more than a code.
LEMMA ReplyAnswered ==
  ASSUME IInv, [Next]_vars, NEW r \in Workers, req'[r] = req[r], NEW code,
         answer'[r] = Reply(code), Told(r, code)',
         code \notin {"closed", "cancelled", "verified"},
         pc'[r] \notin {"rollback", "getByID", "fetchRows", "fetchSeal"}
  PROVE  Answered(r)'
<1>1. answer'[r].code = code
  BY DEF Reply, NoAnswer
<1>2. QED BY <1>1 DEF Answered, Shown, Read

-----------------------------------------------------------------------------
\* The booking transaction answers with what it found under the row lock.
LEMMA BookingAnswered ==
  ASSUME IInv, [Next]_vars, NEW r \in Workers, Answered(r), BookingStep(r)
  PROVE  Answered(r)'
<1>1. pc[r] # "idle"
  BY DEF BookingStep, LockForBooking, CheckExisting, CountBookings, InsertBooking,
         CommitBooking
<1> Ev(r) \in EventIds /\ Typed /\ TypeOK
  BY <1>1, BusyRequest DEF IInv, Typed
<1> req' = req
  BY DEF BookingStep, LockForBooking, CheckExisting, CountBookings, InsertBooking,
         CommitBooking
<1>4. BookKnows(r)
  BY DEF IInv, KnowsInv
<1>5. pc[r] \in Locked => Exists(Ev(r))
  BY DEF Typed, ExistsInv
<1>6. CASE LockForBooking(r)
  <2>1. CASE Refuse(r, "event_not_found")
    <3>1. Told(r, "event_not_found")
      BY DEF Told, Silent
    <3>2. QED BY <1>6, <2>1, <3>1, RefuseAnswered DEF LockForBooking
  <2>2. CASE Goto(r, "exists")
    BY <1>6, <2>2, AdvanceAnswered DEF LockForBooking, Goto, TypeOK
  <2>3. QED BY <1>6, <2>1, <2>2 DEF LockForBooking
<1>7. CASE CheckExisting(r)
  <2> USE <1>7
  <2>1. Exists(Ev(r)) /\ loc[r].row = event[Ev(r)]
    BY <1>4, <1>5 DEF CheckExisting, Locked, BookKnows
  <2>2. CASE req[r].user \in bookings[Ev(r)] /\ Refuse(r, "already_booked")
    <3>1. Told(r, "already_booked")
      BY <2>1, <2>2 DEF Told
    <3>2. QED BY <2>2, <3>1, RefuseAnswered DEF CheckExisting
  <2>3. CASE /\ req[r].user \notin bookings[Ev(r)] /\ ~Bookable(r)
             /\ Refuse(r, "event_not_open")
    <3>1. Told(r, "event_not_open")
      BY <2>1, <2>3 DEF Told, Bookable
    <3>2. QED BY <2>3, <3>1, RefuseAnswered DEF CheckExisting
  <2>4. CASE Goto(r, "count")
    BY <2>4, AdvanceAnswered DEF CheckExisting, Goto, TypeOK
  <2>5. QED BY <2>2, <2>3, <2>4 DEF CheckExisting
<1>8. CASE CountBookings(r)
  <2> USE <1>8
  <2>1. /\ Exists(Ev(r)) /\ loc[r].row = event[Ev(r)]
        /\ req[r].user \notin bookings[Ev(r)]
    BY <1>4, <1>5 DEF CountBookings, Locked, BookKnows
  <2>2. CASE Full(r) /\ Refuse(r, "event_full")
    <3>1. /\ Cardinality(bookings[Ev(r)]) <= event[Ev(r)].capacity
          /\ Cardinality(bookings[Ev(r)]) \in Nat
      BY BookingsFinite DEF IInv, CapacityRespected
    <3>2. event[Ev(r)].capacity \in Nat
      BY <2>1 DEF TypeOK, EventRow, NoEvent, Exists
    <3>3. Cardinality(bookings[Ev(r)]) = event[Ev(r)].capacity
      BY <2>1, <2>2, <3>1, <3>2 DEF Full
    <3>4. Told(r, "event_full")
      BY <2>1, <3>3 DEF Told
    <3>5. QED BY <2>2, <3>4, RefuseAnswered DEF CountBookings
  <2>3. CASE Goto(r, "insert")
    BY <2>3, AdvanceAnswered DEF CountBookings, Goto, TypeOK
  <2>4. QED BY <2>2, <2>3 DEF CountBookings
<1>9. CASE InsertBooking(r)
  <2> USE <1>9
  <2>1. CASE req[r].user \in bookings[Ev(r)] /\ Refuse(r, "already_booked")
    <3>1. Told(r, "already_booked")
      BY <1>5, <2>1 DEF Told, InsertBooking, Locked
    <3>2. QED BY <2>1, <3>1, RefuseAnswered DEF InsertBooking
  <2>2. CASE Goto(r, "commit")
    BY <2>2, AdvanceAnswered DEF InsertBooking, Goto, TypeOK
  <2>3. QED BY <2>1, <2>2 DEF InsertBooking
<1>10. CASE CommitBooking(r)
  <2>1. Books(Ev(r), req[r].user)
    BY <1>10, BookingEffect DEF CommitBooking, Commits, IInv, KnowsInv, Knows
  <2>2. req[r].user \in bookings'[Ev(r)] /\ event'[Ev(r)].status = "open"
    BY <2>1 DEF Books, TypeOK
  <2>3. Told(r, "booked")'
    BY <2>2 DEF Told, Ev, Exists
  <2>4. QED BY <1>10, <2>3, ReplyAnswered, ZenonT(60) DEF CommitBooking, Finish, Goto, TypeOK
<1>11. QED BY <1>6, <1>7, <1>8, <1>9, <1>10 DEF BookingStep

\* Close and Cancel refuse for a lasting reason, and report the event as the
\* commit left it or as a later operation did.
LEMMA TransitionAnswered ==
  ASSUME IInv, [Next]_vars, NEW r \in Workers, Answered(r), EventStep(r)
  PROVE  Answered(r)'
<1>1. pc[r] # "idle"
  BY DEF EventStep, LockForTransition, UpdateStatus, CommitTransition, GetByID
<1> Ev(r) \in EventIds /\ Typed /\ TypeOK /\ Ev(r)' = req'[r].ev
  BY <1>1, BusyRequest DEF IInv, Typed, Ev
<1> req' = req
  BY DEF EventStep, LockForTransition, UpdateStatus, CommitTransition, GetByID
<1>4. CASE LockForTransition(r)
  <2> USE <1>4
  <2>1. CASE Refuse(r, "event_not_found")
    <3>1. Told(r, "event_not_found")
      BY DEF Told, Silent
    <3>2. QED BY <2>1, <3>1, RefuseAnswered DEF LockForTransition
  <2>2. CASE Goto(r, "update") \/ Goto(r, "commit")
    BY <2>2, AdvanceAnswered, ZenonT(60) DEF LockForTransition, Goto, TypeOK
  <2>3. CASE /\ Exists(Ev(r)) /\ Refuse(r, "invalid_transition")
             /\ event[Ev(r)].status \notin Sources(req[r].op) \cup {Target(req[r].op)}
    <3> USE <2>3
    <3>1. event[Ev(r)].status \in Status
      BY DEF TypeOK, EventRow, NoEvent, Exists
    <3>2. event[Ev(r)].status \in {"drawn", "cancelled"}
      BY <3>1 DEF LockForTransition, Sources, Target, Status
    <3>3. Told(r, "invalid_transition")
      BY <3>2 DEF Told
    <3>4. QED BY <3>3, RefuseAnswered, Zenon DEF LockForTransition
  <2>4. QED BY <2>1, <2>2, <2>3 DEF LockForTransition
<1>5. CASE UpdateStatus(r)
  BY <1>5, AdvanceAnswered, SMTT(30) DEF UpdateStatus, Goto, TypeOK
<1>6. CASE CommitTransition(r)
  <2> /\ pc[r] = "commit" /\ req[r].op \in {"close", "cancel"} /\ Apply(r)
      /\ answer' = answer /\ pc'[r] = "getByID"
    BY <1>6 DEF CommitTransition, Goto, TypeOK
  <2>2. \/ event[Ev(r)].status = Target(req[r].op) /\ writes[r] = NoWrites
        \/ writes[r] = [NoWrites EXCEPT !.status = Target(req[r].op)]
    BY DEF IInv, KnowsInv, TransitionKnows, Committing
  <2>3. event'[Ev(r)].status = Target(req[r].op)
    <3>1. Target(req[r].op) \in {"closed", "cancelled"}
      BY DEF Target
    <3>2. \/ event[Ev(r)].status = Target(req[r].op) /\ writes[r].status = "keep"
          \/ writes[r].status = Target(req[r].op)
      BY <2>2 DEF NoWrites
    <3>3. event[Ev(r)] \in EventRow \cup {NoEvent}
      BY DEF TypeOK
    <3>4. event'[Ev(r)].status =
            IF writes[r].status = "keep" THEN event[Ev(r)].status ELSE writes[r].status
      BY <3>3 DEF Apply, TypeOK, EventRow, NoEvent
    <3>5. QED BY <3>1, <3>2, <3>4
  <2>4. Told(r, Target(req[r].op))'
    BY <2>3 DEF Told, Target, Ev, Exists
  <2>5. Told(r, answer[r].code)' /\ Shown(r)'
    BY ToldStable, ShownStable, Zenon DEF Answered
  <2>6. QED BY <2>4, <2>5, Zenon DEF Answered, Read
<1>7. CASE GetByID(r)
  <2>1. Told(r, Target(req[r].op)) /\ UNCHANGED tables
    BY <1>7 DEF GetByID, Answered, Read
  <2>3. /\ answer'[r].code = Target(req[r].op)
        /\ answer'[r].status = event[Ev(r)].status
        /\ answer'[r].count = Cardinality(bookings[Ev(r)])
        /\ pc'[r] = "idle"
    BY <1>7 DEF GetByID, Finish, Goto, TypeOK, NoAnswer
  <2>4. event[Ev(r)].status \in {"closed", "drawn", "cancelled"}
    <3>1. event[Ev(r)] \in EventRow \cup {NoEvent}
      BY DEF TypeOK
    <3>2. Exists(Ev(r)) /\ event[Ev(r)].status # "open"
      BY <2>1 DEF Told, Target, Silent
    <3>3. QED BY <3>1, <3>2 DEF EventRow, NoEvent, Exists, Status
  <2>5. Target(req[r].op) \in {"closed", "cancelled"} /\ bookings' = bookings
    BY <2>1 DEF Target, tables
  <2>6. Shown(r)'
    BY <2>3, <2>4, <2>5, Zenon DEF Shown, Ev
  <2>7. PICK code : code = Target(req[r].op)
    OBVIOUS
  <2>8. Told(r, code)'
    BY <2>1, <2>7, ToldStable
  <2>9. QED BY <2>3, <2>6, <2>7, <2>8, Zenon DEF Answered, Read
<1>8. QED BY <1>4, <1>5, <1>6, <1>7 DEF EventStep

\* A rollback, a failed statement, a lost connection and a late commit leave
\* the client with an internal error, or with what the handler had decided.
LEMMA FailureAnswered ==
  ASSUME IInv, [Next]_vars, NEW r \in Workers, Answered(r),
         Rollback(r) \/ Failure(r) \/ Orphan(r)
  PROVE  Answered(r)'
<1> req' = req /\ TypeOK
  BY ZenonT(60) DEF Rollback, Failure, StatementFails, LoseConnection, Orphan, OrphanAborts,
         OrphanCommits, IInv, Typed
<1>2. Told(r, "internal")' /\ Told(r, "internal")
  BY ZenonT(60) DEF Told, Silent
<1>3. CASE Rollback(r)
  <2>1. /\ Told(r, loc[r].code) /\ loc[r].code \notin {"closed", "cancelled", "verified"}
        /\ pc'[r] = "idle" /\ answer'[r] = Reply(loc[r].code)
    BY <1>3, ZenonT(60) DEF Rollback, Finish, Goto, Answered, Read, TypeOK
  <2>2. PICK code : code = loc[r].code
    BY SMTT(30)
  <2>3. Told(r, code)'
    BY <2>1, <2>2, ToldStable, ZenonT(60)
  <2>4. QED BY <2>1, <2>2, <2>3, ReplyAnswered, SMTT(30)
<1>4. CASE StatementFails(r)
  BY <1>2, <1>4, RefuseAnswered DEF StatementFails
<1>5. CASE LoseConnection(r)
  <2>1. pc'[r] \in {"orphan", "orphanCommit"}
    BY <1>5 DEF LoseConnection, Goto, TypeOK
  <2>2. CASE UNCHANGED answer
    BY <2>1, <2>2, AdvanceAnswered, SMTT(30)
  <2>3. CASE answer'[r] = Reply("internal")
    BY <1>2, <2>1, <2>3, ReplyAnswered, Zenon
  <2>4. CASE pc[r] = "rollback" /\ answer'[r] = Reply(loc[r].code)
    <3>1. Told(r, loc[r].code) /\ loc[r].code \notin {"closed", "cancelled", "verified"}
      BY <2>4, Zenon DEF Answered, Read
    <3>2. PICK code : code = loc[r].code
      OBVIOUS
    <3>3. Told(r, code)'
      BY <3>1, <3>2, ToldStable
    <3>4. QED BY <2>1, <2>4, <3>1, <3>2, <3>3, ReplyAnswered
  <2>5. QED BY <1>5, <2>2, <2>3, <2>4 DEF LoseConnection, TypeOK
<1>6. CASE Orphan(r)
  <2>1. pc'[r] = "idle" /\ answer'[r] = answer[r]
    BY <1>6, SMTT(30) DEF Orphan, OrphanAborts, OrphanCommits, Finish, Goto, TypeOK
  <2>2. QED BY <2>1, AdvanceAnswered
<1>7. QED BY <1>3, <1>4, <1>5, <1>6, SMTT(30) DEF Failure

\* A new request and a Create start with nothing told about an event.
LEMMA ArriveAnswered ==
  ASSUME IInv, NEW r \in Workers, Arrive(r) \/ Create(r)
  PROVE  Answered(r)'
<1>1. pc'[r] \in {"lockRow", "fetchEvent", "idle"}
  BY Zenon DEF IInv, Typed, TypeOK, Arrive, BeginBooking, BeginClose, BeginCancel,
         BeginDraw, BeginResults, Begin, Goto, Create, CreateEvent
<1>2. answer'[r].code \in Silent
  <2>1. answer'[r] = NoAnswer
          \/ answer'[r] \in {Reply("created"), Reply("internal"), Reply("invalid_input")}
    BY DEF IInv, Typed, TypeOK, Arrive, BeginBooking, BeginClose, BeginCancel,
           BeginDraw, BeginResults, Begin, Create, CreateEvent
  <2>2. QED BY <2>1 DEF NoAnswer, Reply, Silent
<1>3. QED BY <1>1, <1>2, ZenonT(60) DEF Answered, Told, Shown, Read, Silent

-----------------------------------------------------------------------------
\* An event without a row is NoEvent.
LEMMA AbsentRow ==
  ASSUME TypeOK, NEW e \in EventIds
  PROVE  event[e].status \notin Status => event[e] = NoEvent
  BY DEF TypeOK, EventRow

\* Both specifications count with the Cardinality of FiniteSets.
LEMMA SameCardinality ==
  ASSUME NEW S
  PROVE  Lifecycle!Cardinality(S) = Cardinality(S)
  BY Zenon DEF Lifecycle!Cardinality, Cardinality

\* The rankings of the abstract specification are those of the draw.
LEMMA SameRankings ==
  ASSUME NEW S
  PROVE  Lifecycle!Rankings(S) = Orderings(S)
  BY SameCardinality DEF Lifecycle!Rankings, Orderings

\* The empty tables of a fresh database are the initial state of the lifecycle.
LEMMA InitLifecycle == Init => Lifecycle!Init
<1> SUFFICES ASSUME Init PROVE Lifecycle!Init
  OBVIOUS
<1>1. UsersOf(<<>>) = <<>>
  BY DEF UsersOf
<1>2. QED BY <1>1 DEF Init, InitDatabase, Lifecycle!Init

\* Each change of the tables is one step of the lifecycle.
LEMMA StepLifecycle ==
  ASSUME IInv, [Next]_vars
  PROVE  [Lifecycle!Next]_(Lifecycle!vars)
<1> DEFINE outcome == [e \in EventIds |-> UsersOf(draws[e])]
<1>1. TypeOK
  BY DEF IInv, Typed
<1>2. CASE UNCHANGED tables
  BY <1>2 DEF tables, Lifecycle!vars
<1>3. ASSUME NEW e \in EventIds, Opens(e) PROVE Lifecycle!Next
  <2>1. PICK row \in EventRow : row.status = "open" /\ event' = [event EXCEPT ![e] = row]
    BY <1>3, Zenon DEF Opens
  <2>2. event[e] = NoEvent
    BY <1>1, <1>3, AbsentRow DEF Opens, Exists, Status
  <2>3. event'[e] = row
    BY <1>1, <2>1 DEF TypeOK
  <2>4. UNCHANGED <<bookings, outcome>>
    BY <1>3 DEF Opens
  <2>5. Lifecycle!Create(e)
    BY <2>1, <2>2, <2>3, <2>4, Zenon DEF Lifecycle!Create
  <2>6. QED BY <2>5 DEF Lifecycle!Next
<1>4. ASSUME NEW e \in EventIds, NEW u \in Users, Books(e, u) PROVE Lifecycle!Next
  <2>1. Lifecycle!Book(e, u)
    BY <1>4, SameCardinality DEF Books, Lifecycle!Book
  <2>2. QED BY <2>1 DEF Lifecycle!Next
<1>5. ASSUME NEW e \in EventIds, Moves(e, Sources("close"), Target("close"))
      PROVE  Lifecycle!Next
  <2>1. Lifecycle!Close(e)
    BY <1>5 DEF Moves, Sources, Target, Lifecycle!Close
  <2>2. QED BY <2>1 DEF Lifecycle!Next
<1>6. ASSUME NEW e \in EventIds, Moves(e, Sources("cancel"), Target("cancel"))
      PROVE  Lifecycle!Next
  <2>1. Lifecycle!Cancel(e)
    BY <1>6 DEF Moves, Sources, Target, Lifecycle!Cancel
  <2>2. QED BY <2>1 DEF Lifecycle!Next
<1>7. ASSUME NEW e \in EventIds, Draws(e) PROVE Lifecycle!Next
  <2>1. PICK rows \in Seq(DrawRow) :
          /\ UsersOf(rows) \in Orderings(bookings[e])
          /\ draws' = [draws EXCEPT ![e] = rows]
    BY <1>7, Zenon DEF Draws
  <2>2. outcome' = [outcome EXCEPT ![e] = UsersOf(rows)]
    BY <1>1, <2>1, Zenon DEF TypeOK
  <2>3. UsersOf(rows) \in Lifecycle!Rankings(bookings[e])
    BY <2>1, SameRankings
  <2>4. /\ event[e].status = "closed" /\ bookings[e] # {} /\ UNCHANGED bookings
        /\ event' = [event EXCEPT ![e].status = "drawn"]
    BY <1>7 DEF Draws
  <2>5. Lifecycle!Draw(e)
    BY <2>2, <2>3, <2>4, ZenonT(60) DEF Lifecycle!Draw
  <2>6. QED BY <2>5 DEF Lifecycle!Next
<1>8. QED BY <1>2, <1>3, <1>4, <1>5, <1>6, <1>7, TableSteps DEF IInv

\* The detailed system implements the atomic lifecycle of EventLifecycle.
THEOREM ImplementsLifecycle == Spec => Promised
<1>1. IInv /\ [Next]_vars => [Lifecycle!Next]_(Lifecycle!vars)
  BY StepLifecycle
<1>2. QED BY <1>1, InitLifecycle, Inductive, PTL DEF Spec, Promised, Lifecycle!Spec

-----------------------------------------------------------------------------
\* A draw refuses for a lasting reason or announces the outcome it commits.
LEMMA DrawAnswered ==
  ASSUME IInv, [Next]_vars, NEW r \in Workers, Answered(r),
         \/ LockForDraw(r) \/ FetchParticipants(r) \/ InsertDraw(r)
         \/ InsertSeal(r) \/ MarkDrawn(r) \/ CommitDraw(r)
  PROVE  Answered(r)'
<1>1. pc[r] # "idle"
  BY Zenon DEF LockForDraw, FetchParticipants, InsertDraw, InsertSeal, MarkDrawn, CommitDraw
<1> Ev(r) \in EventIds /\ Typed /\ TypeOK
  BY <1>1, BusyRequest DEF IInv, Typed
<1> req' = req
  BY Zenon DEF LockForDraw, FetchParticipants, InsertDraw, InsertSeal, MarkDrawn, CommitDraw
<1>4. DrawKnows(r)
  BY DEF IInv, KnowsInv
<1>5. CASE LockForDraw(r)
  <2> USE <1>5
  <2>1. ASSUME NEW code \in {"event_not_found", "event_not_closed", "draw_not_due"},
               Refuse(r, code)
        PROVE  Answered(r)'
    <3>1. Told(r, code) /\ code \notin {"closed", "cancelled", "verified"}
      BY Zenon DEF Told, Silent
    <3>2. QED BY <2>1, <3>1, RefuseAnswered DEF LockForDraw
  <2>2. ASSUME NEW code \in {"already_drawn", "event_cancelled"}, Refuse(r, code),
               Exists(Ev(r)), event[Ev(r)].status \in {"drawn", "cancelled"}
        PROVE  Answered(r)'
    <3>1. Told(r, code)
      BY <2>2, Zenon DEF Told
    <3>2. QED BY <2>2, <3>1, RefuseAnswered, SMTT(30) DEF LockForDraw
  <2>3. CASE Goto(r, "participants")
    BY <2>3, AdvanceAnswered DEF LockForDraw, Goto, TypeOK
  <2>4. QED BY <2>1, <2>2, <2>3 DEF LockForDraw
<1>6. CASE FetchParticipants(r)
  <2>1. /\ pc[r] = "participants" /\ event[Ev(r)].status = "closed"
        /\ answer' = answer
    BY <1>4, <1>6, Zenon DEF FetchParticipants, DrawKnows
  <2>2. CASE bookings[Ev(r)] = {} /\ Refuse(r, "no_participants")
    <3>1. Told(r, "no_participants")
      BY <2>1, <2>2, Zenon DEF Told, Exists
    <3>2. QED BY <2>1, <2>2, <3>1, RefuseAnswered, Zenon
  <2>3. CASE Goto(r, "insertDraw")
    BY <2>1, <2>3, AdvanceAnswered, SMTT(30) DEF Goto, TypeOK
  <2>4. QED BY <1>6, <2>2, <2>3 DEF FetchParticipants
<1>7. CASE InsertDraw(r)
  <2>1. answer' = answer /\ pc'[r] \in {"seal", "insertDraw"}
    BY <1>7 DEF InsertDraw, Goto, TypeOK
  <2>2. QED BY <2>1, AdvanceAnswered, Zenon
<1>8. CASE InsertSeal(r) \/ MarkDrawn(r)
  <2>1. answer' = answer /\ pc'[r] \in {"markDrawn", "commit"}
    BY <1>8, SMTT(30) DEF InsertSeal, MarkDrawn, Goto, TypeOK
  <2>2. QED BY <2>1, AdvanceAnswered, Zenon
<1>9. CASE CommitDraw(r)
  <2>1. Draws(Ev(r)) /\ UsersOf(draws'[Ev(r)]) = loc[r].order
    BY <1>9, DrawEffect, ZenonT(60) DEF CommitDraw, Commits, IInv, KnowsInv, Knows
  <2>2. loc[r].row = event[Ev(r)]
    BY <1>4, <1>9, Zenon DEF DrawKnows, CommitDraw, Committing
  <2>3. /\ event'[Ev(r)].status = "drawn"
        /\ event'[Ev(r)].winnerCount = event[Ev(r)].winnerCount
    BY <2>1 DEF Draws, TypeOK, EventRow, NoEvent
  <2>4. /\ pc'[r] = "idle" /\ answer'[r].code = "verified"
        /\ answer'[r].winners = Winners(loc[r].order, loc[r].row.winnerCount)
        /\ answer'[r].waitlist = Waitlist(loc[r].order, loc[r].row.winnerCount)
    BY <1>9, SMTT(30) DEF CommitDraw, Finish, Goto, TypeOK, NoAnswer
  <2>5. Told(r, "verified")'
    BY <2>3, Zenon DEF Told, Ev, Exists
  <2>6. Shown(r)'
    BY <2>1, <2>2, <2>3, <2>4, Zenon DEF Shown, Ev
  <2>7. QED BY <2>4, <2>5, <2>6, Zenon DEF Answered, Read
<1>10. QED BY <1>5, <1>6, <1>7, <1>8, <1>9, SMTT(30)

\* Winners and waitlist cut out of the fetched rows are those of the draw.
LEMMA SplitShown ==
  ASSUME NEW s \in Seq(Users), NEW n \in Nat
  PROVE  /\ SubSeq(s, 1, IF n <= Len(s) THEN n ELSE Len(s)) = Winners(s, n)
         /\ SubSeq(s, n + 1, Len(s)) = Waitlist(s, n)
<1> Len(s) \in Nat /\ DOMAIN s = 1..Len(s) /\ s = [i \in 1..Len(s) |-> s[i]]
  BY ListLen, ListDef
<1>2. CASE n < Len(s)
  <2>1. (IF n <= Len(s) THEN n ELSE Len(s)) = n /\ ~(n >= Len(s))
    BY <1>2, SMTT(30)
  <2>2. QED BY <2>1, Zenon DEF Winners, Waitlist
<1>3. CASE n >= Len(s)
  <2>1. SubSeq(s, 1, Len(s)) = s
    OBVIOUS
  <2>2. SubSeq(s, n + 1, Len(s)) = <<>>
    BY <1>3
  <2>3. (IF n <= Len(s) THEN n ELSE Len(s)) = Len(s)
    BY <1>3
  <2>4. Winners(s, n) = s /\ Waitlist(s, n) = <<>>
    BY <1>3 DEF Winners, Waitlist
  <2>5. QED BY <2>1, <2>2, <2>3, <2>4, ZenonT(60)
<1>4. QED BY <1>2, <1>3

\* A drawn event has a row, and at least one winner.
LEMMA DrawnRow ==
  ASSUME TypeOK, NEW e \in EventIds, event[e].status = "drawn"
  PROVE  event[e].winnerCount \in Nat \ {0}
<1>1. event[e] \in EventRow
  BY DEF TypeOK, NoEvent
<1>2. QED BY <1>1 DEF EventRow

\* A results page shows the rows of the draw, which match their seal.
LEMMA ResultsAnswered ==
  ASSUME IInv, SealInv, [Next]_vars, NEW r \in Workers, Answered(r),
         FetchDrawnEvent(r) \/ FetchRows(r) \/ FetchSeal(r)
  PROVE  Answered(r)'
<1> pc[r] # "idle" /\ req' = req /\ UNCHANGED tables
  BY DEF FetchDrawnEvent, FetchRows, FetchSeal
<1> Ev(r) \in EventIds /\ Typed /\ TypeOK
  BY BusyRequest DEF IInv, Typed
<1>3. loc[r] \in Locals
  BY DEF TypeOK
<1>4. CASE FetchDrawnEvent(r)
  <2>1. CASE Refuse(r, "results_unavailable")
    <3>1. Told(r, "results_unavailable")
      BY Zenon DEF Told, Silent
    <3>2. QED BY <1>4, <2>1, <3>1, RefuseAnswered DEF FetchDrawnEvent
  <2>2. CASE /\ event[Ev(r)].status = "drawn" /\ Goto(r, "fetchRows")
             /\ loc' = [loc EXCEPT ![r].row = event[Ev(r)]]
    <3>1. /\ pc'[r] = "fetchRows" /\ loc'[r].row = event[Ev(r)]
          /\ event' = event /\ Ev(r)' = Ev(r) /\ answer' = answer
      BY <1>3, <1>4, <2>2
      DEF FetchDrawnEvent, Goto, TypeOK, Locals, Ev, tables
    <3>2. Told(r, answer[r].code)' /\ Shown(r)'
      BY <3>1, ToldStable, ShownStable, Zenon DEF Answered
    <3>3. QED BY <2>2, <3>1, <3>2 DEF Answered, Read
  <2>3. QED BY <1>4, <2>1, <2>2 DEF FetchDrawnEvent
<1>5. CASE FetchRows(r)
  <2>1. /\ pc[r] = "fetchRows" /\ pc'[r] = "fetchSeal" /\ answer' = answer
        /\ loc'[r].row = loc[r].row /\ loc'[r].fetched = draws[Ev(r)]
        /\ event' = event /\ draws' = draws /\ Ev(r)' = Ev(r)
    BY <1>3, <1>5, SMTT(30) DEF FetchRows, Goto, TypeOK, Locals, Ev, tables
  <2>2. Told(r, answer[r].code)' /\ Shown(r)'
    BY <2>1, ToldStable, ShownStable, Zenon DEF Answered
  <2>3. QED BY <2>1, <2>2, ZenonT(60) DEF Answered, Read
<1>6. CASE FetchSeal(r)
  <2>1. PICK e \in EventIds : e = Ev(r)
    OBVIOUS
  <2>2. PICK rows \in Seq(DrawRow) : rows = draws[e]
    BY DEF TypeOK
  <2> event[e].status = "drawn" /\ loc[r].row = event[e] /\ loc[r].fetched = rows
    BY <1>6, <2>1, <2>2, SMTT(30) DEF FetchSeal, Answered, Read
  <2>4. PICK n \in Nat : n = event[e].winnerCount
    BY DrawnRow, Zenon
  <2>5. Integrity(e, n, rows) = "verified"
    <3>1. rows # <<>> /\ seals[e] = {drawDigest(e, n, rows[1].drawnAt, rows)}
      BY <2>2, <2>4, Zenon DEF SealInv
    <3>2. QED BY <3>1, Zenon DEF Integrity
  <2>6. /\ SubSeq(UsersOf(rows), 1, IF n <= Len(rows) THEN n ELSE Len(rows))
             = Winners(UsersOf(rows), n)
        /\ SubSeq(UsersOf(rows), n + 1, Len(rows)) = Waitlist(UsersOf(rows), n)
    BY SplitShown, UsersOfSeq, Zenon
  <2>7. /\ pc'[r] = "idle" /\ answer'[r].code = "verified"
        /\ answer'[r].winners = Winners(UsersOf(rows), n)
        /\ answer'[r].waitlist = Waitlist(UsersOf(rows), n)
    BY <1>6, <2>1, <2>4, <2>5, <2>6
    DEF FetchSeal, Finish, Goto, TypeOK, NoAnswer
  <2>8. /\ Ev(r)' = e /\ draws'[e] = rows /\ event'[e].winnerCount = n
        /\ event'[e].status = "drawn"
    BY <2>1, <2>2, <2>4, Zenon DEF Ev, tables
  <2>9. Told(r, "verified")' /\ Shown(r)'
    BY <2>7, <2>8, ZenonT(60) DEF Told, Shown, Exists
  <2>10. QED BY <2>7, <2>9, ZenonT(60) DEF Answered, Read
<1>7. QED BY <1>4, <1>5, <1>6

\* The seal of a draw is written with its rows and never changes.
LEMMA NextSealInv ==
  ASSUME IInv, SealInv, [Next]_vars
  PROVE  SealInv'
<1> SUFFICES ASSUME NEW e \in EventIds, event'[e].status = "drawn"
             PROVE  /\ draws'[e] # <<>>
                    /\ seals'[e] = {drawDigest(e, event'[e].winnerCount,
                                               draws'[e][1].drawnAt, draws'[e])}
  BY DEF SealInv
<1> TypeOK
  BY DEF IInv, Typed
<1>2. CASE event[e].status = "drawn"
  <2>1. /\ event'[e] = event[e] /\ draws'[e] = draws[e] /\ seals'[e] = seals[e]
    BY <1>2, NextFinal DEF FinalUntouched
  <2>2. QED BY <1>2, <2>1 DEF SealInv
<1>3. CASE event[e].status # "drawn"
  <2> USE <1>3
  <2>1. Draws(e)
    <3>1. CASE UNCHANGED tables
      BY <3>1 DEF tables
    <3>2. ASSUME NEW f \in EventIds, Opens(f) PROVE Draws(e)
      BY <3>2 DEF Opens, TypeOK
    <3>3. ASSUME NEW f \in EventIds, NEW u \in Users, Books(f, u) PROVE Draws(e)
      BY <3>3 DEF Books
    <3>4. ASSUME NEW f \in EventIds, NEW op \in {"close", "cancel"},
                 Moves(f, Sources(op), Target(op))
          PROVE  Draws(e)
      BY <3>4 DEF Moves, Target, TypeOK, EventRow, NoEvent
    <3>5. ASSUME NEW f \in EventIds, Draws(f) PROVE Draws(e)
      <4>1. event' = [event EXCEPT ![f].status = "drawn"]
        BY <3>5, Zenon DEF Draws
      <4>2. e = f
        BY <4>1 DEF TypeOK
      <4>3. QED BY <3>5, <4>2
    <3>6. QED BY <3>1, <3>2, <3>3, <3>4, <3>5, TableSteps, Zenon DEF IInv
  <2>2. PICK rows \in Seq(DrawRow) :
          /\ rows # <<>> /\ draws' = [draws EXCEPT ![e] = rows]
          /\ seals' = [seals EXCEPT ![e] =
               {drawDigest(e, event[e].winnerCount, rows[1].drawnAt, rows)}]
    BY <2>1, Zenon DEF Draws
  <2>3. draws'[e] = rows
    BY <2>2, Zenon DEF TypeOK
  <2>4. seals'[e] = {drawDigest(e, event[e].winnerCount, rows[1].drawnAt, rows)}
    BY <2>2, Zenon DEF TypeOK
  <2>5. event'[e].winnerCount = event[e].winnerCount
    BY <2>1 DEF Draws, TypeOK, EventRow, NoEvent
  <2>6. QED BY <2>2, <2>3, <2>4, <2>5, SMTT(30)
<1>4. QED BY <1>2, <1>3, Zenon

\* Every step keeps what the clients were told, and the seals, true.
LEMMA NextAnswersInv == IInv /\ AnswersInv /\ [Next]_vars => AnswersInv'
<1> SUFFICES ASSUME IInv, AnswersInv, [Next]_vars PROVE AnswersInv'
  OBVIOUS
<1>1. SealInv' /\ SealInv
  BY NextSealInv DEF AnswersInv
<1>2. \A q \in Workers : Answered(q)
  BY DEF AnswersInv, Answered
<1>3. ASSUME NEW q \in Workers, pc'[q] = pc[q], req'[q] = req[q],
             loc'[q] = loc[q], answer'[q] = answer[q]
      PROVE  Answered(q)'
  <2>1. Told(q, answer[q].code)' /\ Shown(q)' /\ Read(q)'
    BY <1>2, <1>3, ToldStable, ShownStable, ReadStable, Zenon DEF Answered
  <2>2. QED BY <1>3, <2>1 DEF Answered
<1>4. ASSUME NEW r \in Workers, Acts(r), NEW q \in Workers PROVE Answered(q)'
  <2>1. CASE q = r
    BY <1>1, <1>2, <1>4, <2>1, ArriveAnswered, BookingAnswered, TransitionAnswered,
       DrawAnswered, ResultsAnswered, FailureAnswered
    DEF Acts, Step, LotteryStep
  <2>2. CASE q # r
    BY <1>3, <1>4, <2>2, OthersUntouched, OthersAnswers, ZenonT(60) DEF IInv
  <2>3. QED BY <2>1, <2>2
<1>5. ASSUME Tick \/ UNCHANGED vars, NEW q \in Workers PROVE Answered(q)'
  BY <1>3, <1>5, Zenon DEF Tick, vars
<1>6. \A q \in Workers : Answered(q)'
  BY <1>4, <1>5 DEF Next, Acts
<1>7. QED BY <1>1, <1>6, Zenon DEF AnswersInv, Answered

\* It holds in every reachable state.
LEMMA AnswersInductive == Spec => [](IInv /\ AnswersInv)
<1>1. ASSUME Init PROVE AnswersInv
  <2>1. SealInv
    BY <1>1, SMTT(30) DEF Init, InitDatabase, SealInv, NoEvent
  <2>2. ASSUME NEW r \in Workers PROVE Told(r, answer[r].code) /\ Shown(r) /\ Read(r)
    <3>1. answer[r].code = "none" /\ pc[r] = "idle"
      BY <1>1 DEF Init, InitDatabase, NoAnswer
    <3>2. QED BY <3>1, ZenonT(60) DEF Told, Shown, Read, Silent
  <2>3. QED BY <2>1, <2>2 DEF AnswersInv
<1>2. QED BY <1>1, InitIInv, NextIInv, NextAnswersInv, PTL DEF Spec

-----------------------------------------------------------------------------
\* A confirmed booking is never lost, and a user who was told that the event
\* is full or not open never turns up in its lottery.
THEOREM BookingAnswersTrue == Spec => []BookingAnswersHold
<1>1. AnswersInv => BookingAnswersHold
  BY ZenonT(60) DEF AnswersInv, BookingAnswersHold, Told, Silent
<1>2. QED BY <1>1, AnswersInductive, PTL

\* The count in the reply to Close or Cancel is final, and a transition or a
\* draw is refused only for a reason that lasts.
THEOREM AdminAnswersTrue == Spec => []AdminAnswersHold
<1>1. AnswersInv => AdminAnswersHold
  BY ZenonT(60) DEF AnswersInv, AdminAnswersHold, Told, Shown, Silent
<1>2. QED BY <1>1, AnswersInductive, PTL

\* The three queries of a results page never find a draw without its seal or
\* rows that do not match it.
THEOREM SealsAlwaysMatch == Spec => []ResultsVerify
<1>1. AnswersInv => ResultsVerify
  BY Zenon DEF AnswersInv, ResultsVerify, Told, Silent
<1>2. QED BY <1>1, AnswersInductive, PTL

\* Every client that is shown the outcome of an event is shown the same one.
THEOREM OneOutcome == Spec => []ResultsAgree
<1>1. IInv /\ AnswersInv => ResultsAgree
  <2> SUFFICES ASSUME IInv, AnswersInv, NEW q \in Workers, NEW r \in Workers,
                      answer[q].code = "verified", answer[r].code = "verified",
                      Ev(q) = Ev(r)
               PROVE  /\ answer[q].winners = answer[r].winners
                      /\ answer[q].waitlist = answer[r].waitlist
                      /\ answer[q].winners # <<>>
    BY DEF ResultsAgree
  <2>1. PICK e \in EventIds : e = Ev(q) /\ event[e].status = "drawn"
    BY Zenon DEF AnswersInv, Told, Silent
  <2>2. PICK rows \in Seq(DrawRow) : rows = draws[e]
    BY SMTT(30) DEF IInv, Typed, TypeOK
  <2>3. PICK n \in Nat \ {0} : n = event[e].winnerCount
    BY <2>1, DrawnRow, ZenonT(60) DEF IInv, Typed
  <2>4. /\ answer[q].winners = Winners(UsersOf(rows), n)
        /\ answer[r].winners = Winners(UsersOf(rows), n)
        /\ answer[q].waitlist = answer[r].waitlist
    BY <2>1, <2>2, <2>3, Zenon DEF AnswersInv, Shown
  <2>5. rows # <<>>
    BY <2>1, <2>2, Zenon DEF AnswersInv, SealInv
  <2>6. Winners(UsersOf(rows), n) # <<>>
    <3>1. PICK s \in Seq(Users) : s = UsersOf(rows) /\ Len(s) \in Nat \ {0}
      BY <2>5, UsersOfSeq, ListEmpty
    <3>2. Winners(s, n) # <<>>
      BY <3>1 DEF Winners
    <3>3. QED BY <3>1, <3>2, Zenon
  <2>7. QED BY <2>4, <2>6
<1>2. QED BY <1>1, AnswersInductive, PTL
=============================================================================
