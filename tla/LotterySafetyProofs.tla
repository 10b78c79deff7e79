------------------------- MODULE LotterySafetyProofs -------------------------
(***************************************************************************)
(* The safety theorems of LotterySystem, from the inductive invariant IInv *)
(* of LotteryInvariant.                                                    *)
(***************************************************************************)
EXTENDS LotteryTypeProofs

-----------------------------------------------------------------------------
(***************************************************************************)
(* The frame of a step: what a worker r cannot change.                     *)
(***************************************************************************)
Acts(r) == Arrive(r) \/ Create(r) \/ Step(r) \/ Failure(r) \/ Orphan(r)

\* A transaction that has just begun has written nothing.
LEMMA NothingWritten ==
  /\ NoWrites.users = {} /\ NoWrites.seals = {}
  /\ NoWrites.rows = <<>> /\ NoWrites.status = "keep"
  BY DEF NoWrites

\* A handler changes neither the progress nor the transaction of another one.
LEMMA OthersUntouched ==
  ASSUME Typed, NEW r \in Workers, Acts(r), NEW q \in Workers, q # r
  PROVE  /\ pc'[q] = pc[q] /\ req'[q] = req[q]
         /\ loc'[q] = loc[q] /\ writes'[q] = writes[q]
<1> USE DEF Goto, Refuse, Finish, Begin
<1>1. CASE Arrive(r)
  BY <1>1 DEF Typed, TypeOK, Arrive, BeginBooking, BeginClose, BeginCancel,
              BeginDraw, BeginResults
<1>2. CASE Create(r)
  BY <1>2 DEF Typed, TypeOK, Create, CreateEvent
<1>3. CASE BookingStep(r)
  BY <1>3 DEF Typed, TypeOK, BookingStep, LockForBooking, CheckExisting,
              CountBookings, InsertBooking, CommitBooking
<1>4. CASE EventStep(r)
  BY <1>4 DEF Typed, TypeOK, EventStep, LockForTransition, UpdateStatus,
              CommitTransition, GetByID
<1>5. CASE LotteryStep(r)
  <2>1. CASE LockForDraw(r)
    BY <2>1 DEF Typed, TypeOK, LockForDraw
  <2>2. CASE FetchParticipants(r)
    BY <2>2, Zenon DEF Typed, TypeOK, FetchParticipants
  <2>3. CASE InsertDraw(r) \/ InsertSeal(r) \/ MarkDrawn(r) \/ CommitDraw(r)
    BY <2>3 DEF Typed, TypeOK, InsertDraw, InsertSeal, MarkDrawn, CommitDraw
  <2>4. CASE FetchDrawnEvent(r) \/ FetchRows(r) \/ FetchSeal(r)
    BY <2>4 DEF Typed, TypeOK, FetchDrawnEvent, FetchRows, FetchSeal
  <2>5. QED BY <1>5, <2>1, <2>2, <2>3, <2>4 DEF LotteryStep
<1>6. CASE Rollback(r) \/ Failure(r) \/ Orphan(r)
  BY <1>6 DEF Typed, TypeOK, Rollback, Failure, StatementFails, LoseConnection,
              Orphan, OrphanAborts, OrphanCommits
<1>7. QED BY <1>1, <1>2, <1>3, <1>4, <1>5, <1>6 DEF Acts, Step

\* The actions that commit the writes of worker r.
Commits(r) ==
  CommitBooking(r) \/ CommitTransition(r) \/ CommitDraw(r) \/ OrphanCommits(r)

\* A step that commits nothing and creates no event leaves the tables alone.
LEMMA TablesChange ==
  ASSUME Typed, NEW r \in Workers, Acts(r)
  PROVE  UNCHANGED tables \/ Create(r) \/ Commits(r)
<1>1. CASE Arrive(r)
  BY <1>1 DEF Arrive, BeginBooking, BeginClose, BeginCancel, BeginDraw,
              BeginResults, Begin
<1>2. CASE BookingStep(r)
  BY <1>2 DEF BookingStep, LockForBooking, CheckExisting, CountBookings,
              InsertBooking, Commits
<1>3. CASE EventStep(r)
  BY <1>3 DEF EventStep, LockForTransition, UpdateStatus, GetByID, Commits
<1>4. CASE LotteryStep(r)
  BY <1>4 DEF LotteryStep, LockForDraw, FetchParticipants, InsertDraw, InsertSeal,
              MarkDrawn, FetchDrawnEvent, FetchRows, FetchSeal, Commits
<1>5. CASE Rollback(r) \/ Failure(r) \/ Orphan(r)
  BY <1>5 DEF Rollback, Failure, StatementFails, LoseConnection, Orphan,
              OrphanAborts, Commits
<1>6. QED BY <1>1, <1>2, <1>3, <1>4, <1>5 DEF Acts, Step

\* A row lock changes hands only to or from the worker that acts.
LEMMA LocksChange ==
  ASSUME Typed, NEW r \in Workers, Acts(r), NEW e \in EventIds,
         rowLock[e] \notin {None, r}
  PROVE  rowLock'[e] = rowLock[e]
<1> USE DEF Release, LockRow
<1>1. CASE Arrive(r)
  BY <1>1 DEF Arrive, BeginBooking, BeginClose, BeginCancel, BeginDraw,
              BeginResults, Begin
<1>2. CASE Create(r)
  BY <1>2 DEF Create, CreateEvent
<1>3. CASE BookingStep(r)
  BY <1>3 DEF Typed, TypeOK, BookingStep, LockForBooking, CheckExisting,
              CountBookings, InsertBooking, CommitBooking
<1>4. CASE EventStep(r)
  BY <1>4, SMTT(30) DEF Typed, TypeOK, EventStep, LockForTransition, UpdateStatus,
              CommitTransition, GetByID
<1>5. CASE LotteryStep(r)
  BY <1>5 DEF Typed, TypeOK, LotteryStep, LockForDraw, FetchParticipants,
              InsertDraw, InsertSeal, MarkDrawn, CommitDraw, FetchDrawnEvent,
              FetchRows, FetchSeal
<1>6. CASE Rollback(r) \/ Failure(r) \/ Orphan(r)
  BY <1>6 DEF Rollback, Failure, StatementFails, LoseConnection, Orphan,
              OrphanAborts, OrphanCommits
<1>7. QED BY <1>1, <1>2, <1>3, <1>4, <1>5, <1>6 DEF Acts, Step

\* A commit happens under the row lock and touches the tables of one event.
LEMMA CommitTouches ==
  ASSUME Typed, NEW r \in Workers, Commits(r)
  PROVE  /\ pc[r] \in {"commit", "orphanCommit"} /\ pc[r] \in Locked
         /\ Ev(r) \in EventIds /\ Apply(r) /\ Release(r)
         /\ \A e \in EventIds \ {Ev(r)} :
              /\ event'[e] = event[e] /\ bookings'[e] = bookings[e]
              /\ draws'[e] = draws[e] /\ seals'[e] = seals[e]
<1>1. /\ pc[r] \in {"commit", "orphanCommit"} /\ Apply(r) /\ Release(r)
  BY DEF Commits, CommitBooking, CommitTransition, CommitDraw, OrphanCommits
<1>2. pc[r] \in Locked /\ Ev(r) \in EventIds
  BY <1>1, BusyRequest DEF Locked
<1>3. QED BY <1>1, <1>2 DEF Typed, TypeOK, Apply

\* While a worker is under the row lock of an event, no step of another one
\* touches the event, its bookings, its draw or the lock.
LEMMA LockedEventUntouched ==
  ASSUME Typed, LockInv, NEW r \in Workers, Acts(r),
         NEW q \in Workers, q # r, pc[q] \in Locked
  PROVE  /\ Ev(q) \in EventIds /\ rowLock'[Ev(q)] = q
         /\ event'[Ev(q)] = event[Ev(q)] /\ bookings'[Ev(q)] = bookings[Ev(q)]
         /\ draws'[Ev(q)] = draws[Ev(q)] /\ seals'[Ev(q)] = seals[Ev(q)]
<1> Ev(q) \in EventIds /\ rowLock[Ev(q)] = q /\ Exists(Ev(q))
  BY BusyRequest DEF LockInv, Typed, ExistsInv, Locked
<1>2. rowLock'[Ev(q)] = q
  BY LocksChange, NoneAssumption
<1>3. CASE UNCHANGED tables
  BY <1>2, <1>3 DEF tables
<1>4. CASE Create(r)
  BY <1>2, <1>4 DEF Typed, TypeOK, Create, CreateEvent
<1>5. CASE Commits(r)
  <2>1. Ev(q) # Ev(r)
    BY <1>5, CommitTouches DEF LockInv
  <2>2. QED BY <1>2, <1>5, <2>1, CommitTouches
<1>6. QED BY <1>3, <1>4, <1>5, TablesChange


\* Only Tick moves the clock.
LEMMA ClockStands ==
  ASSUME NEW r \in Workers, Acts(r)
  PROVE  clock' = clock
<1>1. CASE Arrive(r) \/ Create(r)
  BY <1>1, SMTT(30) DEF Arrive, BeginBooking, BeginClose, BeginCancel, BeginDraw,
              BeginResults, Begin, Create, CreateEvent
<1>2. CASE Step(r)
  BY <1>2, Zenon DEF Step, BookingStep, EventStep, LotteryStep, LockForBooking,
     CheckExisting, CountBookings, InsertBooking, CommitBooking, LockForTransition,
     UpdateStatus, CommitTransition, GetByID, LockForDraw, FetchParticipants,
     InsertDraw, InsertSeal, MarkDrawn, CommitDraw, FetchDrawnEvent, FetchRows,
     FetchSeal, Rollback
<1>3. CASE Failure(r) \/ Orphan(r)
  BY <1>3 DEF Failure, StatementFails, LoseConnection, Orphan, OrphanAborts,
              OrphanCommits
<1>4. QED BY <1>1, <1>2, <1>3 DEF Acts

-----------------------------------------------------------------------------
(***************************************************************************)
(* Mutual exclusion: a transaction past its locking read holds the lock.   *)
(***************************************************************************)

\* The worker that acts holds the lock of its event if it is past the read.
LEMMA OwnLock ==
  ASSUME Typed, LockInv, NEW r \in Workers, Acts(r), pc'[r] \in Locked
  PROVE  rowLock'[Ev(r)'] = r
<1> USE DEF Goto, Refuse, Finish
<1>1. pc[r] # "idle" => Ev(r) \in EventIds
  BY BusyRequest
<1>2. CASE Arrive(r) \/ Create(r)
  BY <1>2 DEF Typed, TypeOK, Arrive, BeginBooking, BeginClose, BeginCancel,
              BeginDraw, BeginResults, Begin, Create, CreateEvent, Locked
<1>3. CASE LockForBooking(r) \/ LockForTransition(r) \/ LockForDraw(r)
  BY <1>1, <1>3 DEF Typed, TypeOK, LockForBooking, LockForTransition, LockForDraw,
              LockRow, Locked, Ev
<1>4. CASE CheckExisting(r) \/ CountBookings(r) \/ InsertBooking(r) \/ UpdateStatus(r)
  BY <1>4 DEF Typed, TypeOK, LockInv, Locked, Ev, CheckExisting, CountBookings,
              InsertBooking, UpdateStatus
<1>5. CASE FetchParticipants(r) \/ InsertDraw(r) \/ InsertSeal(r) \/ MarkDrawn(r)
  BY <1>5 DEF Typed, TypeOK, LockInv, Locked, Ev, FetchParticipants, InsertDraw,
              InsertSeal, MarkDrawn
<1>6. CASE GetByID(r) \/ FetchDrawnEvent(r) \/ FetchRows(r) \/ FetchSeal(r)
  BY <1>6 DEF Typed, TypeOK, Locked, GetByID, FetchDrawnEvent, FetchRows, FetchSeal
<1>7. CASE CommitBooking(r) \/ CommitTransition(r) \/ CommitDraw(r)
  BY <1>7 DEF Typed, TypeOK, Locked, CommitBooking, CommitTransition, CommitDraw
<1>8. CASE Rollback(r) \/ Orphan(r) \/ StatementFails(r)
  BY <1>8 DEF Typed, TypeOK, Locked, Rollback, Orphan, OrphanAborts, OrphanCommits,
              StatementFails
<1>9. CASE LoseConnection(r)
  BY <1>9 DEF Typed, TypeOK, LockInv, Locked, Ev, LoseConnection
<1>10. QED
  BY <1>2, <1>3, <1>4, <1>5, <1>6, <1>7, <1>8, <1>9
  DEF Acts, Step, BookingStep, EventStep, LotteryStep, Failure

\* Every step keeps the row lock with the transaction that is past its locking read.
LEMMA NextLockInv ==
  ASSUME Typed, LockInv, [Next]_vars
  PROVE  LockInv'
<1>1. ASSUME NEW r \in Workers, Acts(r) PROVE LockInv'
  <2> SUFFICES ASSUME NEW q \in Workers, pc'[q] \in Locked
               PROVE  rowLock'[Ev(q)'] = q
    BY DEF LockInv
  <2>1. CASE q = r
    BY <1>1, <2>1, OwnLock
  <2>2. CASE q # r
    BY <1>1, <2>2, OthersUntouched, LockedEventUntouched DEF Ev
  <2>3. QED BY <2>1, <2>2
<1>2. CASE Tick \/ UNCHANGED vars
  BY <1>2 DEF Tick, vars, LockInv, Ev
<1>3. QED BY <1>1, <1>2 DEF Next, Acts

\* Serialised: the row lock keeps the transactions of an event apart, for any
\* number of workers and any failure.
THEOREM MutualExclusion == Spec => []Serialised
<1>1. Init => LockInv
  BY DEF Init, InitDatabase, LockInv, Locked
<1>2. Spec => [](Typed /\ LockInv)
  BY <1>1, InitTyped, NextTyped, NextLockInv, PTL DEF Spec
<1>3. LockInv => Serialised
  BY DEF LockInv, Serialised
<1>4. QED BY <1>2, <1>3, PTL

-----------------------------------------------------------------------------
(***************************************************************************)
(* What a transaction has found out stays true until it ends.              *)
(***************************************************************************)
Knows(r) == BookKnows(r) /\ TransitionKnows(r) /\ DrawKnows(r)

\* A step of another worker does not invalidate what a transaction knows.
LEMMA KnowledgeIsStable ==
  ASSUME Typed, LockInv, NEW r \in Workers, Acts(r),
         NEW q \in Workers, q # r, Knows(q)
  PROVE  Knows(q)'
<1>1. /\ pc'[q] = pc[q] /\ req'[q] = req[q] /\ clock' = clock
      /\ loc'[q] = loc[q] /\ writes'[q] = writes[q] /\ Ev(q)' = Ev(q)
  BY OthersUntouched, ClockStands DEF Ev
<1>2. CASE pc[q] \notin Locked
  BY <1>1, <1>2 DEF Knows, BookKnows, TransitionKnows, DrawKnows, Committing, Locked
<1>3. CASE pc[q] \in Locked
  <2>1. event'[Ev(q)] = event[Ev(q)] /\ bookings'[Ev(q)] = bookings[Ev(q)]
    BY <1>3, LockedEventUntouched
  <2>2. BookKnows(q)' /\ TransitionKnows(q)'
    BY <1>1, <2>1 DEF Knows, BookKnows, TransitionKnows, Committing
  <2>3. DrawKnows(q)'
    BY <1>1, <2>1 DEF Knows, DrawKnows, Committing
  <2>4. QED BY <2>2, <2>3 DEF Knows
<1>4. QED BY <1>2, <1>3


\* A worker outside the locked part of a transaction has nothing to know.
LEMMA NothingToKnow ==
  ASSUME NEW r \in Workers, pc'[r] \notin Locked
  PROVE  Knows(r)'
  BY DEF Knows, BookKnows, TransitionKnows, DrawKnows, Committing, Locked

\* Before its commit a booking only relies on what a booking has found out,
LEMMA OnlyBookKnows ==
  ASSUME NEW r \in Workers, pc'[r] \in {"exists", "count", "insert"}, BookKnows(r)'
  PROVE  Knows(r)'
  BY DEF Knows, TransitionKnows, DrawKnows, Committing

\* and Close and Cancel on what they have found out.
LEMMA OnlyTransitionKnows ==
  ASSUME NEW r \in Workers, pc'[r] = "update" \/ Committing(r, {"close", "cancel"})',
         TransitionKnows(r)'
  PROVE  Knows(r)'
  BY DEF Knows, BookKnows, DrawKnows, Committing

\* The steps of createBooking establish what the next one relies on.
LEMMA BookingLearns ==
  ASSUME Typed, NEW r \in Workers, Knows(r), BookingStep(r)
  PROVE  Knows(r)'
<1> USE DEF Goto, Refuse, Finish
<1>1. Ev(r) \in EventIds /\ loc[r] \in Locals /\ writes[r] \in Writes
  BY BusyRequest, SMTT(30) DEF Typed, TypeOK, BookingStep, LockForBooking, CheckExisting,
                     CountBookings, InsertBooking, CommitBooking
<1>2. CASE LockForBooking(r)
  <2>1. pc'[r] \in {"exists", "rollback"} /\ event' = event /\ Ev(r)' = Ev(r)
        /\ (pc'[r] = "exists" => loc'[r].row = event[Ev(r)])
    BY <1>1, <1>2 DEF Typed, TypeOK, LockForBooking, Locals, tables, Ev
  <2>2. pc'[r] = "exists" => BookKnows(r)'
    BY <2>1 DEF BookKnows, Committing
  <2>3. QED BY <2>1, <2>2, NothingToKnow, OnlyBookKnows DEF Locked
<1>3. CASE CheckExisting(r)
  <2>1. /\ pc'[r] \in {"count", "rollback"} /\ event' = event /\ Ev(r)' = Ev(r)
        /\ bookings' = bookings /\ req' = req
        /\ pc'[r] = "count" => /\ loc' = loc /\ loc[r].row.status = "open"
                              /\ req[r].user \notin bookings[Ev(r)]
    BY <1>3 DEF Typed, TypeOK, CheckExisting, Bookable, tables, Ev
  <2>2. loc[r].row = event[Ev(r)]
    BY <1>3 DEF Knows, BookKnows, CheckExisting
  <2>3. pc'[r] = "count" => BookKnows(r)'
    BY <2>1, <2>2 DEF BookKnows, Committing
  <2>4. QED BY <2>1, <2>3, NothingToKnow, OnlyBookKnows DEF Locked
<1>4. CASE CountBookings(r)
  <2>1. Cardinality(bookings[Ev(r)]) \in Nat /\ event[Ev(r)].capacity \in Nat
    BY <1>1, BookingsFinite, SMTT(30) DEF Typed, TypeOK, EventRow, NoEvent
  <2>2. loc[r].row = event[Ev(r)] /\ event[Ev(r)].status = "open"
        /\ req[r].user \notin bookings[Ev(r)]
    BY <1>4 DEF Knows, BookKnows, CountBookings
  <2>3. /\ pc'[r] \in {"insert", "rollback"} /\ event' = event /\ Ev(r)' = Ev(r)
        /\ bookings' = bookings /\ req' = req
        /\ pc'[r] = "insert" => loc' = loc /\ ~Full(r)
    BY <1>4 DEF Typed, TypeOK, CountBookings, tables, Ev
  <2>4. pc'[r] = "insert" => Cardinality(bookings[Ev(r)]) < event[Ev(r)].capacity
    BY <2>1, <2>2, <2>3 DEF Full
  <2>5. pc'[r] = "insert" => BookKnows(r)'
    BY <2>2, <2>3, <2>4 DEF BookKnows, Committing
  <2>6. QED BY <2>3, <2>5, NothingToKnow, OnlyBookKnows DEF Locked
<1>5. CASE InsertBooking(r)
  <2>1. writes[r] = NoWrites /\ req[r].op = "book"
    BY <1>5 DEF Typed, FreshInv, Fresh, OpInv, Fits, InsertBooking
  <2>2. QED
    BY <1>1, <1>5, <2>1 DEF Typed, TypeOK, InsertBooking, Knows, BookKnows,
       TransitionKnows, DrawKnows, Committing, tables, Ev
<1>6. CASE CommitBooking(r)
  BY <1>6, NothingToKnow DEF Typed, TypeOK, CommitBooking, Locked
<1>7. QED BY <1>2, <1>3, <1>4, <1>5, <1>6, SMTT(30) DEF BookingStep

\* The steps of Close and Cancel establish what the next one relies on.
LEMMA TransitionLearns ==
  ASSUME Typed, NEW r \in Workers, Knows(r), EventStep(r)
  PROVE  Knows(r)'
<1> USE DEF Goto, Refuse, Finish
<1>1. CASE LockForTransition(r)
  <2>1. writes[r] = NoWrites /\ Ev(r) \in EventIds
    BY <1>1, BusyRequest DEF Typed, FreshInv, Fresh, LockForTransition
  <2>2. /\ event' = event /\ req' = req /\ writes' = writes /\ Ev(r)' = Ev(r)
        /\ req[r].op \in {"close", "cancel"}
        /\ \/ pc'[r] = "update" /\ event[Ev(r)].status \in Sources(req[r].op)
           \/ pc'[r] = "commit" /\ event[Ev(r)].status = Target(req[r].op)
           \/ pc'[r] = "rollback"
    BY <1>1 DEF Typed, TypeOK, LockForTransition, tables, Ev
  <2>3. pc'[r] # "rollback" => TransitionKnows(r)'
    BY <2>1, <2>2 DEF TransitionKnows, Committing
  <2>4. pc'[r] = "rollback" \/ pc'[r] = "update" \/ Committing(r, {"close", "cancel"})'
    BY <2>2 DEF Committing
  <2>5. QED BY <2>3, <2>4, NothingToKnow, OnlyTransitionKnows DEF Locked
<1>2. CASE UpdateStatus(r)
  <2>1. writes[r] = NoWrites /\ req[r].op \in {"close", "cancel"}
    BY <1>2 DEF Typed, FreshInv, Fresh, OpInv, Fits, UpdateStatus
  <2>2. QED
    BY <1>2, <2>1 DEF Typed, TypeOK, UpdateStatus, Knows, BookKnows,
       TransitionKnows, DrawKnows, Committing, tables, Ev
<1>3. CASE CommitTransition(r) \/ GetByID(r)
  BY <1>3, NothingToKnow, Zenon DEF Typed, TypeOK, CommitTransition, GetByID, Locked
<1>4. QED BY <1>1, <1>2, <1>3 DEF EventStep


\* The ranking a draw works from, one row at a time.
LEMMA RowsGrow ==
  ASSUME NEW rows \in Seq(DrawRow), NEW order \in Seq(Users), NEW stamp \in Nat,
         RowsFollow(rows, order, stamp), Len(rows) < Len(order),
         NEW row \in DrawRow,
         row = [user |-> order[Len(rows) + 1], total |-> Len(order), drawnAt |-> stamp]
  PROVE  RowsFollow(Append(rows, row), order, stamp)
<1>1. /\ Append(rows, row) \in Seq(DrawRow)
      /\ Len(Append(rows, row)) = Len(rows) + 1
      /\ \A i \in 1..Len(rows) : Append(rows, row)[i] = rows[i]
      /\ Append(rows, row)[Len(rows) + 1] = row
  BY ListAppend
<1>2. \A i \in 1..(Len(rows) + 1) : i \in 1..Len(rows) \/ i = Len(rows) + 1
  BY ListLen
<1>3. QED BY <1>1, <1>2 DEF RowsFollow

\* The steps of RunDraw establish what the next one relies on.
LEMMA DrawLearns ==
  ASSUME Typed, BeganInv, NEW r \in Workers, Knows(r),
         \/ LockForDraw(r) \/ FetchParticipants(r) \/ InsertDraw(r)
         \/ InsertSeal(r) \/ MarkDrawn(r) \/ CommitDraw(r)
  PROVE  Knows(r)'
<1> USE DEF Goto, Refuse, Finish
<1> Ev(r) \in EventIds /\ loc[r] \in Locals /\ writes[r] \in Writes
  BY BusyRequest, Zenon DEF Typed, TypeOK, LockForDraw, FetchParticipants, InsertDraw,
                     InsertSeal, MarkDrawn, CommitDraw
<1>2. event[Ev(r)] \in EventRow \cup {NoEvent} /\ clock \in Nat /\ loc[r].began \in Nat
  BY NumberAssumption DEF Typed, TypeOK, Locals
<1>3. CASE LockForDraw(r)
  <2>1. CASE pc'[r] \notin Locked
    BY <2>1, NothingToKnow
  <2>2. CASE pc'[r] \in Locked
    <3>1. /\ pc' = [pc EXCEPT ![r] = "participants"]
          /\ event[Ev(r)].status = "closed" /\ Due(r, event[Ev(r)])
          /\ loc' = [loc EXCEPT ![r].row = event[Ev(r)]]
          /\ UNCHANGED <<tables, clock, req>>
      BY <1>3, <2>2 DEF Typed, TypeOK, LockForDraw, Locked
    <3>2. event[Ev(r)].drawAt <= clock
      BY <1>2, <3>1 DEF Due, BeganInv, EventRow, NoEvent
    <3>3. QED
      BY <3>1, <3>2 DEF Typed, TypeOK, Knows, BookKnows, TransitionKnows,
         DrawKnows, Committing, Locals, tables, Ev
  <2>3. QED BY <2>1, <2>2
<1>4. CASE FetchParticipants(r)
  <2> USE <1>4
  <2>1. CASE bookings[Ev(r)] = {}
    BY <2>1, NothingToKnow, Zenon DEF Typed, TypeOK, FetchParticipants, Locked
  <2>2. CASE bookings[Ev(r)] # {}
    <3>1. PICK s \in Orderings(bookings[Ev(r)]), now \in AppTimes :
            loc' = [loc EXCEPT ![r].order = s, ![r].stamp = Truncate(now)]
      BY <2>2, Zenon DEF FetchParticipants
    <3>2. Stored(Truncate(now)) = Truncate(now)
      BY TruncateStored, TimesAssumption
    <3>3. writes[r] = NoWrites /\ RowsFollow(<<>>, s, Truncate(now))
      BY DEF Typed, FreshInv, Fresh, FetchParticipants, RowsFollow
    <3> /\ pc'[r] = "insertDraw" /\ writes'[r] = NoWrites /\ Ev(r)' = Ev(r)
        /\ loc'[r].order = s /\ loc'[r].stamp = Truncate(now)
        /\ loc'[r].row = loc[r].row /\ clock' = clock
        /\ event' = event /\ bookings' = bookings
      BY <2>2, <3>1, <3>3, Zenon DEF Typed, TypeOK, FetchParticipants, Locals, tables, Ev
    <3>5. event[Ev(r)].status = "closed" /\ loc[r].row = event[Ev(r)]
          /\ event[Ev(r)].drawAt <= clock
      BY DEF Knows, DrawKnows, FetchParticipants
    <3>6. BookKnows(r)' /\ TransitionKnows(r)'
      BY DEF BookKnows, TransitionKnows, Committing
    <3>7. DrawKnows(r)'
      <4>1. /\ writes'[r].users = {} /\ writes'[r].seals = {}
            /\ writes'[r].rows = <<>> /\ writes'[r].status = "keep"
        BY NothingWritten, Zenon
      <4>2. RowsFollow(writes'[r].rows, loc'[r].order, loc'[r].stamp)
        BY <3>3, <4>1, Zenon
      <4>3. QED BY <2>2, <3>2, <3>5, <4>1, <4>2 DEF DrawKnows, Committing
    <3>8. QED BY <3>6, <3>7 DEF Knows
  <2>3. QED BY <2>1, <2>2
<1>5. CASE InsertDraw(r)
  <2> DEFINE order == loc[r].order
             rows == writes[r].rows
             stamp == loc[r].stamp
             row == [user |-> order[Len(rows) + 1], total |-> Len(order),
                     drawnAt |-> stamp]
  <2> /\ order \in Seq(Users) /\ rows \in Seq(DrawRow) /\ stamp \in Nat
      /\ Len(rows) < Len(order) /\ RowsFollow(rows, order, stamp)
      /\ Stored(stamp) = stamp
    <3>1. pc[r] = "insertDraw" /\ DrawKnows(r)
      BY <1>5 DEF Knows, InsertDraw
    <3>2. Len(rows) < Len(order)
      BY <3>1 DEF Typed, LoopInv
    <3>3. RowsFollow(rows, order, stamp) /\ Stored(stamp) = stamp
      BY <3>1, Zenon DEF DrawKnows
    <3>4. QED BY <3>2, <3>3 DEF Locals, Writes
  <2>2. row \in DrawRow
    <3>1. Len(order) \in Nat /\ Len(rows) \in Nat
      BY ListLen
    <3>2. Len(rows) + 1 \in 1..Len(order)
      BY <3>1
    <3>3. order[Len(rows) + 1] \in Users
      BY <3>2, ListElement
    <3>4. QED BY <3>1, <3>3 DEF DrawRow
  <2>3. RowsFollow(Append(rows, row), order, stamp)
    BY <2>2, RowsGrow
  <2>4. Len(Append(rows, row)) = Len(rows) + 1
    BY <2>2, ListAppend
  <2> /\ pc'[r] = IF Len(rows) + 1 = Len(order) THEN "seal" ELSE "insertDraw"
      /\ writes'[r] = [writes[r] EXCEPT !.rows = Append(rows, row)]
      /\ Ev(r)' = Ev(r) /\ clock' = clock /\ loc' = loc
      /\ event' = event /\ bookings' = bookings
    BY <1>5 DEF Typed, TypeOK, InsertDraw, tables, Ev
  <2> HIDE DEF row
  <2>6. BookKnows(r)' /\ TransitionKnows(r)'
    BY SMTT(30) DEF BookKnows, TransitionKnows, Committing
  <2>7. DrawKnows(r)'
    <3>1. pc[r] = "insertDraw" /\ DrawKnows(r)
      BY <1>5 DEF Knows, InsertDraw
    <3>2. /\ event[Ev(r)].status = "closed" /\ loc[r].row = event[Ev(r)]
          /\ event[Ev(r)].drawAt <= clock
          /\ bookings[Ev(r)] # {} /\ order \in Orderings(bookings[Ev(r)])
          /\ writes[r].users = {} /\ writes[r].seals = {} /\ writes[r].status = "keep"
      BY <3>1 DEF DrawKnows
    <3>3. /\ writes'[r].rows = Append(rows, row) /\ writes'[r].users = {}
          /\ writes'[r].seals = {} /\ writes'[r].status = "keep"
      BY <3>2 DEF Writes
    <3>4. pc'[r] = "seal" => Len(writes'[r].rows) = Len(order)
      BY <2>4, <3>3
    <3>5. QED BY <2>3, <3>2, <3>3, <3>4 DEF DrawKnows, Committing
  <2>8. QED BY <2>6, <2>7 DEF Knows
<1>6. CASE InsertSeal(r)
  <2> DEFINE digest == drawDigest(Ev(r), loc[r].row.winnerCount, loc[r].stamp, writes[r].rows)
  <2>1. /\ pc'[r] = "markDrawn" /\ writes'[r] = [writes[r] EXCEPT !.seals = {digest}]
        /\ Ev(r)' = Ev(r) /\ clock' = clock /\ loc' = loc
        /\ event' = event /\ bookings' = bookings
    BY <1>6 DEF Typed, TypeOK, InsertSeal, tables, Ev
  <2>2. digest = drawDigest(Ev(r), event[Ev(r)].winnerCount, loc[r].stamp, writes[r].rows)
    BY <1>6 DEF Knows, DrawKnows, InsertSeal
  <2> HIDE DEF digest
  <2>3. BookKnows(r)' /\ TransitionKnows(r)'
    BY <2>1 DEF BookKnows, TransitionKnows, Committing
  <2>4. DrawKnows(r)'
    BY <1>6, <2>1, <2>2 DEF Knows, DrawKnows, Committing, Writes, InsertSeal
  <2>5. QED BY <2>3, <2>4 DEF Knows
<1>7. CASE MarkDrawn(r)
  <2>1. /\ pc'[r] = "commit" /\ writes'[r] = [writes[r] EXCEPT !.status = "drawn"]
        /\ Ev(r)' = Ev(r) /\ clock' = clock /\ loc' = loc
        /\ req'[r].op = "draw" /\ event' = event /\ bookings' = bookings
    BY <1>7 DEF Typed, TypeOK, OpInv, Fits, MarkDrawn, tables, Ev
  <2>2. BookKnows(r)' /\ TransitionKnows(r)'
    BY <2>1 DEF BookKnows, TransitionKnows, Committing
  <2>3. DrawKnows(r)'
    BY <1>7, <2>1 DEF Knows, DrawKnows, Committing, Writes, MarkDrawn
  <2>4. QED BY <2>2, <2>3 DEF Knows
<1>8. CASE CommitDraw(r)
  BY <1>8, NothingToKnow DEF Typed, TypeOK, CommitDraw, Locked
<1>9. QED BY <1>3, <1>4, <1>5, <1>6, <1>7, <1>8, SMTT(30)


\* Every step of the acting worker leaves it knowing what its label promises.
LEMMA OwnKnowledge ==
  ASSUME Typed, BeganInv, NEW r \in Workers, Knows(r), Acts(r)
  PROVE  Knows(r)'
<1> USE DEF Goto, Refuse, Finish
<1>1. CASE Arrive(r) \/ Create(r)
  <2>1. pc'[r] \notin Locked
    BY <1>1 DEF Typed, TypeOK, Arrive, BeginBooking, BeginClose, BeginCancel,
                BeginDraw, BeginResults, Begin, Create, CreateEvent, Locked
  <2>2. QED BY <2>1, NothingToKnow
<1>2. CASE FetchDrawnEvent(r) \/ FetchRows(r) \/ FetchSeal(r)
  <2>1. pc'[r] \notin Locked
    BY <1>2 DEF Typed, TypeOK, FetchDrawnEvent, FetchRows, FetchSeal, Locked
  <2>2. QED BY <2>1, NothingToKnow
<1>3. CASE Rollback(r) \/ Orphan(r) \/ StatementFails(r)
  <2>1. pc'[r] \notin Locked
    BY <1>3 DEF Typed, TypeOK, Rollback, Orphan, OrphanAborts, OrphanCommits,
                StatementFails, Locked
  <2>2. QED BY <2>1, NothingToKnow
<1>4. CASE LoseConnection(r)
  <2>1. CASE pc[r] # "commit"
    BY <1>4, <2>1, NothingToKnow DEF Typed, TypeOK, LoseConnection, Locked
  <2>2. CASE pc[r] = "commit"
    <3>1. /\ pc'[r] = "orphanCommit" /\ Ev(r)' = Ev(r) /\ req' = req
          /\ loc' = loc /\ writes' = writes /\ clock' = clock
          /\ event' = event /\ bookings' = bookings
      BY <1>4, <2>2 DEF Typed, TypeOK, LoseConnection, tables, Ev
    <3>2. BookKnows(r)' /\ TransitionKnows(r)'
      BY <2>2, <3>1, SMTT(30) DEF Knows, BookKnows, TransitionKnows, Committing
    <3>3. DrawKnows(r)'
      BY <2>2, <3>1, Zenon DEF Knows, DrawKnows, Committing
    <3>4. QED BY <3>2, <3>3 DEF Knows
  <2>3. QED BY <2>1, <2>2
<1>5. QED
  BY <1>1, <1>2, <1>3, <1>4, BookingLearns, TransitionLearns, DrawLearns
  DEF Acts, Step, LotteryStep, Failure

\* The draw time of a row of events is a number, and so it is without a row.
LEMMA RowNumbers ==
  ASSUME NEW row \in EventRow \cup {NoEvent}
  PROVE  row.drawAt \in Nat
<1>1. CASE row \in EventRow
  BY <1>1 DEF EventRow
<1>2. CASE row = NoEvent
  BY <1>2 DEF NoEvent
<1>3. QED BY <1>1, <1>2

\* Every step keeps true what the transactions under the lock have found out.
LEMMA NextKnowsInv ==
  ASSUME Typed, LockInv, BeganInv, KnowsInv, [Next]_vars
  PROVE  KnowsInv'
<1> SUFFICES ASSUME NEW q \in Workers PROVE Knows(q)'
  BY DEF KnowsInv, Knows
<1> Knows(q)
  BY DEF KnowsInv, Knows
<1>2. ASSUME NEW r \in Workers, Acts(r) PROVE Knows(q)'
  BY <1>2, KnowledgeIsStable, OwnKnowledge
<1>3. CASE Tick
  <2> /\ clock \in Nat /\ clock' = clock + 1 /\ pc' = pc /\ req' = req /\ loc' = loc
      /\ writes' = writes /\ event' = event /\ bookings' = bookings
    BY <1>3, NumberAssumption, SMTT(30) DEF Typed, TypeOK, Tick, tables
  <2>2. BookKnows(q)' /\ TransitionKnows(q)'
    BY DEF Knows, BookKnows, TransitionKnows, Committing, Ev
  <2>3. pc[q] \in Locked => event[Ev(q)].drawAt \in Nat
    <3>1. SUFFICES ASSUME pc[q] \in Locked PROVE event[Ev(q)].drawAt \in Nat
      OBVIOUS
    <3>2. Ev(q) \in EventIds
      BY <3>1, BusyRequest DEF Typed, Locked
    <3>3. event[Ev(q)] \in EventRow \cup {NoEvent}
      BY <3>2, SMTT(30) DEF Typed, TypeOK
    <3>4. QED BY <3>3, RowNumbers
  <2>4. DrawKnows(q)'
    <3>1. /\ Ev(q)' = Ev(q) /\ \A ops : Committing(q, ops)' = Committing(q, ops)
      BY DEF Ev, Committing
    <3> DEFINE drawing == \/ pc[q] = "participants" \/ pc[q] = "insertDraw"
                          \/ pc[q] = "seal" \/ pc[q] = "markDrawn"
                          \/ Committing(q, {"draw"})
    <3>2. DrawKnows(q)
      BY DEF Knows
    <3>3. drawing => event[Ev(q)].drawAt <= clock
      BY <3>2, Zenon DEF DrawKnows
    <3>4. drawing => event[Ev(q)].drawAt \in Nat
      BY <2>3 DEF Committing, Locked
    <3>5. drawing => event[Ev(q)].drawAt <= clock'
      BY <3>3, <3>4
    <3>6. QED BY <3>1, <3>2, <3>5, Zenon DEF DrawKnows
  <2>5. QED BY <2>2, <2>4 DEF Knows
<1>4. CASE UNCHANGED vars
  BY <1>4 DEF vars, tables, Knows, BookKnows, TransitionKnows, DrawKnows,
                    Committing, Ev
<1>5. QED BY <1>2, <1>3, <1>4 DEF Next, Acts

\* now() of a transaction stays in the past.
LEMMA NextBeganInv ==
  ASSUME Typed, BeganInv, [Next]_vars
  PROVE  BeganInv'
<1> SUFFICES ASSUME NEW q \in Workers PROVE loc'[q].began <= clock'
  BY DEF BeganInv
<1>1. loc[q].began <= clock /\ clock \in Nat /\ loc[q] \in Locals
  BY NumberAssumption DEF BeganInv, Typed, TypeOK
<1>2. ASSUME NEW r \in Workers, Acts(r) PROVE loc'[q].began <= clock'
  <2>1. clock' = clock
    BY <1>2, ClockStands
  <2>2. ASSUME q = r PROVE loc'[q].began \in {loc[q].began, clock, 0}
    <3> USE <2>2
    <3> loc \in [Workers -> Locals] /\ loc[r] \in Locals
      BY DEF Typed, TypeOK
    <3> \A c : loc' = [loc EXCEPT ![r].code = c] => loc'[r].began = loc[r].began
      BY DEF Locals
    <3>3. \A x : loc' = [loc EXCEPT ![r].row = x] => loc'[r].began = loc[r].began
      BY DEF Locals
    <3> loc' = [loc EXCEPT ![r] = NoLocals] => loc'[r].began = 0
      BY DEF NoLocals
    <3>5. CASE Arrive(r) \/ Create(r)
      <4>1. \/ UNCHANGED loc
            \/ loc' = [loc EXCEPT ![r] = [NoLocals EXCEPT !.began = clock]]
        BY <3>5 DEF Arrive, BeginBooking, BeginClose, BeginCancel, BeginDraw,
                    BeginResults, Begin, Create, CreateEvent
      <4>2. QED BY <4>1 DEF NoLocals
    <3>6. CASE BookingStep(r)
      BY <3>3, <3>6
      DEF BookingStep, LockForBooking, CheckExisting, CountBookings, InsertBooking,
          CommitBooking, Refuse, Finish
    <3>7. CASE EventStep(r)
      BY <3>7
      DEF EventStep, LockForTransition, UpdateStatus, CommitTransition, GetByID,
          Refuse, Finish
    <3>8. CASE FetchParticipants(r) \/ FetchRows(r)
      <4>1. \A x : loc' = [loc EXCEPT ![r].fetched = x] => loc'[r].began = loc[r].began
        BY DEF Locals
      <4>2. \A x, y : loc' = [loc EXCEPT ![r].order = x, ![r].stamp = y] =>
                        loc'[r].began = loc[r].began
        BY DEF Locals
      <4>3. QED BY <3>8, <4>1, <4>2, Zenon DEF FetchParticipants, FetchRows, Refuse
    <3>9. CASE LotteryStep(r) /\ ~FetchParticipants(r) /\ ~FetchRows(r)
      BY <3>3, <3>9, Zenon
      DEF LotteryStep, LockForDraw, InsertDraw, InsertSeal, MarkDrawn, CommitDraw,
          FetchDrawnEvent, FetchSeal, Refuse, Finish
    <3>10. CASE Rollback(r) \/ Failure(r) \/ Orphan(r)
      BY <3>10
      DEF Rollback, Failure, StatementFails, LoseConnection, Orphan, OrphanAborts,
          OrphanCommits, Refuse, Finish
    <3>11. QED BY <1>2, <3>5, <3>6, <3>7, <3>8, <3>9, <3>10 DEF Acts, Step
  <2>3. q # r => loc'[q] = loc[q]
    BY <1>2, OthersUntouched
  <2>4. QED BY <1>1, <2>1, <2>2, <2>3
<1>3. CASE Tick \/ UNCHANGED vars
  BY <1>1, <1>3, NumberAssumption DEF Tick, vars, Locals
<1>4. QED BY <1>2, <1>3 DEF Next, Acts


-----------------------------------------------------------------------------
(***************************************************************************)
(* What a commit does to the tables: each is one atomic step of the        *)
(* lifecycle of one event.                                                 *)
(***************************************************************************)
Books(e, u) ==
  /\ event[e].status = "open" /\ u \in Users /\ u \notin bookings[e]
  /\ Cardinality(bookings[e]) < event[e].capacity
  /\ bookings' = [bookings EXCEPT ![e] = @ \cup {u}]
  /\ UNCHANGED <<event, draws, seals>>

Moves(e, from, to) ==
  /\ event[e].status \in from
  /\ event' = [event EXCEPT ![e].status = to]
  /\ UNCHANGED <<bookings, draws, seals>>

Draws(e) ==
  /\ event[e].status = "closed" /\ event[e].drawAt <= clock /\ bookings[e] # {}
  /\ event' = [event EXCEPT ![e].status = "drawn"]
  /\ \E rows \in Seq(DrawRow) :
       /\ UsersOf(rows) \in Orderings(bookings[e]) /\ rows # <<>>
       /\ draws' = [draws EXCEPT ![e] = rows]
       /\ seals' = [seals EXCEPT ![e] =
            {drawDigest(e, event[e].winnerCount, rows[1].drawnAt, rows)}]
  /\ UNCHANGED bookings

\* Users in rank order, read back from the rows of a finished draw.
LEMMA RowsRecordOrder ==
  ASSUME NEW rows \in Seq(DrawRow), NEW order \in Seq(Users), NEW stamp,
         RowsFollow(rows, order, stamp), Len(rows) = Len(order)
  PROVE  UsersOf(rows) = order
<1>1. /\ DOMAIN rows = 1..Len(rows) /\ DOMAIN order = 1..Len(order)
      /\ order = [i \in 1..Len(order) |-> order[i]]
  BY ListLen, ListDef
<1>2. ASSUME NEW i \in 1..Len(rows) PROVE rows[i].user = order[i]
  <2>1. rows[i] = [user |-> order[i], total |-> Len(order), drawnAt |-> stamp]
    BY DEF RowsFollow
  <2>2. QED BY <2>1
<1>3. QED BY <1>1, <1>2 DEF UsersOf

\* The commit of a booking adds its user to an open event with room.
LEMMA BookingEffect ==
  ASSUME Typed, NEW r \in Workers, Knows(r), Commits(r), req[r].op = "book"
  PROVE  Books(Ev(r), req[r].user)
<1> pc[r] \in {"commit", "orphanCommit"} /\ Ev(r) \in EventIds /\ Apply(r)
  BY CommitTouches, SMTT(30)
<1>2. req[r].user \in Users
  BY DEF Typed, TypeOK, Request
<1>3. writes[r] = [NoWrites EXCEPT !.users = {req[r].user}]
  BY DEF Knows, BookKnows, Committing
<1>4. /\ event[Ev(r)].status = "open" /\ req[r].user \notin bookings[Ev(r)]
      /\ Cardinality(bookings[Ev(r)]) < event[Ev(r)].capacity
  BY DEF Knows, BookKnows, Committing
<1>5. /\ writes[r].users = {req[r].user} /\ writes[r].rows = <<>>
      /\ writes[r].seals = {} /\ writes[r].status = "keep"
  BY <1>3 DEF NoWrites
<1>6. draws[Ev(r)] \o <<>> = draws[Ev(r)]
  BY ListConcatEmpty DEF Typed, TypeOK
<1>7. UNCHANGED draws
  BY <1>5, <1>6 DEF Apply, Typed, TypeOK
<1>8. UNCHANGED <<event, seals>>
  BY <1>5 DEF Apply, Typed, TypeOK, EventRow, NoEvent
<1>9. bookings' = [bookings EXCEPT ![Ev(r)] = @ \cup {req[r].user}]
  BY <1>5 DEF Apply
<1>10. QED BY <1>2, <1>4, <1>7, <1>8, <1>9, SMTT(30) DEF Books

\* The commit of Close or Cancel moves the status, or changes nothing.
LEMMA TransitionEffect ==
  ASSUME Typed, NEW r \in Workers, Knows(r), Commits(r),
         req[r].op \in {"close", "cancel"}
  PROVE  UNCHANGED tables \/ Moves(Ev(r), Sources(req[r].op), Target(req[r].op))
<1> pc[r] \in {"commit", "orphanCommit"} /\ Ev(r) \in EventIds /\ Apply(r)
  BY CommitTouches
<1> /\ writes[r].users = {} /\ writes[r].rows = <<>> /\ writes[r].seals = {}
    /\ \/ writes[r].status = "keep"
       \/ /\ event[Ev(r)].status \in Sources(req[r].op)
          /\ writes[r].status = Target(req[r].op) /\ writes[r].status # "keep"
  BY DEF Knows, TransitionKnows, Committing, NoWrites, Target
<1>3. draws[Ev(r)] \o <<>> = draws[Ev(r)]
  BY ListConcatEmpty DEF Typed, TypeOK
<1>4. UNCHANGED draws
  BY <1>3 DEF Apply, Typed, TypeOK
<1>5. UNCHANGED <<bookings, seals>>
  BY DEF Apply, Typed, TypeOK
<1>6. writes[r].status = "keep" => UNCHANGED event
  BY DEF Apply, Typed, TypeOK, EventRow, NoEvent
<1>7. writes[r].status # "keep" =>
        event' = [event EXCEPT ![Ev(r)].status = Target(req[r].op)]
  BY Zenon DEF Apply, Typed, TypeOK
<1>8. QED BY <1>4, <1>5, <1>6, <1>7 DEF Moves, tables

\* The commit of a draw publishes a complete ranking, sealed.
LEMMA DrawEffect ==
  ASSUME Typed, DrawIsComplete, NEW r \in Workers, Knows(r), Commits(r),
         req[r].op = "draw"
  PROVE  Draws(Ev(r)) /\ UsersOf(draws'[Ev(r)]) = loc[r].order
<1> pc[r] \in {"commit", "orphanCommit"} /\ Ev(r) \in EventIds /\ Apply(r)
  BY CommitTouches, SMTT(30)
<1> DEFINE e == Ev(r)
           w == writes[r]
           order == loc[r].order
<1> /\ event[e].status = "closed" /\ event[e].drawAt <= clock /\ bookings[e] # {}
    /\ order \in Orderings(bookings[e]) /\ RowsFollow(w.rows, order, loc[r].stamp)
    /\ Len(w.rows) = Len(order) /\ w.users = {} /\ w.status = "drawn"
    /\ w.seals = {drawDigest(e, event[e].winnerCount, loc[r].stamp, w.rows)}
  <2>1. DrawKnows(r) /\ Committing(r, {"draw"})
    BY DEF Knows, Committing
  <2>2. QED BY <2>1, Zenon DEF DrawKnows
<1>3. draws[e] = <<>> /\ seals[e] = {}
  BY Zenon DEF DrawIsComplete
<1> w.rows \in Seq(DrawRow) /\ order \in Seq(Users)
  BY DEF Typed, TypeOK, Writes, Locals
<1>5. UsersOf(w.rows) = order /\ UsersOf(w.rows) \in Orderings(bookings[e])
  BY RowsRecordOrder
<1>6. <<>> \o w.rows = w.rows
  BY ListConcatEmpty
<1>7. draws' = [draws EXCEPT ![e] = w.rows] /\ draws'[e] = w.rows
  BY <1>3, <1>6 DEF Apply, Typed, TypeOK
<1>8. w.rows # <<>> /\ w.rows[1].drawnAt = loc[r].stamp
  <2>1. Cardinality(bookings[e]) \in Nat \ {0}
    BY BookingsFinite, FS_EmptySet DEF Typed
  <2>2. Len(order) = Cardinality(bookings[e])
    BY <2>1, OrderingsSeq
  <2>3. Len(w.rows) \in Nat \ {0}
    BY <2>1, <2>2
  <2>4. w.rows[1] = [user |-> order[1], total |-> Len(order), drawnAt |-> loc[r].stamp]
    BY <2>3 DEF RowsFollow
  <2>5. QED BY <2>3, <2>4, ListLen
<1>9. seals' = [seals EXCEPT ![e] =
         {drawDigest(e, event[e].winnerCount, w.rows[1].drawnAt, w.rows)}]
  BY <1>3, <1>8, Zenon DEF Apply, Typed, TypeOK
<1>10. UNCHANGED bookings
  BY DEF Apply, Typed, TypeOK
<1>11. event' = [event EXCEPT ![e].status = "drawn"]
  BY DEF Apply, Typed, TypeOK
<1>12. QED BY <1>5, <1>7, <1>8, <1>9, <1>10, <1>11, Zenon DEF Draws

\* A valid Create inserts an open event; nothing else about it exists yet.
Opens(e) ==
  /\ ~Exists(e)
  /\ \E row \in EventRow : row.status = "open" /\ event' = [event EXCEPT ![e] = row]
  /\ UNCHANGED <<bookings, draws, seals>>

\* The tables change in five ways and in no other, one event at a time.
LEMMA TableSteps ==
  ASSUME Typed, KnowsInv, DrawIsComplete, [Next]_vars
  PROVE  \/ UNCHANGED tables
         \/ \E e \in EventIds :
              \/ Opens(e) \/ Draws(e) \/ \E u \in Users : Books(e, u)
              \/ \E op \in {"close", "cancel"} : Moves(e, Sources(op), Target(op))
<1>1. CASE Tick \/ UNCHANGED vars
  BY <1>1 DEF Tick, vars
<1>2. ASSUME NEW r \in Workers, Create(r)
      PROVE  UNCHANGED tables \/ \E e \in EventIds : Opens(e)
  <2>1. PICK e \in EventIds, c \in 0..MaxCapacity, n \in 0..MaxCapacity,
             at \in 0..MaxClock, now \in 0..MaxClock :
          CreateEvent(r, e, c, n, at, now)
    BY <1>2 DEF Create
  <2> DEFINE row == [status |-> "open", capacity |-> c, drawAt |-> at,
                     winnerCount |-> EffectiveWinners(n)]
  <2>2. ValidEvent(c, n, at, now) => row \in EventRow
    BY NumberAssumption DEF ValidEvent, EffectiveWinners, EventRow, Status
  <2>3. \/ UNCHANGED event
        \/ ValidEvent(c, n, at, now) /\ event' = [event EXCEPT ![e] = row]
    BY <2>1 DEF CreateEvent
  <2>4. ~Exists(e) /\ UNCHANGED <<bookings, draws, seals>> /\ row.status = "open"
    BY <2>1 DEF CreateEvent
  <2> HIDE DEF row
  <2>5. QED BY <2>2, <2>3, <2>4 DEF Opens, tables
<1>3. ASSUME NEW r \in Workers, Commits(r)
      PROVE  \/ UNCHANGED tables
             \/ \E e \in EventIds :
                  \/ Draws(e) \/ \E u \in Users : Books(e, u)
                  \/ \E op \in {"close", "cancel"} : Moves(e, Sources(op), Target(op))
  <2> USE <1>3
  <2> Knows(r) /\ Ev(r) \in EventIds /\ req[r].op \in {"book", "close", "cancel", "draw"}
    <3>1. pc[r] \in {"commit", "orphanCommit"} /\ Ev(r) \in EventIds
      BY CommitTouches
    <3>2. Knows(r)
      BY DEF KnowsInv, Knows
    <3>3. Fits(req[r].op, pc[r])
      BY DEF Typed, OpInv
    <3>4. QED BY <3>1, <3>2, <3>3 DEF Fits
  <2>2. CASE req[r].op = "book"
    <3>1. Books(Ev(r), req[r].user) /\ req[r].user \in Users
      BY <2>2, BookingEffect DEF Books
    <3>2. QED BY <3>1
  <2>3. CASE req[r].op \in {"close", "cancel"}
    BY <2>3, TransitionEffect
  <2>4. CASE req[r].op = "draw"
    BY <2>4, DrawEffect
  <2>5. QED BY <2>2, <2>3, <2>4, Zenon
<1>4. QED BY <1>1, <1>2, <1>3, TablesChange DEF Next, Acts


-----------------------------------------------------------------------------
(***************************************************************************)
(* The theorems.                                                           *)
(***************************************************************************)

\* A commit of a booking leaves at most capacity bookings; every other change
\* of the tables keeps the bookings and the capacity of existing events.
LEMMA NextCapacity ==
  ASSUME Typed, KnowsInv, DrawIsComplete, AbsentInv, CapacityRespected, [Next]_vars
  PROVE  AbsentInv' /\ CapacityRespected'
<1>1. CASE UNCHANGED tables
  BY <1>1 DEF tables, AbsentInv, CapacityRespected, Exists
<1>2. ASSUME NEW e \in EventIds, Opens(e) PROVE AbsentInv' /\ CapacityRespected'
  <2>1. PICK row \in EventRow : row.status = "open" /\ event' = [event EXCEPT ![e] = row]
    BY <1>2, Zenon DEF Opens
  <2>2. bookings[e] = {} /\ bookings' = bookings /\ Cardinality(bookings[e]) = 0
    BY <1>2, FS_EmptySet DEF Opens, AbsentInv
  <2>3. row.capacity \in Nat
    BY DEF EventRow
  <2>4. event'[e] = row /\ \A f \in EventIds \ {e} : event'[f] = event[f]
    BY <2>1 DEF Typed, TypeOK
  <2>5. Cardinality(bookings'[e]) <= event'[e].capacity
    BY <2>2, <2>3, <2>4
  <2>6. CapacityRespected'
    BY <2>2, <2>4, <2>5 DEF CapacityRespected
  <2>7. AbsentInv'
    BY <2>2, <2>4 DEF AbsentInv, Exists
  <2>8. QED BY <2>6, <2>7
<1>3. ASSUME NEW e \in EventIds, NEW to \in Status,
             event' = [event EXCEPT ![e].status = to], bookings' = bookings,
             event[e].status \in Status
      PROVE  AbsentInv' /\ CapacityRespected'
  <2>1. /\ event'[e].capacity = event[e].capacity /\ event'[e].status = to
        /\ \A f \in EventIds \ {e} : event'[f] = event[f]
    BY <1>3 DEF Typed, TypeOK, EventRow, NoEvent
  <2>2. QED BY <1>3, <2>1 DEF AbsentInv, CapacityRespected, Exists, Status
<1>4. ASSUME NEW e \in EventIds, NEW u \in Users, Books(e, u)
      PROVE  AbsentInv' /\ CapacityRespected'
  <2> USE <1>4
  <2>1. IsFiniteSet(bookings[e]) /\ Cardinality(bookings[e]) \in Nat
    BY BookingsFinite DEF Typed
  <2>2. Cardinality(bookings[e] \cup {u}) = Cardinality(bookings[e]) + 1
    BY <2>1, FS_AddElement, Zenon DEF Books
  <2>3. event[e].capacity \in Nat /\ Exists(e)
    BY DEF Typed, TypeOK, EventRow, NoEvent, Books, Exists
  <2>4. Cardinality(bookings'[e]) <= event'[e].capacity
    BY <2>1, <2>2, <2>3 DEF Books, Typed, TypeOK
  <2>5. \A f \in EventIds \ {e} : bookings'[f] = bookings[f]
    BY DEF Books, Typed, TypeOK
  <2>6. QED BY <2>3, <2>4, <2>5, Zenon DEF Books, AbsentInv, CapacityRespected, Exists
<1>5. ASSUME NEW e \in EventIds,
             Draws(e) \/ \E op \in {"close", "cancel"} : Moves(e, Sources(op), Target(op))
      PROVE  AbsentInv' /\ CapacityRespected'
  BY <1>3, <1>5 DEF Draws, Moves, Sources, Target, Status
<1>6. QED BY <1>1, <1>2, <1>4, <1>5, TableSteps

\* The rows, the seal and the status of a draw appear in the same step, and
\* nothing about the event changes afterwards.
LEMMA NextDraw ==
  ASSUME Typed, KnowsInv, DrawIsComplete, DrawIsDue, [Next]_vars
  PROVE  DrawIsComplete' /\ DrawIsDue'
<1>1. clock \in Nat /\ clock' \in Nat /\ clock <= clock'
  <2>1. clock \in Nat
    BY NumberAssumption DEF Typed, TypeOK
  <2>2. clock' = clock \/ clock' = clock + 1
    BY ClockStands, SMTT(30) DEF Next, Acts, Tick, vars
  <2>3. QED BY <2>1, <2>2
<1>2. \A f \in EventIds : event[f].drawAt \in Nat
  <2>1. \A f \in EventIds : event[f] \in EventRow \cup {NoEvent}
    BY DEF Typed, TypeOK
  <2>2. QED BY <2>1, RowNumbers
<1>3. CASE UNCHANGED tables
  BY <1>1, <1>2, <1>3 DEF tables, DrawIsComplete, DrawIsDue
<1>4. ASSUME NEW e \in EventIds, UNCHANGED <<draws, seals>>,
             event[e].status # "drawn", event'[e].status # "drawn",
             \A f \in EventIds \ {e} : event'[f] = event[f] /\ bookings'[f] = bookings[f]
      PROVE  DrawIsComplete' /\ DrawIsDue'
  BY <1>1, <1>2, <1>4 DEF DrawIsComplete, DrawIsDue
<1>5. ASSUME NEW e \in EventIds, Opens(e) PROVE DrawIsComplete' /\ DrawIsDue'
  BY <1>4, <1>5, Zenon DEF Opens, Exists, Typed, TypeOK
<1>6. ASSUME NEW e \in EventIds, NEW u \in Users, Books(e, u)
      PROVE  DrawIsComplete' /\ DrawIsDue'
  BY <1>4, <1>6 DEF Books, Typed, TypeOK
<1>7. ASSUME NEW e \in EventIds, NEW op \in {"close", "cancel"},
             Moves(e, Sources(op), Target(op))
      PROVE  DrawIsComplete' /\ DrawIsDue'
  <2>1. event[e].status # "drawn" /\ Target(op) # "drawn"
    BY <1>7 DEF Moves, Sources, Target
  <2>2. event'[e].status = Target(op) /\ \A f \in EventIds \ {e} : event'[f] = event[f]
    BY <1>7 DEF Moves, Typed, TypeOK, EventRow, NoEvent
  <2>3. QED BY <1>4, <1>7, <2>1, <2>2 DEF Moves
<1>8. ASSUME NEW e \in EventIds, Draws(e) PROVE DrawIsComplete' /\ DrawIsDue'
  <2> USE <1>8
  <2>0. PICK rows \in Seq(DrawRow) :
          /\ UsersOf(rows) \in Orderings(bookings[e])
          /\ draws' = [draws EXCEPT ![e] = rows]
          /\ \E digest : seals' = [seals EXCEPT ![e] = {digest}]
    BY Zenon DEF Draws
  <2>1. PICK digest : seals' = [seals EXCEPT ![e] = {digest}]
    BY <2>0, Zenon
  <2>2. /\ event'[e].status = "drawn" /\ event'[e].drawAt = event[e].drawAt
        /\ \A f \in EventIds \ {e} : event'[f] = event[f]
    BY DEF Draws, Typed, TypeOK, EventRow, NoEvent
  <2>3. /\ draws'[e] = rows /\ seals'[e] = {digest} /\ bookings' = bookings
        /\ \A f \in EventIds \ {e} : draws'[f] = draws[f] /\ seals'[f] = seals[f]
    BY <2>0, <2>1, Zenon DEF Draws, Typed, TypeOK
  <2>4. Cardinality({digest}) = 1
    BY FS_Singleton, Zenon
  <2>5. DrawIsComplete'
    BY <2>0, <2>2, <2>3, <2>4, Zenon DEF DrawIsComplete
  <2>6. event[e].drawAt <= clock
    BY DEF Draws
  <2>7. DrawIsDue'
    BY <1>1, <1>2, <2>2, <2>6 DEF DrawIsDue
  <2>8. QED BY <2>5, <2>7
<1>9. QED BY <1>3, <1>5, <1>6, <1>7, <1>8, TableSteps

\* IInv holds initially and every step preserves it.
LEMMA InitIInv == Init => IInv
<1> SUFFICES ASSUME Init PROVE IInv
  OBVIOUS
<1>1. Typed
  BY InitTyped
<1>2. LockInv /\ BeganInv /\ AbsentInv
  BY DEF Init, InitDatabase, LockInv, Locked, BeganInv, AbsentInv, NoLocals
<1>3. KnowsInv
  BY DEF Init, InitDatabase, KnowsInv, BookKnows, TransitionKnows, DrawKnows, Committing
<1>4. CapacityRespected
  BY FS_EmptySet DEF Init, InitDatabase, CapacityRespected, NoEvent
<1>5. DrawIsComplete /\ DrawIsDue
  BY DEF Init, InitDatabase, DrawIsComplete, DrawIsDue, NoEvent
<1>6. QED BY <1>1, <1>2, <1>3, <1>4, <1>5 DEF IInv

\* The strengthened invariant is inductive.
LEMMA NextIInv == IInv /\ [Next]_vars => IInv'
  BY NextTyped, NextLockInv, NextBeganInv, NextKnowsInv, NextCapacity, NextDraw DEF IInv

\* It holds in every reachable state.
LEMMA Inductive == Spec => []IInv
  BY InitIInv, NextIInv, PTL DEF Spec

\* No interleaving of any number of bookings, failures and late commits
\* oversells an event.
THEOREM NeverOversold == Spec => []CapacityRespected
<1>1. IInv => CapacityRespected
  BY DEF IInv
<1>2. QED BY <1>1, Inductive, PTL

\* An event is drawn completely or not at all: each booked user is ranked
\* once and there is one seal, exactly when the status is drawn.
THEOREM DrawAllOrNothing == Spec => []DrawIsComplete
<1>1. IInv => DrawIsComplete
  BY DEF IInv
<1>2. QED BY <1>1, Inductive, PTL

\* No draw commits before its draw_at by the database clock.
THEOREM NeverDrawnEarly == Spec => []DrawIsDue
<1>1. IInv => DrawIsDue
  BY DEF IInv
<1>2. QED BY <1>1, Inductive, PTL
=============================================================================
