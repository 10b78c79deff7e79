------------------------------ MODULE Database ------------------------------
(***************************************************************************)
(* The PostgreSQL side of the lottery system: the tables the migrations    *)
(* create, the transactions that the services run against them, and the    *)
(* ways a transaction can end.                                             *)
(*                                                                         *)
(* A worker is a request handler goroutine together with the database      *)
(* session it uses; the number of workers bounds how many requests overlap *)
(* and not how many are served.  One SQL statement is one step.  Statements*)
(* run at READ COMMITTED: each sees what is committed when it runs, and the*)
(* writes of a transaction stay in writes[r] until it commits.             *)
(***************************************************************************)
EXTENDS Integers, FiniteSets, Sequences

CONSTANTS
  EventIds,     \* ids the events table can hand out
  Users,        \* ids of the users table
  Workers,      \* request handlers that may run at the same time
  Faulty,       \* the workers whose statements and connections may fail
  Ops,          \* the operations that clients ask for
  None,         \* no worker, no event, no user
  MaxCapacity,  \* bound: largest capacity an administrator asks for
  MaxWinners,   \* MAX_WINNERS; 0 means no cap
  MaxClock,     \* bound: last tick of the database clock
  AppTimes      \* bound: readings of time.Now() in a draw, in nanoseconds

AllOps == {"book", "close", "cancel", "draw", "results"}

ASSUME UsersAssumption   == IsFiniteSet(Users)
ASSUME NoneAssumption    == None \notin Workers \cup Users \cup EventIds
ASSUME ScopeAssumption   == Faulty \subseteq Workers /\ Ops \subseteq AllOps
ASSUME NumberAssumption  == /\ MaxCapacity \in Nat \ {0}
                            /\ MaxWinners \in Nat
                            /\ MaxClock \in Nat
ASSUME TimesAssumption   == AppTimes \subseteq Nat

VARIABLES
  event,     \* table events; an id without a row maps to NoEvent
  bookings,  \* table bookings: the users booked on each event
  draws,     \* table lottery_draws: per event, its rows by draw_rank
  seals,     \* table lottery_draw_seals: per event, the set of its seals
  rowLock,   \* who holds FOR UPDATE on each row of events
  clock,     \* the database clock
  pc,        \* the statement each worker runs next
  req,       \* the request each worker serves, or served last
  loc,       \* what the request has read and computed so far
  writes,    \* the uncommitted writes of the worker's transaction
  answer     \* what the client was told; code "none" before that

tables == <<event, bookings, draws, seals>>
vars == <<tables, rowLock, clock, pc, req, loc, writes, answer>>

-----------------------------------------------------------------------------
(***************************************************************************)
(* Rows.                                                                   *)
(***************************************************************************)
Status == {"open", "closed", "drawn", "cancelled"}

NoEvent == [status |-> "absent", capacity |-> 0, winnerCount |-> 0, drawAt |-> 0]

\* A row of events under the CHECK constraints of its table.
EventRow == {row \in [status : Status, capacity : Nat \ {0},
                      winnerCount : Nat \ {0}, drawAt : Nat] :
                row.winnerCount <= row.capacity}

Exists(e) == event[e].status # "absent"

\* A row of lottery_draws; its draw_rank is its position.
DrawRow == [user : Users, total : Nat, drawnAt : Nat]

\* pgx and Postgres keep a timestamp to the microsecond.
Stored(t) == t - (t % 1000)

\* The outcome a list of lottery_draws rows records: users in rank order.
UsersOf(rows) == [i \in DOMAIN rows |-> rows[i].user]

-----------------------------------------------------------------------------
(***************************************************************************)
(* Requests.                                                               *)
(***************************************************************************)
\* Only a booking depends on the user that asks for it.
Request == [op : {"book"}, ev : EventIds, user : Users]
             \cup [op : AllOps \ {"book"}, ev : EventIds, user : {None}]

NoRequest == [op |-> "none", ev |-> None, user |-> None]

NoLocals == [began |-> 0, row |-> NoEvent, order |-> <<>>, stamp |-> 0,
             fetched |-> <<>>, code |-> "none"]

NoWrites == [users |-> {}, rows |-> <<>>, seals |-> {}, status |-> "keep"]

NoAnswer == [code |-> "none", status |-> "absent", count |-> 0,
             winners |-> <<>>, waitlist |-> <<>>]

Reply(code) == [NoAnswer EXCEPT !.code = code]

Ev(r) == req[r].ev

Goto(r, label) == pc' = [pc EXCEPT ![r] = label]

\* The handler has its answer; the deferred Rollback still has to run.
Refuse(r, code) ==
  /\ Goto(r, "rollback")
  /\ loc' = [loc EXCEPT ![r].code = code]

\* The handler returns: the client gets its answer, the worker is free.
Finish(r, reply) ==
  /\ Goto(r, "idle")
  /\ answer' = [answer EXCEPT ![r] = reply]
  /\ loc' = [loc EXCEPT ![r] = NoLocals]
  /\ writes' = [writes EXCEPT ![r] = NoWrites]

\* A request arrives and its transaction begins; now() is the time of BEGIN.
Begin(r, op, e, u, first) ==
  /\ pc[r] = "idle"
  /\ op \in Ops
  /\ Goto(r, first)
  /\ req' = [req EXCEPT ![r] = [op |-> op, ev |-> e, user |-> u]]
  /\ loc' = [loc EXCEPT ![r] = [NoLocals EXCEPT !.began = clock]]
  /\ answer' = [answer EXCEPT ![r] = NoAnswer]
  /\ UNCHANGED <<tables, rowLock, clock, writes>>

-----------------------------------------------------------------------------
(***************************************************************************)
(* Locking reads, and the ways a transaction ends.                         *)
(***************************************************************************)

\* Variant: a plain SELECT, which does not wait for the row lock.
LockRowNoWait(r) == rowLock' = [rowLock EXCEPT ![Ev(r)] = r]

\* SELECT ... FOR UPDATE on the event row: waits for the row lock, then
\* reads the newest committed version of the row.
LockRow(r) ==
  /\ rowLock[Ev(r)] = None
  /\ rowLock' = [rowLock EXCEPT ![Ev(r)] = r]

Release(r) ==
  rowLock' = [e \in EventIds |-> IF rowLock[e] = r THEN None ELSE rowLock[e]]

\* The pending writes become the committed state.
Apply(r) ==
  LET e == Ev(r)
      new == writes[r]
  IN  /\ bookings' = [bookings EXCEPT ![e] = @ \cup new.users]
      /\ draws' = [draws EXCEPT ![e] = @ \o new.rows]
      /\ seals' = [seals EXCEPT ![e] = @ \cup new.seals]
      /\ event' = [event EXCEPT ![e].status =
                     IF new.status = "keep" THEN @ ELSE new.status]

InTransaction == {"lockRow", "exists", "count", "insert", "update",
                  "participants", "insertDraw", "seal", "markDrawn", "commit"}
Reading == {"getByID", "fetchEvent", "fetchRows", "fetchSeal"}

\* The trigger trg_events_drawn_is_final, UNIQUE (event_id, draw_rank) or the
\* primary key of the seals turns a statement down.
Rejected(r) ==
  \/ pc[r] \in {"update", "markDrawn"} /\ event[Ev(r)].status = "drawn"
  \/ pc[r] = "insertDraw" /\ Len(writes[r].rows) + 1 \in DOMAIN draws[Ev(r)]
  \/ pc[r] = "seal" /\ seals[Ev(r)] # {}

\* A statement is turned down, or fails on a connection that stays usable, or
\* the context ends before it is sent: the handler gives up with an internal
\* error.
StatementFails(r) ==
  /\ r \in Faulty \/ Rejected(r)
  /\ pc[r] \in InTransaction \cup Reading
  /\ Refuse(r, "internal")
  /\ UNCHANGED <<tables, rowLock, clock, req, writes, answer>>

\* Variant: the handler returns without the deferred Rollback.
RollbackForgotten(r) ==
  /\ pc[r] = "rollback"
  /\ Finish(r, Reply(loc[r].code))
  /\ UNCHANGED <<tables, rowLock, clock, req>>

\* The deferred tx.Rollback succeeds, then the client gets its answer.
Rollback(r) ==
  /\ pc[r] = "rollback"
  /\ Release(r)
  /\ Finish(r, Reply(loc[r].code))
  /\ UNCHANGED <<tables, clock, req>>

\* The connection breaks, the context is cancelled while a statement is in
\* flight, or the process dies.  The client gets an internal error (or the
\* answer decided before) unless the process died; the server session lives
\* on with its row lock, and a COMMIT it already received may still count.
LoseConnection(r) ==
  /\ r \in Faulty
  /\ pc[r] \in InTransaction \cup {"rollback"}
  /\ Goto(r, IF pc[r] = "commit" THEN "orphanCommit" ELSE "orphan")
  /\ \/ answer' = [answer EXCEPT ![r] = Reply(
                     IF pc[r] = "rollback" THEN loc[r].code ELSE "internal")]
     \/ UNCHANGED answer
  /\ UNCHANGED <<tables, rowLock, clock, req, loc, writes>>

\* The server notices that the client of the session is gone.
OrphanAborts(r) ==
  /\ pc[r] \in {"orphan", "orphanCommit"}
  /\ Release(r)
  /\ Finish(r, answer[r])
  /\ UNCHANGED <<tables, clock, req>>

\* The COMMIT sent before the connection broke takes effect after all.
OrphanCommits(r) ==
  /\ pc[r] = "orphanCommit"
  /\ Apply(r)
  /\ Release(r)
  /\ Finish(r, answer[r])
  /\ UNCHANGED <<clock, req>>

\* Time passes on the database server.
Tick ==
  /\ clock < MaxClock
  /\ clock' = clock + 1
  /\ UNCHANGED <<tables, rowLock, pc, req, loc, writes, answer>>

InitDatabase ==
  /\ event = [e \in EventIds |-> NoEvent]
  /\ bookings = [e \in EventIds |-> {}]
  /\ draws = [e \in EventIds |-> <<>>]
  /\ seals = [e \in EventIds |-> {}]
  /\ rowLock = [e \in EventIds |-> None]
  /\ clock = 0
  /\ pc = [r \in Workers |-> "idle"]
  /\ req = [r \in Workers |-> NoRequest]
  /\ loc = [r \in Workers |-> NoLocals]
  /\ writes = [r \in Workers |-> NoWrites]
  /\ answer = [r \in Workers |-> NoAnswer]
=============================================================================
