------------------------------- MODULE Events -------------------------------
(***************************************************************************)
(* Create, Close, Cancel and GetByID of internal/event/service.go.         *)
(***************************************************************************)
EXTENDS Database

\* Variant: a winner_count of 0 is stored as it is.
EffectiveWinnersRaw(winnerCount) == winnerCount

\* The validation of Create: winner_count below 1 becomes 1, and the cap of
\* MAX_WINNERS applies only when it is positive.  now is the replica's clock.
EffectiveWinners(winnerCount) == IF winnerCount < 1 THEN 1 ELSE winnerCount

ValidEvent(capacity, winnerCount, drawAt, now) ==
  LET n == EffectiveWinners(winnerCount)
  IN  /\ drawAt >= now
      /\ capacity >= 1
      /\ n <= capacity
      /\ MaxWinners > 0 => n <= MaxWinners

\* Create: one INSERT that commits by itself.  The client is told the id, or
\* gets an internal error, whether or not the row is there.
CreateEvent(r, e, capacity, winnerCount, drawAt, now) ==
  /\ pc[r] = "idle"
  /\ ~Exists(e)
  /\ req' = [req EXCEPT ![r] = NoRequest]
  /\ \/ /\ ValidEvent(capacity, winnerCount, drawAt, now)
        /\ event' = [event EXCEPT ![e] =
              [status |-> "open", capacity |-> capacity, drawAt |-> drawAt,
               winnerCount |-> EffectiveWinners(winnerCount)]]
        /\ \E code \in {"created", "internal"} :
              answer' = [answer EXCEPT ![r] = Reply(code)]
     \/ /\ ~ValidEvent(capacity, winnerCount, drawAt, now)
        /\ answer' = [answer EXCEPT ![r] = Reply("invalid_input")]
        /\ UNCHANGED event
     \/ /\ ValidEvent(capacity, winnerCount, drawAt, now)
        /\ r \in Faulty
        /\ answer' = [answer EXCEPT ![r] = Reply("internal")]
        /\ UNCHANGED event
  /\ UNCHANGED <<bookings, draws, seals, rowLock, clock, pc, loc, writes>>

BeginClose(r, e)  == Begin(r, "close", e, None, "lockRow")
BeginCancel(r, e) == Begin(r, "cancel", e, None, "lockRow")

\* The status an operation writes, and those it may start from.
Target(op) == IF op = "close" THEN "closed" ELSE "cancelled"
\* Variant: Close also takes a cancelled event.
SourcesReopen(op) == IF op = "close" THEN {"open", "cancelled"} ELSE {"open", "closed"}

Sources(op) == IF op = "close" THEN {"open"} ELSE {"open", "closed"}

\* SELECT status ... FOR UPDATE and the switch on it: an event already in the
\* target status commits without an update.
LockForTransition(r) ==
  /\ pc[r] = "lockRow" /\ req[r].op \in {"close", "cancel"}
  /\ \/ /\ ~Exists(Ev(r))
        /\ Refuse(r, "event_not_found")
        /\ UNCHANGED rowLock
     \/ /\ Exists(Ev(r))
        /\ LockRow(r)
        /\ LET current == event[Ev(r)].status
           IN  \/ /\ current \in Sources(req[r].op)
                  /\ Goto(r, "update")
                  /\ UNCHANGED loc
               \/ /\ current = Target(req[r].op)
                  /\ Goto(r, "commit")
                  /\ UNCHANGED loc
               \/ /\ current \notin Sources(req[r].op) \cup {Target(req[r].op)}
                  /\ Refuse(r, "invalid_transition")
  /\ UNCHANGED <<tables, clock, req, writes, answer>>

\* Variant: the transaction commits without the UPDATE.
UpdateStatusSkipped(r) ==
  /\ pc[r] = "update"
  /\ Goto(r, "commit")
  /\ UNCHANGED <<tables, rowLock, clock, req, loc, writes, answer>>

\* UPDATE events SET status = ...
UpdateStatus(r) ==
  /\ pc[r] = "update"
  /\ ~Rejected(r)
  /\ writes' = [writes EXCEPT ![r].status = Target(req[r].op)]
  /\ Goto(r, "commit")
  /\ UNCHANGED <<tables, rowLock, clock, req, loc, answer>>

CommitTransition(r) ==
  /\ pc[r] = "commit" /\ req[r].op \in {"close", "cancel"}
  /\ Apply(r)
  /\ Release(r)
  /\ Goto(r, "getByID")
  /\ loc' = [loc EXCEPT ![r] = NoLocals]
  /\ writes' = [writes EXCEPT ![r] = NoWrites]
  /\ UNCHANGED <<clock, req, answer>>

\* GetByID after the commit: a separate query, on any connection, that reads
\* the status and the booking count of that moment.
GetByID(r) ==
  /\ pc[r] = "getByID"
  /\ Finish(r, [NoAnswer EXCEPT
                  !.code = Target(req[r].op),
                  !.status = event[Ev(r)].status,
                  !.count = Cardinality(bookings[Ev(r)])])
  /\ UNCHANGED <<tables, rowLock, clock, req>>

EventStep(r) ==
  \/ LockForTransition(r) \/ UpdateStatus(r) \/ CommitTransition(r)
  \/ GetByID(r)
=============================================================================
