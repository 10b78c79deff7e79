------------------------------- MODULE Lottery -------------------------------
(***************************************************************************)
(* RunDraw and GetResults of internal/lottery/service.go.  The shuffle is  *)
(* any ordering of the participants; LotteryAlgorithm models how it is     *)
(* computed.  SHA-256 is taken to be injective, so a digest is the tuple   *)
(* of what it is computed from.                                            *)
(***************************************************************************)
EXTENDS Database, Ranking

\* Variant: the time is hashed with its nanoseconds.
TruncateNot(t) == t

\* time.Now().UTC().Truncate(time.Microsecond)
Truncate(t) == t - (t % 1000)

drawDigest(e, winnerCount, drawnAt, rows) ==
  <<e, winnerCount, drawnAt, Len(rows),
    [rank \in DOMAIN rows |-> <<rows[rank].user, rows[rank].total>>]>>

\* Variant: draw_at is not looked at.
DueAlways(r, row) == TRUE

\* draw_at <= now(), where now() is the time the transaction began.
Due(r, row) == row.drawAt <= loc[r].began

BeginDraw(r, e) == Begin(r, "draw", e, None, "lockRow")

\* SELECT ..., draw_at <= now() ... FOR UPDATE, the status switch and the
\* test that the draw is due.
LockForDraw(r) ==
  /\ pc[r] = "lockRow" /\ req[r].op = "draw"
  /\ \/ /\ ~Exists(Ev(r))
        /\ Refuse(r, "event_not_found")
        /\ UNCHANGED rowLock
     \/ /\ Exists(Ev(r))
        /\ LockRow(r)
        /\ LET row == event[Ev(r)]
           IN  \/ /\ row.status = "drawn"
                  /\ Refuse(r, "already_drawn")
               \/ /\ row.status = "cancelled"
                  /\ Refuse(r, "event_cancelled")
               \/ /\ row.status = "open"
                  /\ Refuse(r, "event_not_closed")
               \/ /\ row.status = "closed"
                  /\ ~Due(r, row)
                  /\ Refuse(r, "draw_not_due")
               \/ /\ row.status = "closed"
                  /\ Due(r, row)
                  /\ Goto(r, "participants")
                  /\ loc' = [loc EXCEPT ![r].row = row]
  /\ UNCHANGED <<tables, clock, req, writes, answer>>

\* SELECT user_id FROM bookings, the shuffle, and the time of the draw.
FetchParticipants(r) ==
  /\ pc[r] = "participants"
  /\ \/ /\ bookings[Ev(r)] = {}
        /\ Refuse(r, "no_participants")
     \/ /\ bookings[Ev(r)] # {}
        /\ \E s \in Orderings(bookings[Ev(r)]), now \in AppTimes :
              loc' = [loc EXCEPT ![r].order = s, ![r].stamp = Truncate(now)]
        /\ Goto(r, "insertDraw")
  /\ UNCHANGED <<tables, rowLock, clock, req, writes, answer>>

\* One INSERT INTO lottery_draws per participant, ranks 1, 2, ...
InsertDraw(r) ==
  LET order == loc[r].order
      rank == Len(writes[r].rows) + 1
  IN  /\ pc[r] = "insertDraw"
      /\ ~Rejected(r)
      /\ writes' = [writes EXCEPT ![r].rows =
            Append(@, [user |-> order[rank], total |-> Len(order),
                       drawnAt |-> Stored(loc[r].stamp)])]
      /\ Goto(r, IF rank = Len(order) THEN "seal" ELSE "insertDraw")
      /\ UNCHANGED <<tables, rowLock, clock, req, loc, answer>>

\* INSERT INTO lottery_draw_seals
InsertSeal(r) ==
  /\ pc[r] = "seal"
  /\ ~Rejected(r)
  /\ writes' = [writes EXCEPT ![r].seals =
        {drawDigest(Ev(r), loc[r].row.winnerCount, loc[r].stamp, writes[r].rows)}]
  /\ Goto(r, "markDrawn")
  /\ UNCHANGED <<tables, rowLock, clock, req, loc, answer>>

\* UPDATE events SET status = 'drawn'
MarkDrawn(r) ==
  /\ pc[r] = "markDrawn"
  /\ ~Rejected(r)
  /\ writes' = [writes EXCEPT ![r].status = "drawn"]
  /\ Goto(r, "commit")
  /\ UNCHANGED <<tables, rowLock, clock, req, loc, answer>>

CommitDraw(r) ==
  /\ pc[r] = "commit" /\ req[r].op = "draw"
  /\ Apply(r)
  /\ Release(r)
  /\ Finish(r, [NoAnswer EXCEPT
                  !.code = "verified",
                  !.winners = Winners(loc[r].order, loc[r].row.winnerCount),
                  !.waitlist = Waitlist(loc[r].order, loc[r].row.winnerCount)])
  /\ UNCHANGED <<clock, req>>

-----------------------------------------------------------------------------
(***************************************************************************)
(* GetResults: three queries outside any transaction.                      *)
(***************************************************************************)
BeginResults(r, e) == Begin(r, "results", e, None, "fetchEvent")

\* SELECT title, winner_count FROM events WHERE id = $1 AND status = 'drawn'
FetchDrawnEvent(r) ==
  /\ pc[r] = "fetchEvent"
  /\ \/ /\ event[Ev(r)].status # "drawn"
        /\ Refuse(r, "results_unavailable")
     \/ /\ event[Ev(r)].status = "drawn"
        /\ loc' = [loc EXCEPT ![r].row = event[Ev(r)]]
        /\ Goto(r, "fetchRows")
  /\ UNCHANGED <<tables, rowLock, clock, req, writes, answer>>

\* SELECT ... FROM lottery_draws WHERE event_id = $1 ORDER BY draw_rank
FetchRows(r) ==
  /\ pc[r] = "fetchRows"
  /\ loc' = [loc EXCEPT ![r].fetched = draws[Ev(r)]]
  /\ Goto(r, "fetchSeal")
  /\ UNCHANGED <<tables, rowLock, clock, req, writes, answer>>

\* The integrity of fetched rows: the digest is recomputed with the drawn_at
\* of the first row (the zero time if there is none).
Integrity(e, winnerCount, rows) ==
  LET drawnAt == IF rows = <<>> THEN 0 ELSE rows[1].drawnAt
  IN  CASE seals[e] = {} -> "unsealed"
        [] seals[e] = {drawDigest(e, winnerCount, drawnAt, rows)} -> "verified"
        [] OTHER -> "mismatch"

\* The rows with rank up to winner_count are the winners.
FetchSeal(r) ==
  LET rows == loc[r].fetched
      count == loc[r].row.winnerCount
      last == IF count <= Len(rows) THEN count ELSE Len(rows)
  IN  /\ pc[r] = "fetchSeal"
      /\ Finish(r, [NoAnswer EXCEPT
                      !.code = Integrity(Ev(r), count, rows),
                      !.winners = SubSeq(UsersOf(rows), 1, last),
                      !.waitlist = SubSeq(UsersOf(rows), count + 1, Len(rows))])
      /\ UNCHANGED <<tables, rowLock, clock, req>>

LotteryStep(r) ==
  \/ LockForDraw(r) \/ FetchParticipants(r) \/ InsertDraw(r) \/ InsertSeal(r)
  \/ MarkDrawn(r) \/ CommitDraw(r)
  \/ FetchDrawnEvent(r) \/ FetchRows(r) \/ FetchSeal(r)
=============================================================================
