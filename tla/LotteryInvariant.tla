-------------------------- MODULE LotteryInvariant --------------------------
(***************************************************************************)
(* The inductive invariant behind the safety properties of LotterySystem:  *)
(* what a request knows at each statement, and why it stays true while it  *)
(* holds the row lock.                                                     *)
(***************************************************************************)
EXTENDS LotterySystem

\* Labels at which the transaction has written nothing.
Fresh == {"idle", "lockRow", "exists", "count", "insert", "update",
          "participants"} \cup Reading

\* Labels at which the transaction certainly holds the row lock.
Locked == {"exists", "count", "insert", "update", "participants", "insertDraw",
           "seal", "markDrawn", "commit", "orphanCommit"}

Committing(r, ops) == pc[r] \in {"commit", "orphanCommit"} /\ req[r].op \in ops

FreshInv == \A r \in Workers : pc[r] \in Fresh => writes[r] = NoWrites

\* The loop over the ranking has a next rank to insert.
LoopInv ==
  \A r \in Workers :
    pc[r] = "insertDraw" => Len(writes[r].rows) < Len(loc[r].order)

\* A locked row exists; rows are never deleted.
ExistsInv == \A r \in Workers : pc[r] \in Locked => Exists(Ev(r))

\* The operations that use a label.
Fits(op, label) ==
  /\ label \in {"exists", "count", "insert"} => op = "book"
  /\ label \in {"update", "getByID"} => op \in {"close", "cancel"}
  /\ label \in {"participants", "insertDraw", "seal", "markDrawn"} => op = "draw"
  /\ label \in {"fetchEvent", "fetchRows", "fetchSeal"} => op = "results"
  /\ label \in {"lockRow", "commit", "orphanCommit"} =>
       op \in {"book", "close", "cancel", "draw"}

OpInv == \A r \in Workers : Fits(req[r].op, pc[r])

Typed == TypeOK /\ FreshInv /\ LoopInv /\ ExistsInv /\ OpInv

LockInv == \A r \in Workers : pc[r] \in Locked => rowLock[Ev(r)] = r

\* At any time at most one transaction is past the locking read of an event,
\* whatever the operations, the replicas they run on, and the failures.
Serialised ==
  \A q, r \in Workers :
    pc[q] \in Locked /\ pc[r] \in Locked /\ Ev(q) = Ev(r) => q = r

\* What a booking has found out under the lock.
BookKnows(r) ==
  LET e == Ev(r)
      checked == pc[r] \in {"count", "insert"} \/ Committing(r, {"book"})
      counted == pc[r] = "insert" \/ Committing(r, {"book"})
  IN  /\ pc[r] = "exists" \/ checked => loc[r].row = event[e]
      /\ checked => event[e].status = "open" /\ req[r].user \notin bookings[e]
      /\ counted => Cardinality(bookings[e]) < event[e].capacity
      /\ Committing(r, {"book"}) =>
           writes[r] = [NoWrites EXCEPT !.users = {req[r].user}]

\* What Close or Cancel has found out under the lock.
TransitionKnows(r) ==
  LET e == Ev(r)
      op == req[r].op
  IN  /\ pc[r] = "update" => event[e].status \in Sources(op)
      /\ Committing(r, {"close", "cancel"}) =>
           \/ event[e].status = Target(op) /\ writes[r] = NoWrites
           \/ /\ event[e].status \in Sources(op)
              /\ writes[r] = [NoWrites EXCEPT !.status = Target(op)]

\* The rows a draw has inserted so far are the first ones of its ranking.
RowsFollow(rows, order, stamp) ==
  \A i \in 1..Len(rows) :
    rows[i] = [user |-> order[i], total |-> Len(order), drawnAt |-> stamp]

\* What a draw has found out and written under the lock.
DrawKnows(r) ==
  LET e == Ev(r)
      w == writes[r]
      order == loc[r].order
      sealed == pc[r] = "markDrawn" \/ Committing(r, {"draw"})
      inserted == pc[r] = "seal" \/ sealed
      shuffled == pc[r] = "insertDraw" \/ inserted
  IN  /\ pc[r] = "participants" \/ shuffled =>
           /\ event[e].status = "closed" /\ loc[r].row = event[e]
           /\ event[e].drawAt <= clock
      /\ shuffled =>
           /\ bookings[e] # {} /\ order \in Orderings(bookings[e])
           /\ Stored(loc[r].stamp) = loc[r].stamp
           /\ w.users = {} /\ RowsFollow(w.rows, order, loc[r].stamp)
      /\ pc[r] \in {"insertDraw", "seal"} => w.seals = {}
      /\ pc[r] \in {"insertDraw", "seal", "markDrawn"} => w.status = "keep"
      /\ inserted => Len(w.rows) = Len(order)
      /\ sealed => w.seals =
           {drawDigest(e, event[e].winnerCount, loc[r].stamp, w.rows)}
      /\ Committing(r, {"draw"}) => w.status = "drawn"

\* now() of a transaction is not in the future.
BeganInv == \A r \in Workers : loc[r].began <= clock

\* What the tables say of an event without a row.
AbsentInv == \A e \in EventIds : ~Exists(e) => bookings[e] = {}

KnowsInv == \A r \in Workers : BookKnows(r) /\ TransitionKnows(r) /\ DrawKnows(r)

IInv ==
  /\ Typed /\ LockInv /\ BeganInv /\ AbsentInv /\ KnowsInv
  /\ CapacityRespected /\ DrawIsComplete /\ DrawIsDue

-----------------------------------------------------------------------------
(***************************************************************************)
(* What the clients have been told, on top of IInv.                        *)
(***************************************************************************)

\* Codes that say nothing lasting about an event.
Silent == {"none", "internal", "created", "invalid_input", "event_not_found",
           "event_not_closed", "draw_not_due", "results_unavailable"}

\* What a code says of the event of the request, from the time the handler
\* decides on it and for ever.
Told(r, code) ==
  LET e == Ev(r)
      user == req[r].user
      status == event[e].status
  IN  \/ code \in Silent
      \/ /\ e \in EventIds /\ Exists(e)
         /\ \/ /\ code \in {"booked", "already_booked"}
               /\ user \in bookings[e]
            \/ /\ code = "event_full"
               /\ Cardinality(bookings[e]) = event[e].capacity
               /\ user \notin bookings[e]
            \/ /\ code = "event_not_open"
               /\ status # "open" /\ user \notin bookings[e]
            \/ code = "closed" /\ status # "open"
            \/ code = "cancelled" /\ status = "cancelled"
            \/ /\ code \in {"already_drawn", "event_cancelled", "invalid_transition"}
               /\ status \in {"drawn", "cancelled"}
            \/ /\ code = "no_participants"
               /\ bookings[e] = {} /\ status \in {"closed", "cancelled"}
            \/ code = "verified" /\ status = "drawn"

\* What a reply shows besides its code: the count of a closed event, or the
\* outcome of a drawn one.
Shown(r) ==
  LET a == answer[r]
      e == Ev(r)
      ranking == UsersOf(draws[e])
  IN  /\ a.code \in {"closed", "cancelled"} =>
           /\ a.status \in {"closed", "drawn", "cancelled"}
           /\ a.count = Cardinality(bookings[e])
      /\ a.code = "verified" =>
           /\ a.winners = Winners(ranking, event[e].winnerCount)
           /\ a.waitlist = Waitlist(ranking, event[e].winnerCount)

\* What a handler has decided or read outside a transaction.
Read(r) ==
  LET e == Ev(r)
  IN  /\ pc[r] = "rollback" =>
           /\ Told(r, loc[r].code)
           /\ loc[r].code \notin {"closed", "cancelled", "verified"}
      /\ pc[r] = "getByID" => Told(r, Target(req[r].op))
      /\ pc[r] \in {"fetchRows", "fetchSeal"} =>
           event[e].status = "drawn" /\ loc[r].row = event[e]
      /\ pc[r] = "fetchSeal" => loc[r].fetched = draws[e]

\* The seal of a draw is the digest of its rows.
SealInv ==
  \A e \in EventIds :
    event[e].status = "drawn" =>
      /\ draws[e] # <<>>
      /\ seals[e] =
           {drawDigest(e, event[e].winnerCount, draws[e][1].drawnAt, draws[e])}

AnswersInv ==
  /\ SealInv
  /\ \A r \in Workers : Told(r, answer[r].code) /\ Shown(r) /\ Read(r)
=============================================================================
