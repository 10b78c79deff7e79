--------------------------- MODULE FairnessClient ---------------------------
(***************************************************************************)
(* One sample of the fairness test: oneDraw and call of                    *)
(* loadtest/cmd/fairness-api/main.go, against the API.                     *)
(*                                                                         *)
(* A request may be lost before or after the server has served it, or be   *)
(* given up by the client and served later; the client then sends it       *)
(* again.  An answer may also be lost after its header: call then returns  *)
(* the error of the decoder and does not send the request again.  The      *)
(* server serves a request in one step and answers with the code of its    *)
(* error mapping.                                                          *)
(***************************************************************************)
EXTENDS Ranking

CONSTANTS
  K, W,       \* participants and winners of a draw
  Tries,      \* attempts of call, 5 in the code
  MaxAgain,   \* repetitions of a book or draw call, 51 and 21 in the code
  MaxLosses,  \* bound: requests without an answer
  MaxErrors   \* bound: answers 500, 503 and 429

ASSUME SampleAssumption == K \in Nat \ {0} /\ Tries \in Nat \ {0}

Users == 1..K

VARIABLES
  events,  \* the events on the server
  due,     \* draw_at <= now() on the database
  stray,   \* requests that the client has given up and the server still has
  pc,      \* the call the client is in
  user,    \* the participant it books
  ev,      \* the event id it works with
  tries,   \* attempt, of call
  again,   \* attempt, of the loops around call
  last,    \* the last answer, the transport error, or the error of the decoder
  sample,  \* what oneDraw returned
  losses, errors

clientVars == <<events, due, stray, pc, user, ev, tries, again, last, sample, losses, errors>>

\* The request of the current call.
Req == [op |-> pc, ev |-> ev, user |-> user]

-----------------------------------------------------------------------------
(***************************************************************************)
(* The server: what a request answers, and the events after it.            *)
(***************************************************************************)

\* Variant: status and capacity are checked before the duplicate.
BookAnswerFull(e, u) ==
  IF e.status # "open" THEN "event_not_open"
  ELSE IF Cardinality(e.booked) >= K THEN "event_full"
  ELSE IF u \in e.booked THEN "already_booked" ELSE "created"

\* createBooking: a duplicate is reported as such before anything else.
BookAnswer(e, u) ==
  IF u \in e.booked THEN "already_booked"
  ELSE IF e.status # "open" THEN "event_not_open"
  ELSE IF Cardinality(e.booked) >= K THEN "event_full" ELSE "created"

CloseAnswer(e) == IF e.status \in {"open", "closed"} THEN "ok" ELSE "invalid_transition"

\* Variant: a second draw replaces the first.
DrawAnswerAgain(e) ==
  IF e.status = "open" THEN "event_not_closed" ELSE IF ~due THEN "draw_not_due" ELSE "ok"

DrawAnswer(e) ==
  IF e.status = "drawn" THEN "already_drawn"
  ELSE IF e.status = "open" THEN "event_not_closed"
  ELSE IF ~due THEN "draw_not_due"
  ELSE IF e.booked = {} THEN "no_participants" ELSE "ok"

ResultsAnswer(e) == IF e.status = "drawn" THEN "ok" ELSE "results_unavailable"

Answer(q) ==
  CASE q.op = "create"  -> "created"
    [] q.op = "book"    -> BookAnswer(events[q.ev], q.user)
    [] q.op = "close"   -> CloseAnswer(events[q.ev])
    [] q.op = "draw"    -> DrawAnswer(events[q.ev])
    [] q.op = "results" -> ResultsAnswer(events[q.ev])

\* The effect of a request on the events.
Serve(q) ==
  CASE q.op = "create" ->
         events' = Append(events, [status |-> "open", booked |-> {}, drawn |-> <<>>])
    [] q.op = "book" /\ Answer(q) = "created" ->
         events' = [events EXCEPT ![q.ev].booked = @ \cup {q.user}]
    [] q.op = "close" /\ Answer(q) = "ok" ->
         events' = [events EXCEPT ![q.ev].status = "closed"]
    [] q.op = "draw" /\ Answer(q) = "ok" ->
         \E order \in Orderings(events[q.ev].booked) :
           events' = [events EXCEPT ![q.ev].status = "drawn", ![q.ev].drawn = order]
    [] OTHER -> UNCHANGED events

-----------------------------------------------------------------------------
(***************************************************************************)
(* The client: what it does with what call returned.                       *)
(***************************************************************************)
GotoCall(label) == pc' = label /\ again' = 0

Fails == pc' = "failed" /\ UNCHANGED <<user, ev, again, sample>>

\* The loops around call go on until attempt > 50 and attempt > 20.
Repeat ==
  IF again < MaxAgain
    THEN again' = again + 1 /\ UNCHANGED <<pc, user, ev, sample>>
    ELSE Fails

AfterCreate(ans) ==
  IF ans = "created"
    THEN ev' = Len(events') /\ GotoCall("book") /\ UNCHANGED <<user, sample>>
    ELSE Fails

\* i < k, counting from 1.
MoreUsers == user < K

\* Everything but success and "already booked" is tried again.
AfterBook(ans) ==
  IF ans \in {"created", "already_booked"}
    THEN /\ IF MoreUsers THEN user' = user + 1 /\ GotoCall("book")
                         ELSE GotoCall("close") /\ UNCHANGED user
         /\ UNCHANGED <<ev, sample>>
    ELSE Repeat

AfterClose(ans) ==
  IF ans = "ok" THEN GotoCall("draw") /\ UNCHANGED <<user, ev, sample>> ELSE Fails

\* The length checks on the decoded answer: the draw has min(W, K) winners, and
\* the others are its waitlist.
Returns ==
  IF Len(events'[ev].drawn) = K
    THEN /\ sample' = SubSeq(events'[ev].drawn, 1, W)
         /\ pc' = "returned"
         /\ UNCHANGED <<user, ev, again>>
    ELSE Fails

AfterDraw(ans) ==
  CASE ans = "draw_not_due"  -> Repeat
    [] ans = "already_drawn" -> GotoCall("results") /\ UNCHANGED <<user, ev, sample>>
    [] ans = "ok"            -> Returns
    [] OTHER                 -> Fails

AfterResults(ans) == IF ans = "ok" THEN Returns ELSE Fails

After(ans) ==
  CASE pc = "create"  -> AfterCreate(ans)
    [] pc = "book"    -> AfterBook(ans)
    [] pc = "close"   -> AfterClose(ans)
    [] pc = "draw"    -> AfterDraw(ans)
    [] pc = "results" -> AfterResults(ans)

Calling == pc \notin {"returned", "failed"}

\* The server serves the request and the client gets the answer.
Exchange ==
  /\ Calling
  /\ Serve(Req)
  /\ last' = Answer(Req)
  /\ After(Answer(Req))
  /\ tries' = 0
  /\ UNCHANGED <<due, stray, losses, errors>>

\* The body of an answer ends early, and the decoder fails: call returns that
\* error at once.  close has no body to decode (out is nil).
CutAnswer ==
  /\ Calling
  /\ pc # "close"
  /\ Serve(Req)
  /\ last' = "cut"
  /\ After("cut")
  /\ tries' = 0
  /\ UNCHANGED <<due, stray, losses, errors>>

\* The server answers 500, 503 or 429, whether or not it has done its work.
ServerFails ==
  /\ Calling
  /\ errors < MaxErrors
  /\ errors' = errors + 1
  /\ Serve(Req) \/ UNCHANGED events
  /\ last' = "error"
  /\ After("error")
  /\ tries' = 0
  /\ UNCHANGED <<due, stray, losses>>

\* No answer: the request was served, was not, or will be.  call sends it once
\* more or returns the transport error.
Lose ==
  /\ Calling
  /\ losses < MaxLosses
  /\ losses' = losses + 1
  /\ \/ Serve(Req) /\ UNCHANGED stray
     \/ UNCHANGED <<events, stray>>
     \/ stray' = stray \cup {Req} /\ UNCHANGED events
  /\ last' = "transport"
  /\ IF tries + 1 < Tries
       THEN tries' = tries + 1 /\ UNCHANGED <<pc, user, ev, again, sample>>
       ELSE tries' = 0 /\ After("transport")
  /\ UNCHANGED <<due, errors>>

\* A request that the client has given up is served.
ServeStray ==
  \E q \in stray :
    /\ Serve(q)
    /\ stray' = stray \ {q}
    /\ UNCHANGED <<due, pc, user, ev, tries, again, last, sample, losses, errors>>

\* The clock of the database passes draw_at.
BecomeDue ==
  /\ ~due
  /\ due' = TRUE
  /\ UNCHANGED <<events, stray, pc, user, ev, tries, again, last, sample, losses, errors>>

InitClient ==
  /\ events = <<>> /\ stray = {} /\ due = FALSE
  /\ pc = "create" /\ user = 1 /\ ev = 0
  /\ tries = 0 /\ again = 0 /\ last = "none"
  /\ sample = <<>>
  /\ losses = 0 /\ errors = 0

NextClient == Exchange \/ CutAnswer \/ ServerFails \/ Lose \/ ServeStray \/ BecomeDue

SpecClient == InitClient /\ [][NextClient]_clientVars

-----------------------------------------------------------------------------
\* A sample is the committed result of one draw among all K participants, also
\* when the draw was made by a request whose answer was lost or that came late.
SampleIsCommitted ==
  pc = "returned" =>
    /\ events[ev].status = "drawn" /\ events[ev].booked = Users
    /\ sample = SubSeq(events[ev].drawn, 1, W)

\* An answer that was cut within its body costs a sample, except while booking,
\* where the call is repeated: then only the last repetition does.
CutCosts ==
  last = "cut" /\ (ev = 0 \/ events[ev].status # "open" \/ ~(again < MaxAgain))

\* Requests that got no HTTP response do not cost a sample (the comment on call):
\* what ends oneDraw is an answer 5xx or 429, a call that ran out of attempts, a
\* draw that is not due, or an answer to create, draw or results, or to the last
\* repetition of a booking, that was cut within its body.
LossesAreSurvived ==
  pc = "failed" =>
    \/ last \in {"error", "draw_not_due"}
    \/ last = "transport" /\ losses >= Tries
    \/ CutCosts
=============================================================================
