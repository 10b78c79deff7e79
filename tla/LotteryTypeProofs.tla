-------------------------- MODULE LotteryTypeProofs --------------------------
(***************************************************************************)
(* Theorems about LotterySystem, for every set of events, users and        *)
(* workers and every bound.                                                *)
(***************************************************************************)
EXTENDS LotteryInvariant, FiniteSetTheorems, TLAPS

-----------------------------------------------------------------------------
(***************************************************************************)
(* Lists.  These few facts are in SequenceTheorems too: stated here, they  *)
(* keep small the context that every obligation carries.                   *)
(***************************************************************************)
\* Lists are the functions from 1..n.
LEMMA ListDef == \A S : Seq(S) = UNION {[1..n -> S] : n \in Nat}
  OBVIOUS

\* The empty list, and the length of any other.
LEMMA ListEmpty ==
  ASSUME NEW S
  PROVE  /\ <<>> \in Seq(S) /\ Len(<<>>) = 0
         /\ \A s \in Seq(S) : s # <<>> => Len(s) \in Nat \ {0}
  OBVIOUS

\* The length and the domain of a list.
LEMMA ListLen ==
  ASSUME NEW S, NEW s \in Seq(S)
  PROVE  Len(s) \in Nat /\ s \in [1..Len(s) -> S] /\ DOMAIN s = 1..Len(s)
  OBVIOUS

\* The elements of a list.
LEMMA ListElement ==
  ASSUME NEW S, NEW s \in Seq(S), NEW i \in 1..Len(s)
  PROVE  s[i] \in S
  OBVIOUS

\* A list over a set is one over a larger set.
LEMMA ListWiden ==
  ASSUME NEW S, NEW T, NEW s \in Seq(S), S \subseteq T
  PROVE  s \in Seq(T)
  OBVIOUS

\* A part of a list.
LEMMA ListPart ==
  ASSUME NEW S, NEW s, NEW a \in Int, NEW b \in Int, \A i \in a..b : s[i] \in S
  PROVE  /\ SubSeq(s, a, b) \in Seq(S)
         /\ Len(SubSeq(s, a, b)) = IF a <= b THEN b - a + 1 ELSE 0
         /\ \A i \in 1..(b - a + 1) : SubSeq(s, a, b)[i] = s[a + i - 1]
  OBVIOUS

\* Two lists in a row are a list.
LEMMA ListConcat ==
  ASSUME NEW S, NEW s \in Seq(S), NEW t \in Seq(S)
  PROVE  s \o t \in Seq(S)
  OBVIOUS

\* Nothing changes with an empty list before or behind.
LEMMA ListConcatEmpty ==
  ASSUME NEW S, NEW s \in Seq(S)
  PROVE  s \o <<>> = s /\ <<>> \o s = s
  OBVIOUS

\* A list with one more element.
LEMMA ListAppend ==
  ASSUME NEW S, NEW s \in Seq(S), NEW x \in S
  PROVE  /\ Append(s, x) \in Seq(S)
         /\ Len(Append(s, x)) = Len(s) + 1
         /\ \A i \in 1..Len(s) : Append(s, x)[i] = s[i]
         /\ Append(s, x)[Len(s) + 1] = x
  OBVIOUS

-----------------------------------------------------------------------------
(***************************************************************************)
(* Facts about the operators the model is built from.                      *)
(***************************************************************************)

\* The initial locals, writes and answers of a worker have their types.
LEMMA Defaults ==
  /\ NoLocals \in Locals
  /\ NoWrites \in Writes
  /\ NoAnswer \in Answers
  /\ \A code \in Codes : Reply(code) \in Answers
<1>1. \A S : <<>> \in Seq(S)
  BY ListEmpty
<1>2. {"none", "internal"} \subseteq Codes
  BY DEF Codes
<1>3. NoLocals \in Locals
  BY <1>1, <1>2, NumberAssumption DEF NoLocals, Locals
<1>4. NoWrites \in Writes
  BY <1>1 DEF NoWrites, Writes
<1>5. NoAnswer \in Answers
  BY <1>1, <1>2 DEF NoAnswer, Answers
<1>6. \A code \in Codes : Reply(code) \in Answers
  BY <1>5 DEF Answers, Reply
<1>7. QED BY <1>3, <1>4, <1>5, <1>6

\* An answer that shows the outcome of a draw.
LEMMA OutcomeAnswer ==
  ASSUME NEW code \in Codes, NEW s \in Seq(Users), NEW t \in Seq(Users)
  PROVE  [NoAnswer EXCEPT !.code = code, !.winners = s, !.waitlist = t] \in Answers
<1>1. NoAnswer \in Answers
  BY Defaults
<1>2. QED BY <1>1, Zenon DEF Answers

\* The users booked on an event form a finite set, so COUNT(*) is a number.
LEMMA BookingsFinite ==
  ASSUME TypeOK, NEW e \in EventIds
  PROVE  IsFiniteSet(bookings[e]) /\ Cardinality(bookings[e]) \in Nat
<1>1. bookings[e] \in SUBSET Users
  BY DEF TypeOK
<1>2. IsFiniteSet(bookings[e])
  BY <1>1, FS_Subset, UsersAssumption
<1>3. QED BY <1>2, FS_CardinalityType

\* A shuffle of S is a sequence over S as long as S has elements.
LEMMA OrderingsSeq ==
  ASSUME NEW S, Cardinality(S) \in Nat, NEW s \in Orderings(S)
  PROVE  s \in Seq(S) /\ Len(s) = Cardinality(S)
  BY DEF Orderings

\* Truncating a time gives a time, and truncating it again changes nothing.
LEMMA TruncateStored ==
  ASSUME NEW t \in Nat
  PROVE  Truncate(t) \in Nat /\ Stored(t) \in Nat /\ Stored(Truncate(t)) = Truncate(t)
  BY DEF Truncate, Stored

\* drawDigest of typed rows is a digest.
LEMMA DigestType ==
  ASSUME NEW e \in EventIds, NEW n \in Nat, NEW t \in Nat, NEW rows \in Seq(DrawRow)
  PROVE  drawDigest(e, n, t, rows) \in Digest
<1> DEFINE pairs == [rank \in DOMAIN rows |-> <<rows[rank].user, rows[rank].total>>]
<1>1. Len(rows) \in Nat /\ DOMAIN rows = 1..Len(rows)
  BY ListLen
<1>2. \A i \in 1..Len(rows) : rows[i] \in DrawRow
  BY ListElement
<1>3. \A i \in 1..Len(rows) : pairs[i] \in Users \X Nat
  BY <1>1, <1>2 DEF DrawRow
<1>4. pairs \in [1..Len(rows) -> Users \X Nat]
  BY <1>1, <1>3
<1>5. pairs \in Seq(Users \X Nat)
  BY <1>1, <1>4, ListDef
<1>6. QED BY <1>1, <1>5 DEF drawDigest, Digest

\* The users of a list of draw rows are a list of users.
LEMMA UsersOfSeq ==
  ASSUME NEW rows \in Seq(DrawRow)
  PROVE  UsersOf(rows) \in Seq(Users) /\ Len(UsersOf(rows)) = Len(rows)
<1>1. Len(rows) \in Nat /\ DOMAIN rows = 1..Len(rows)
  BY ListLen
<1>2. \A i \in 1..Len(rows) : rows[i] \in DrawRow
  BY ListElement
<1>3. UsersOf(rows) \in [1..Len(rows) -> Users]
  BY <1>1, <1>2 DEF UsersOf, DrawRow
<1>4. QED BY <1>1, <1>3, ListDef

\* Winners and waitlist of a list of users are lists of users.
LEMMA SplitSeq ==
  ASSUME NEW s \in Seq(Users), NEW n \in Nat
  PROVE  Winners(s, n) \in Seq(Users) /\ Waitlist(s, n) \in Seq(Users)
<1>1. Len(s) \in Nat /\ \A i \in 1..Len(s) : s[i] \in Users
  BY ListLen, ListElement
<1>2. CASE n >= Len(s)
  BY <1>2, ListEmpty DEF Winners, Waitlist
<1>3. CASE n < Len(s)
  <2>1. SubSeq(s, 1, n) \in Seq(Users)
    BY <1>1, <1>3, ListPart
  <2>2. SubSeq(s, n + 1, Len(s)) \in Seq(Users)
    BY <1>1, <1>3, ListPart
  <2>3. QED BY <1>1, <1>3, <2>1, <2>2 DEF Winners, Waitlist
<1>4. QED BY <1>1, <1>2, <1>3

-----------------------------------------------------------------------------
(***************************************************************************)
(* Type correctness.                                                       *)
(***************************************************************************)
\* The empty tables and the idle workers are well typed.
LEMMA InitTyped == Init => Typed
<1> SUFFICES ASSUME Init PROVE Typed
  OBVIOUS
<1>1. \A S : <<>> \in Seq(S)
  BY ListEmpty
<1>2. TypeOK
  BY <1>1, NumberAssumption, Defaults
  DEF Init, InitDatabase, TypeOK, NoRequest, Labels
<1>3. FreshInv /\ LoopInv /\ ExistsInv /\ OpInv
  BY DEF Init, InitDatabase, FreshInv, LoopInv, ExistsInv, Locked, OpInv, Fits
<1>4. QED BY <1>2, <1>3 DEF Typed

\* A handler that has decided to refuse.
LEMMA RefuseTyped ==
  ASSUME Typed, NEW r \in Workers, NEW code \in Codes, req[r] \in Request,
         Refuse(r, code), UNCHANGED <<tables, clock, req, writes, answer>>,
         rowLock' \in [EventIds -> Workers \cup {None}]
  PROVE  Typed'
<1>1. TypeOK'
  <2>1. loc' \in [Workers -> Locals]
    <3>1. loc \in [Workers -> Locals] /\ loc' = [loc EXCEPT ![r].code = code]
      BY DEF Typed, TypeOK, Refuse
    <3>2. [loc[r] EXCEPT !.code = code] \in Locals
      BY <3>1, Zenon DEF Locals
    <3>3. QED BY <3>1, <3>2
  <2>2. QED BY <2>1 DEF Typed, TypeOK, Refuse, Goto, tables, Labels
<1>2. FreshInv'
  BY DEF Typed, TypeOK, FreshInv, Fresh, Reading, Refuse, Goto
<1>3. LoopInv'
  BY DEF Typed, TypeOK, LoopInv, Refuse, Goto
<1>4. ExistsInv'
  BY DEF Typed, TypeOK, ExistsInv, Locked, Exists, Ev, Refuse, Goto, tables
<1>5. OpInv'
  BY DEF Typed, TypeOK, OpInv, Fits, Refuse, Goto
<1>6. QED BY <1>1, <1>2, <1>3, <1>4, <1>5 DEF Typed

\* A handler that goes on to its next statement.
LEMMA GotoTyped ==
  ASSUME Typed, NEW r \in Workers, NEW label \in Labels, req[r] \in Request,
         Goto(r, label), UNCHANGED <<tables, clock, req, answer>>,
         rowLock' \in [EventIds -> Workers \cup {None}],
         NEW l \in Locals, loc' = [loc EXCEPT ![r] = l],
         NEW w \in Writes, writes' = [writes EXCEPT ![r] = w],
         label \in Fresh => w = NoWrites,
         label = "insertDraw" => Len(w.rows) < Len(l.order),
         label \in Locked => Exists(Ev(r)), Fits(req[r].op, label)
  PROVE  Typed'
<1>1. TypeOK'
  BY DEF Typed, TypeOK, Goto, tables
<1>2. FreshInv'
  BY DEF Typed, TypeOK, FreshInv, Goto
<1>3. LoopInv'
  BY DEF Typed, TypeOK, LoopInv, Goto
<1>4. ExistsInv'
  BY DEF Typed, TypeOK, ExistsInv, Exists, Ev, Goto, tables
<1>5. OpInv'
  BY DEF Typed, TypeOK, OpInv, Goto
<1>6. QED BY <1>1, <1>2, <1>3, <1>4, <1>5 DEF Typed

\* A handler that returns, after a commit or without one.
LEMMA FinishTyped ==
  ASSUME Typed, NEW r \in Workers, NEW a \in Answers, Finish(r, a),
         Release(r) \/ UNCHANGED rowLock, UNCHANGED <<clock, req>>,
         event' \in [EventIds -> EventRow \cup {NoEvent}],
         bookings' \in [EventIds -> SUBSET Users],
         draws' \in [EventIds -> Seq(DrawRow)],
         seals' \in [EventIds -> SUBSET Digest],
         \A e \in EventIds : Exists(e) => Exists(e)'
  PROVE  Typed'
<1>1. TypeOK'
  BY Defaults DEF Typed, TypeOK, Finish, Goto, Release, Labels
<1>2. FreshInv'
  BY DEF Typed, TypeOK, FreshInv, Finish, Goto
<1>3. LoopInv'
  BY DEF Typed, TypeOK, LoopInv, Finish, Goto
<1>4. ExistsInv'
  <2> SUFFICES ASSUME NEW q \in Workers, pc'[q] \in Locked PROVE Exists(Ev(q))'
    BY DEF ExistsInv
  <2>1. q # r /\ pc[q] \in Locked
    BY DEF Typed, TypeOK, Finish, Goto, Locked
  <2>2. Exists(Ev(q)) /\ Ev(q) \in EventIds
    BY <2>1 DEF Typed, TypeOK, ExistsInv, Locked, Ev, Request
  <2>3. QED BY <2>2 DEF Ev, Exists
<1>5. OpInv'
  BY DEF Typed, TypeOK, OpInv, Fits, Finish, Goto
<1>6. QED BY <1>1, <1>2, <1>3, <1>4, <1>5 DEF Typed

\* A commit keeps the tables well-typed and deletes no event.
LEMMA ApplyTyped ==
  ASSUME Typed, NEW r \in Workers, pc[r] \in Locked, Apply(r)
  PROVE  /\ event' \in [EventIds -> EventRow \cup {NoEvent}]
         /\ bookings' \in [EventIds -> SUBSET Users]
         /\ draws' \in [EventIds -> Seq(DrawRow)]
         /\ seals' \in [EventIds -> SUBSET Digest]
         /\ \A e \in EventIds : Exists(e) => Exists(e)'
<1>1. Ev(r) \in EventIds /\ event[Ev(r)] \in EventRow
  BY DEF Typed, TypeOK, ExistsInv, Exists, NoEvent, Ev, Request, Locked
<1>2. writes[r] \in Writes
  BY DEF Typed, TypeOK
<1>3. event' \in [EventIds -> EventRow \cup {NoEvent}]
  BY <1>1, <1>2, Zenon DEF Typed, TypeOK, Apply, Writes, EventRow
<1>4. bookings' \in [EventIds -> SUBSET Users]
  BY <1>1, <1>2 DEF Typed, TypeOK, Apply, Writes
<1>5. draws' \in [EventIds -> Seq(DrawRow)]
  BY <1>1, <1>2, ListConcat DEF Typed, TypeOK, Apply, Writes
<1>6. seals' \in [EventIds -> SUBSET Digest]
  BY <1>1, <1>2 DEF Typed, TypeOK, Apply, Writes
<1>7. \A e \in EventIds : Exists(e) => Exists(e)'
  BY <1>1, <1>2 DEF Typed, TypeOK, Apply, Writes, Status, Exists, EventRow
<1>8. QED BY <1>3, <1>4, <1>5, <1>6, <1>7

\* A handler that goes on without touching its locals or its writes.
LEMMA AdvanceTyped ==
  ASSUME Typed, NEW r \in Workers, NEW label \in Labels, req[r] \in Request,
         Goto(r, label), UNCHANGED <<tables, clock, req, answer, loc, writes>>,
         rowLock' \in [EventIds -> Workers \cup {None}],
         label \in Fresh => writes[r] = NoWrites, label # "insertDraw",
         label \in Locked => Exists(Ev(r)), Fits(req[r].op, label)
  PROVE  Typed'
<1>1. loc[r] \in Locals /\ writes[r] \in Writes
  BY DEF Typed, TypeOK
<1>2. loc' = [loc EXCEPT ![r] = loc[r]] /\ writes' = [writes EXCEPT ![r] = writes[r]]
  BY DEF Typed, TypeOK
<1>3. QED BY <1>1, <1>2, GotoTyped, Zenon

\* The row lock taken by a locking read is held by a worker.
LEMMA LockTyped ==
  ASSUME Typed, NEW r \in Workers, LockRow(r)
  PROVE  rowLock' \in [EventIds -> Workers \cup {None}]
  BY Zenon DEF Typed, TypeOK, LockRow

\* The request a busy worker serves.
LEMMA BusyRequest ==
  ASSUME Typed, NEW r \in Workers, pc[r] # "idle"
  PROVE  req[r] \in Request /\ Ev(r) \in EventIds
  BY DEF Typed, TypeOK, Request, Ev

\* The arrival of a request and its BEGIN keep the types.
LEMMA BeginTyped ==
  ASSUME Typed, NEW r \in Workers, NEW op, NEW e, NEW u, NEW first,
         [op |-> op, ev |-> e, user |-> u] \in Request,
         first \in {"lockRow", "fetchEvent"}, Fits(op, first),
         Begin(r, op, e, u, first)
  PROVE  Typed'
<1>1. [NoLocals EXCEPT !.began = clock] \in Locals
  BY Defaults, Zenon DEF Typed, TypeOK, Locals
<1>2. TypeOK'
  BY <1>1, Defaults
  DEF Typed, TypeOK, Begin, Goto, tables, Labels, InTransaction, Reading
<1>3. FreshInv' /\ LoopInv' /\ ExistsInv' /\ OpInv'
  BY DEF Typed, TypeOK, Begin, Goto, tables, FreshInv, LoopInv, ExistsInv,
         OpInv, Exists, Ev, Fresh, Locked
<1>4. QED BY <1>2, <1>3 DEF Typed

\* So does the arrival of any of the five kinds of request.
LEMMA ArriveTyped ==
  ASSUME Typed, NEW r \in Workers, Arrive(r)
  PROVE  Typed'
<1>1. PICK e \in EventIds :
        \/ \E u \in Users : BeginBooking(r, e, u)
        \/ BeginClose(r, e) \/ BeginCancel(r, e)
        \/ BeginDraw(r, e) \/ BeginResults(r, e)
  BY DEF Arrive
<1>2. ASSUME NEW u \in Users, BeginBooking(r, e, u) PROVE Typed'
  BY <1>2, BeginTyped DEF BeginBooking, Fits, Request
<1>3. CASE BeginClose(r, e)
  BY <1>3, BeginTyped DEF BeginClose, Fits, Request, AllOps
<1>4. CASE BeginCancel(r, e)
  BY <1>4, BeginTyped DEF BeginCancel, Fits, Request, AllOps
<1>5. CASE BeginDraw(r, e)
  BY <1>5, BeginTyped DEF BeginDraw, Fits, Request, AllOps
<1>6. CASE BeginResults(r, e)
  BY <1>6, BeginTyped DEF BeginResults, Fits, Request, AllOps
<1>7. QED BY <1>1, <1>2, <1>3, <1>4, <1>5, <1>6

\* Create inserts a row that meets the CHECK constraints, or nothing.
LEMMA CreateTyped ==
  ASSUME Typed, NEW r \in Workers, Create(r)
  PROVE  Typed'
<1>1. PICK e \in EventIds, c \in 0..MaxCapacity, n \in 0..MaxCapacity,
           at \in 0..MaxClock, now \in 0..MaxClock :
        CreateEvent(r, e, c, n, at, now)
  BY DEF Create
<1>2. answer' \in [Workers -> Answers]
  <2>1. PICK code \in Codes : answer' = [answer EXCEPT ![r] = Reply(code)]
    BY <1>1 DEF CreateEvent, Codes
  <2>2. QED BY <2>1, Defaults DEF Typed, TypeOK
<1>3. event' \in [EventIds -> EventRow \cup {NoEvent}]
  <2>1. CASE ValidEvent(c, n, at, now)
    <3>1. [status |-> "open", capacity |-> c, drawAt |-> at,
           winnerCount |-> EffectiveWinners(n)] \in EventRow
      BY <2>1, NumberAssumption
      DEF ValidEvent, EffectiveWinners, EventRow, Status
    <3>2. QED BY <1>1, <2>1, <3>1, Zenon DEF Typed, TypeOK, CreateEvent
  <2>2. CASE ~ValidEvent(c, n, at, now)
    BY <1>1, <2>2 DEF Typed, TypeOK, CreateEvent
  <2>3. QED BY <2>1, <2>2
<1>4. TypeOK'
  BY <1>1, <1>2, <1>3 DEF Typed, TypeOK, CreateEvent, NoRequest
<1>5. FreshInv' /\ LoopInv' /\ OpInv'
  BY <1>1 DEF Typed, TypeOK, CreateEvent, FreshInv, LoopInv, OpInv, Fits
<1>6. ExistsInv'
  <2> SUFFICES ASSUME NEW q \in Workers, pc'[q] \in Locked PROVE Exists(Ev(q))'
    BY DEF ExistsInv
  <2>1. q # r /\ pc[q] \in Locked /\ Ev(q)' = Ev(q)
    BY <1>1 DEF Typed, TypeOK, CreateEvent, Locked, Ev
  <2>2. Exists(Ev(q)) /\ Ev(q) \in EventIds /\ Ev(q) # e
    BY <1>1, <2>1, BusyRequest DEF Typed, ExistsInv, Locked, CreateEvent
  <2>3. QED BY <1>1, <2>1, <2>2 DEF Typed, TypeOK, CreateEvent, Exists
<1>7. QED BY <1>4, <1>5, <1>6 DEF Typed

\* The statements of createBooking keep the types.
LEMMA BookingTyped ==
  ASSUME Typed, NEW r \in Workers, BookingStep(r)
  PROVE  Typed'
<1>1. req[r] \in Request /\ Ev(r) \in EventIds /\ pc[r] # "idle"
  BY BusyRequest DEF BookingStep, LockForBooking, CheckExisting, CountBookings,
                     InsertBooking, CommitBooking
<1>2. /\ pc[r] \in Fresh => writes[r] = NoWrites
      /\ pc[r] \in Locked => Exists(Ev(r))
      /\ Fits(req[r].op, pc[r])
  BY DEF Typed, FreshInv, ExistsInv, OpInv
<1>3. loc[r] \in Locals /\ writes[r] \in Writes
  BY DEF Typed, TypeOK
<1>4. UNCHANGED rowLock => rowLock' \in [EventIds -> Workers \cup {None}]
  BY DEF Typed, TypeOK
<1>5. ASSUME NEW code \in Codes, Refuse(r, code), UNCHANGED rowLock,
             UNCHANGED <<tables, clock, req, writes, answer>>
      PROVE Typed'
  BY <1>1, <1>4, <1>5, RefuseTyped
<1>6. CASE LockForBooking(r)
  <2>1. CASE Refuse(r, "event_not_found") /\ UNCHANGED rowLock
    BY <1>5, <1>6, <2>1 DEF LockForBooking, Codes
  <2>2. CASE /\ Exists(Ev(r)) /\ LockRow(r) /\ Goto(r, "exists")
             /\ loc' = [loc EXCEPT ![r].row = event[Ev(r)]]
    <3>1. [loc[r] EXCEPT !.row = event[Ev(r)]] \in Locals
      BY <1>1, <1>3, Zenon DEF Typed, TypeOK, Locals
    <3>2. /\ loc' = [loc EXCEPT ![r] = [loc[r] EXCEPT !.row = event[Ev(r)]]]
          /\ writes' = [writes EXCEPT ![r] = NoWrites]
      BY <1>2, <1>6, <2>2 DEF Typed, TypeOK, LockForBooking, Fresh
    <3>3. "exists" \in Labels /\ Fits(req[r].op, "exists")
      BY <1>6 DEF Labels, InTransaction, Fits, LockForBooking
    <3>4. UNCHANGED <<tables, clock, req, answer>>
      BY <1>6 DEF LockForBooking
    <3>5. QED
      BY <1>1, <2>2, <3>1, <3>2, <3>3, <3>4, GotoTyped, LockTyped, Defaults, Zenon
  <2>3. QED BY <1>6, <2>1, <2>2 DEF LockForBooking
<1>7. CASE CheckExisting(r)
  <2>1. CASE Goto(r, "count") /\ UNCHANGED loc
    BY <1>1, <1>2, <1>4, <1>7, <2>1, AdvanceTyped
    DEF CheckExisting, Labels, InTransaction, Fresh, Locked, Fits
  <2>2. QED BY <1>5, <1>7, <2>1 DEF CheckExisting, Codes
<1>8. CASE CountBookings(r)
  <2>1. CASE Goto(r, "insert") /\ UNCHANGED loc
    BY <1>1, <1>2, <1>4, <1>8, <2>1, AdvanceTyped
    DEF CountBookings, Labels, InTransaction, Fresh, Locked, Fits
  <2>2. QED BY <1>5, <1>8, <2>1 DEF CountBookings, Codes
<1>9. CASE InsertBooking(r)
  <2>1. CASE Refuse(r, "already_booked") /\ UNCHANGED writes
    BY <1>5, <1>9, <2>1 DEF InsertBooking, Codes
  <2>2. CASE /\ writes' = [writes EXCEPT ![r].users = {req[r].user}]
             /\ Goto(r, "commit") /\ UNCHANGED loc
    <3>1. req[r].user \in Users
      BY <1>1, <1>2, <1>9 DEF Request, Fits, InsertBooking
    <3>2. [writes[r] EXCEPT !.users = {req[r].user}] \in Writes
      BY <1>3, <3>1 DEF Writes
    <3>3. /\ writes' = [writes EXCEPT ![r] = [writes[r] EXCEPT !.users = {req[r].user}]]
          /\ loc' = [loc EXCEPT ![r] = loc[r]]
      BY <2>2 DEF Typed, TypeOK
    <3>4. /\ "commit" \in Labels /\ "commit" \notin Fresh /\ Exists(Ev(r))
          /\ Fits(req[r].op, "commit")
      BY <1>2, <1>9 DEF Labels, InTransaction, Fresh, Reading, Fits, InsertBooking, Locked
    <3>5. UNCHANGED <<tables, clock, req, answer>> /\ UNCHANGED rowLock
      BY <1>9 DEF InsertBooking
    <3>6. QED
      BY <1>1, <1>3, <1>4, <2>2, <3>2, <3>3, <3>4, <3>5, GotoTyped, Zenon
  <2>3. QED BY <1>9, <2>1, <2>2 DEF InsertBooking
<1>10. CASE CommitBooking(r)
  BY <1>10, ApplyTyped, FinishTyped, Defaults DEF CommitBooking, Locked, Codes
<1>11. QED BY <1>6, <1>7, <1>8, <1>9, <1>10 DEF BookingStep

\* The statements of Close, Cancel and GetByID keep the types.
LEMMA EventTyped ==
  ASSUME Typed, NEW r \in Workers, EventStep(r)
  PROVE  Typed'
<1>1. req[r] \in Request /\ Ev(r) \in EventIds /\ pc[r] # "idle"
  BY BusyRequest DEF EventStep, LockForTransition, UpdateStatus,
                     CommitTransition, GetByID
<1>2. /\ pc[r] \in Fresh => writes[r] = NoWrites
      /\ pc[r] \in Locked => Exists(Ev(r))
      /\ Fits(req[r].op, pc[r])
  BY DEF Typed, FreshInv, ExistsInv, OpInv
<1>3. loc[r] \in Locals /\ writes[r] \in Writes
  BY DEF Typed, TypeOK
<1>4. CASE LockForTransition(r)
  <2>1. CASE Refuse(r, "event_not_found") /\ UNCHANGED rowLock
    BY <1>1, <1>4, <2>1, RefuseTyped DEF Typed, TypeOK, LockForTransition, Codes
  <2>2. CASE LockRow(r) /\ Refuse(r, "invalid_transition")
    BY <1>1, <1>4, <2>2, RefuseTyped, LockTyped DEF LockForTransition, Codes
  <2>3. ASSUME NEW label \in {"update", "commit"}, Exists(Ev(r)), LockRow(r),
               Goto(r, label), UNCHANGED loc
        PROVE  Typed'
    <3>1. label \in Labels /\ Fits(req[r].op, label) /\ label # "insertDraw"
      BY <1>4, <2>3 DEF Labels, InTransaction, Fits, LockForTransition
    <3>2. writes[r] = NoWrites /\ UNCHANGED <<tables, clock, req, answer, loc, writes>>
      BY <1>2, <1>4, <2>3 DEF LockForTransition, Fresh
    <3>3. QED BY <1>1, <2>3, <3>1, <3>2, AdvanceTyped, LockTyped
  <2>4. QED BY <1>4, <2>1, <2>2, <2>3 DEF LockForTransition
<1>5. CASE UpdateStatus(r)
  <2>1. Target(req[r].op) \in Status
    BY DEF Target, Status
  <2>2. [writes[r] EXCEPT !.status = Target(req[r].op)] \in Writes
    BY <1>3, <2>1 DEF Writes
  <2>3. /\ writes' = [writes EXCEPT ![r] = [writes[r] EXCEPT !.status = Target(req[r].op)]]
        /\ loc' = [loc EXCEPT ![r] = loc[r]]
    BY <1>5 DEF Typed, TypeOK, UpdateStatus
  <2>4. /\ "commit" \in Labels /\ "commit" \notin Fresh /\ Exists(Ev(r))
        /\ Fits(req[r].op, "commit")
    BY <1>2, <1>5 DEF Labels, InTransaction, Fresh, Reading, Fits, UpdateStatus, Locked
  <2>5. /\ UNCHANGED <<tables, clock, req, answer>>
        /\ rowLock' \in [EventIds -> Workers \cup {None}]
    BY <1>5 DEF Typed, TypeOK, UpdateStatus
  <2>6. QED
    BY <1>1, <1>3, <1>5, <2>2, <2>3, <2>4, <2>5, GotoTyped, Zenon DEF UpdateStatus
<1>6. CASE CommitTransition(r)
  <2>1. /\ event' \in [EventIds -> EventRow \cup {NoEvent}]
        /\ bookings' \in [EventIds -> SUBSET Users]
        /\ draws' \in [EventIds -> Seq(DrawRow)]
        /\ seals' \in [EventIds -> SUBSET Digest]
        /\ \A e \in EventIds : Exists(e) => Exists(e)'
    BY <1>6, ApplyTyped DEF CommitTransition, Locked
  <2>2. TypeOK'
    BY <1>6, <2>1, Defaults
    DEF Typed, TypeOK, CommitTransition, Goto, Release, Labels, Reading
  <2>3. FreshInv' /\ LoopInv' /\ OpInv'
    BY <1>6 DEF Typed, TypeOK, CommitTransition, Goto, FreshInv, LoopInv, OpInv, Fits
  <2>4. ExistsInv'
    <3> SUFFICES ASSUME NEW q \in Workers, pc'[q] \in Locked PROVE Exists(Ev(q))'
      BY DEF ExistsInv
    <3>1. q # r /\ pc[q] \in Locked /\ Ev(q)' = Ev(q)
      BY <1>6 DEF Typed, TypeOK, CommitTransition, Goto, Locked, Ev
    <3>2. Exists(Ev(q)) /\ Ev(q) \in EventIds
      BY <3>1, BusyRequest DEF Typed, ExistsInv, Locked
    <3>3. QED BY <2>1, <3>1, <3>2 DEF Exists
  <2>5. QED BY <2>2, <2>3, <2>4 DEF Typed
<1>7. CASE GetByID(r)
  <2> DEFINE a == [NoAnswer EXCEPT !.code = Target(req[r].op),
                                   !.status = event[Ev(r)].status,
                                   !.count = Cardinality(bookings[Ev(r)])]
  <2>1. event[Ev(r)].status \in Status \cup {"absent"}
    BY <1>1 DEF Typed, TypeOK, EventRow, NoEvent
  <2>2. Cardinality(bookings[Ev(r)]) \in Nat
    BY <1>1, BookingsFinite DEF Typed
  <2>3. Target(req[r].op) \in Codes
    BY DEF Target, Codes
  <2>4. a \in Answers
    BY <2>1, <2>2, <2>3, Defaults, Zenon DEF Answers
  <2>5. Finish(r, a) /\ UNCHANGED <<tables, rowLock, clock, req>>
    BY <1>7 DEF GetByID
  <2>6. QED BY <2>4, <2>5, FinishTyped, Zenon DEF Typed, TypeOK, tables, Exists
<1>8. QED BY <1>4, <1>5, <1>6, <1>7 DEF EventStep

\* Failed statements, lost connections and orphaned sessions keep the types.
LEMMA FailureTyped ==
  ASSUME Typed, NEW r \in Workers, Rollback(r) \/ Failure(r) \/ Orphan(r)
  PROVE  Typed'
<1>1. req[r] \in Request /\ Ev(r) \in EventIds
  BY BusyRequest DEF Rollback, Failure, Orphan, StatementFails, LoseConnection,
       OrphanAborts, OrphanCommits, InTransaction, Reading
<1>2. CASE StatementFails(r)
  BY <1>1, <1>2, RefuseTyped DEF Typed, TypeOK, StatementFails, Codes
<1>3. CASE Rollback(r)
  <2>1. Reply(loc[r].code) \in Answers
    BY Defaults DEF Typed, TypeOK, Locals
  <2>2. QED
    BY <1>3, <2>1, FinishTyped, Zenon DEF Typed, TypeOK, tables, Rollback, Exists
<1>4. CASE LoseConnection(r)
  <2>1. Reply(loc[r].code) \in Answers /\ Reply("internal") \in Answers
    BY Defaults, Zenon DEF Typed, TypeOK, Locals, Codes
  <2>2. answer' \in [Workers -> Answers]
    BY <1>4, <2>1 DEF Typed, TypeOK, LoseConnection
  <2>3. TypeOK'
    BY <1>1, <1>4, <2>2, Zenon DEF Typed, TypeOK, LoseConnection, Goto, Labels, tables
  <2>4. FreshInv' /\ LoopInv'
    BY <1>4 DEF Typed, TypeOK, LoseConnection, Goto, FreshInv, LoopInv, Fresh, Reading
  <2>5. ExistsInv' /\ OpInv'
    BY <1>4 DEF Typed, TypeOK, LoseConnection, Goto, tables, ExistsInv, OpInv,
                Exists, Ev, Locked, Fits
  <2>6. QED BY <2>3, <2>4, <2>5 DEF Typed
<1>5. CASE OrphanAborts(r)
  <2>1. answer[r] \in Answers
    BY DEF Typed, TypeOK
  <2>2. QED
    BY <1>5, <2>1, FinishTyped DEF Typed, TypeOK, tables, OrphanAborts, Exists
<1>6. CASE OrphanCommits(r)
  <2>1. answer[r] \in Answers
    BY DEF Typed, TypeOK
  <2>2. QED
    BY <1>6, <2>1, ApplyTyped, FinishTyped, Zenon DEF OrphanCommits, Locked
<1>7. QED BY <1>2, <1>3, <1>4, <1>5, <1>6 DEF Failure, Orphan

\* The statements of RunDraw keep the types.
LEMMA DrawTyped ==
  ASSUME Typed, NEW r \in Workers,
         \/ LockForDraw(r) \/ FetchParticipants(r) \/ InsertDraw(r)
         \/ InsertSeal(r) \/ MarkDrawn(r) \/ CommitDraw(r)
  PROVE  Typed'
<1>1. req[r] \in Request /\ Ev(r) \in EventIds /\ pc[r] # "idle"
  BY BusyRequest DEF LockForDraw, FetchParticipants, InsertDraw, InsertSeal,
                     MarkDrawn, CommitDraw
<1>2. /\ pc[r] \in Fresh => writes[r] = NoWrites
      /\ pc[r] \in Locked => Exists(Ev(r))
      /\ Fits(req[r].op, pc[r])
  BY DEF Typed, FreshInv, ExistsInv, OpInv
<1>3. loc[r] \in Locals /\ writes[r] \in Writes
  BY DEF Typed, TypeOK
<1>4. UNCHANGED rowLock => rowLock' \in [EventIds -> Workers \cup {None}]
  BY DEF Typed, TypeOK
<1>5. loc[r].row.winnerCount \in Nat /\ loc[r].order \in Seq(Users)
  BY <1>3 DEF Locals, EventRow, NoEvent
<1>6. CASE LockForDraw(r)
  <2>1. ASSUME NEW code \in Codes, Refuse(r, code), LockRow(r) \/ UNCHANGED rowLock
        PROVE  Typed'
    BY <1>1, <1>4, <1>6, <2>1, RefuseTyped, LockTyped DEF LockForDraw
  <2>2. CASE /\ Exists(Ev(r)) /\ LockRow(r) /\ Goto(r, "participants")
             /\ loc' = [loc EXCEPT ![r].row = event[Ev(r)]]
    <3>1. [loc[r] EXCEPT !.row = event[Ev(r)]] \in Locals
      BY <1>1, <1>3, Zenon DEF Typed, TypeOK, Locals
    <3>2. /\ loc' = [loc EXCEPT ![r] = [loc[r] EXCEPT !.row = event[Ev(r)]]]
          /\ writes' = [writes EXCEPT ![r] = NoWrites]
      BY <1>2, <1>6, <2>2 DEF Typed, TypeOK, LockForDraw, Fresh
    <3>3. "participants" \in Labels /\ Fits(req[r].op, "participants")
      BY <1>6 DEF Labels, InTransaction, Fits, LockForDraw
    <3>4. UNCHANGED <<tables, clock, req, answer>>
      BY <1>6 DEF LockForDraw
    <3>5. QED
      BY <1>1, <2>2, <3>1, <3>2, <3>3, <3>4, GotoTyped, LockTyped, Defaults, Zenon
  <2>3. QED BY <1>6, <2>1, <2>2 DEF LockForDraw, Codes
<1>7. CASE FetchParticipants(r)
  <2>1. CASE Refuse(r, "no_participants")
    BY <1>1, <1>4, <1>7, <2>1, RefuseTyped DEF FetchParticipants, Codes
  <2>2. ASSUME bookings[Ev(r)] # {}, Goto(r, "insertDraw"),
               NEW s \in Orderings(bookings[Ev(r)]), NEW now \in AppTimes,
               loc' = [loc EXCEPT ![r].order = s, ![r].stamp = Truncate(now)]
        PROVE  Typed'
    <3> DEFINE l == [loc[r] EXCEPT !.order = s, !.stamp = Truncate(now)]
    <3>1. IsFiniteSet(bookings[Ev(r)]) /\ Cardinality(bookings[Ev(r)]) \in Nat
      BY <1>1, BookingsFinite DEF Typed
    <3>2. Cardinality(bookings[Ev(r)]) > 0
      BY <2>2, <3>1, FS_EmptySet
    <3>3. s \in Seq(bookings[Ev(r)]) /\ Len(s) = Cardinality(bookings[Ev(r)])
      BY <2>2, <3>1, OrderingsSeq
    <3>4. s \in Seq(Users)
      BY <1>1, <3>3, ListWiden DEF Typed, TypeOK
    <3>5. Truncate(now) \in Nat
      BY <2>2, TruncateStored, TimesAssumption
    <3>6. l \in Locals /\ l.order = s
      BY <1>3, <3>4, <3>5, Zenon DEF Locals
    <3>7. loc' = [loc EXCEPT ![r] = l] /\ writes' = [writes EXCEPT ![r] = NoWrites]
      BY <1>2, <1>7, <2>2, Zenon DEF Typed, TypeOK, FetchParticipants, Fresh, Locals
    <3>8. Len(NoWrites.rows) < Len(l.order)
      BY <3>2, <3>3, <3>6 DEF NoWrites
    <3>9. /\ "insertDraw" \in Labels /\ Exists(Ev(r)) /\ Fits(req[r].op, "insertDraw")
          /\ UNCHANGED <<tables, clock, req, answer>> /\ UNCHANGED rowLock
      BY <1>2, <1>7 DEF Labels, InTransaction, Fits, FetchParticipants, Locked
    <3> HIDE DEF l
    <3>10. QED
      BY <1>1, <1>4, <2>2, <3>6, <3>7, <3>8, <3>9, GotoTyped, Defaults, Zenon
  <2>3. QED BY <1>7, <2>1, <2>2, Zenon DEF FetchParticipants
<1>8. CASE InsertDraw(r)
  <2> DEFINE order == loc[r].order
             rank == Len(writes[r].rows) + 1
             row == [user |-> order[rank], total |-> Len(order),
                     drawnAt |-> Stored(loc[r].stamp)]
             w == [writes[r] EXCEPT !.rows = Append(@, row)]
             label == IF rank = Len(order) THEN "seal" ELSE "insertDraw"
  <2>1. writes[r].rows \in Seq(DrawRow) /\ Len(writes[r].rows) \in Nat
    BY <1>3, ListLen DEF Writes
  <2>2. Len(writes[r].rows) < Len(order) /\ Len(order) \in Nat
    BY <1>5, <1>8, ListLen DEF Typed, LoopInv, InsertDraw
  <2>3. row \in DrawRow
    <3>1. order[rank] \in Users
      BY <1>5, <2>1, <2>2, ListElement
    <3>2. Stored(loc[r].stamp) \in Nat
      BY <1>3, TruncateStored, Zenon DEF Locals
    <3>3. QED BY <2>2, <3>1, <3>2 DEF DrawRow
  <2>4. w \in Writes /\ Len(w.rows) = rank
    <3> HIDE DEF row
    <3>1. Append(writes[r].rows, row) \in Seq(DrawRow)
      BY <2>1, <2>3
    <3>2. Len(Append(writes[r].rows, row)) = Len(writes[r].rows) + 1
      BY <2>1, <2>3
    <3>3. QED BY <1>3, <3>1, <3>2, Zenon DEF Writes
  <2>5. label = "insertDraw" => Len(w.rows) < Len(order)
    BY <2>1, <2>2, <2>4
  <2>6. writes' = [writes EXCEPT ![r] = w] /\ loc' = [loc EXCEPT ![r] = loc[r]]
    BY <1>8 DEF Typed, TypeOK, InsertDraw
  <2>7. /\ label \in Labels /\ label \notin Fresh /\ Exists(Ev(r))
        /\ Fits(req[r].op, label)
    BY <1>2, <1>8 DEF Labels, InTransaction, Fresh, Reading, Fits, InsertDraw, Locked
  <2>8. /\ Goto(r, label) /\ UNCHANGED <<tables, clock, req, answer>>
        /\ UNCHANGED rowLock
    BY <1>8 DEF InsertDraw
  <2> HIDE DEF w, label
  <2>9. QED
    BY <1>1, <1>3, <1>4, <2>4, <2>5, <2>6, <2>7, <2>8, GotoTyped, Zenon
<1>9. CASE InsertSeal(r)
  <2> DEFINE d == drawDigest(Ev(r), loc[r].row.winnerCount, loc[r].stamp, writes[r].rows)
             w == [writes[r] EXCEPT !.seals = {d}]
  <2>1. d \in Digest
    BY <1>1, <1>3, <1>5, DigestType DEF Locals, Writes
  <2> HIDE DEF d
  <2>2. w \in Writes
    BY <1>3, <2>1 DEF Writes
  <2>3. writes' = [writes EXCEPT ![r] = w] /\ loc' = [loc EXCEPT ![r] = loc[r]]
    BY <1>9 DEF Typed, TypeOK, InsertSeal, d
  <2>4. /\ "markDrawn" \in Labels /\ "markDrawn" \notin Fresh /\ Exists(Ev(r))
        /\ Fits(req[r].op, "markDrawn")
    BY <1>2, <1>9 DEF Labels, InTransaction, Fresh, Reading, Fits, InsertSeal, Locked
  <2>5. /\ Goto(r, "markDrawn") /\ UNCHANGED <<tables, clock, req, answer>>
        /\ UNCHANGED rowLock
    BY <1>9 DEF InsertSeal
  <2> HIDE DEF w
  <2>6. QED
    BY <1>1, <1>3, <1>4, <2>2, <2>3, <2>4, <2>5, GotoTyped, Zenon
<1>10. CASE MarkDrawn(r)
  <2> DEFINE w == [writes[r] EXCEPT !.status = "drawn"]
  <2>1. w \in Writes
    BY <1>3 DEF Writes, Status
  <2>2. writes' = [writes EXCEPT ![r] = w] /\ loc' = [loc EXCEPT ![r] = loc[r]]
    BY <1>10 DEF Typed, TypeOK, MarkDrawn
  <2>3. /\ "commit" \in Labels /\ "commit" \notin Fresh /\ Exists(Ev(r))
        /\ Fits(req[r].op, "commit")
    BY <1>2, <1>10 DEF Labels, InTransaction, Fresh, Reading, Fits, MarkDrawn, Locked
  <2>4. /\ Goto(r, "commit") /\ UNCHANGED <<tables, clock, req, answer>>
        /\ UNCHANGED rowLock
    BY <1>10 DEF MarkDrawn
  <2> HIDE DEF w
  <2>5. QED
    BY <1>1, <1>3, <1>4, <2>1, <2>2, <2>3, <2>4, GotoTyped, Zenon
<1>11. CASE CommitDraw(r)
  <2> DEFINE n == loc[r].row.winnerCount
             a == [NoAnswer EXCEPT !.code = "verified",
                     !.winners = Winners(loc[r].order, n),
                     !.waitlist = Waitlist(loc[r].order, n)]
  <2>1. Winners(loc[r].order, n) \in Seq(Users) /\ Waitlist(loc[r].order, n) \in Seq(Users)
    BY <1>5, SplitSeq, Zenon
  <2>2. a \in Answers
    BY <2>1, OutcomeAnswer, Zenon DEF Codes
  <2>3. Finish(r, a) /\ Apply(r) /\ Release(r) /\ UNCHANGED <<clock, req>>
    BY <1>11 DEF CommitDraw
  <2>4. pc[r] \in Locked
    BY <1>11 DEF CommitDraw, Locked
  <2>5. QED BY <2>2, <2>3, <2>4, ApplyTyped, FinishTyped
<1>12. QED BY <1>6, <1>7, <1>8, <1>9, <1>10, <1>11

\* The queries of GetResults keep the types.
LEMMA ResultsTyped ==
  ASSUME Typed, NEW r \in Workers,
         FetchDrawnEvent(r) \/ FetchRows(r) \/ FetchSeal(r)
  PROVE  Typed'
<1>1. req[r] \in Request /\ Ev(r) \in EventIds /\ pc[r] # "idle"
  BY BusyRequest DEF FetchDrawnEvent, FetchRows, FetchSeal
<1>2. writes[r] = NoWrites /\ Fits(req[r].op, pc[r])
  BY DEF Typed, FreshInv, OpInv, Fresh, Reading, FetchDrawnEvent, FetchRows, FetchSeal
<1>3. loc[r] \in Locals /\ writes' = [writes EXCEPT ![r] = NoWrites]
  BY <1>2 DEF Typed, TypeOK, FetchDrawnEvent, FetchRows, FetchSeal, Finish
<1>4. UNCHANGED rowLock => rowLock' \in [EventIds -> Workers \cup {None}]
  BY DEF Typed, TypeOK
<1>5. ASSUME NEW l \in Locals, loc' = [loc EXCEPT ![r] = l],
             NEW label \in {"fetchRows", "fetchSeal"}, Goto(r, label),
             UNCHANGED <<tables, clock, req, answer>>, UNCHANGED rowLock
      PROVE  Typed'
  <2>1. /\ label \in Labels /\ label \notin Locked /\ label # "insertDraw"
        /\ Fits(req[r].op, label)
    BY <1>2, <1>5 DEF Labels, Reading, Locked, Fits, FetchDrawnEvent, FetchRows, FetchSeal
  <2>2. QED BY <1>1, <1>3, <1>4, <1>5, <2>1, GotoTyped, Defaults, Zenon
<1>6. CASE FetchDrawnEvent(r)
  <2>1. CASE Refuse(r, "results_unavailable")
    BY <1>1, <1>4, <1>6, <2>1, RefuseTyped DEF FetchDrawnEvent, Codes
  <2>2. CASE loc' = [loc EXCEPT ![r].row = event[Ev(r)]] /\ Goto(r, "fetchRows")
    <3>1. [loc[r] EXCEPT !.row = event[Ev(r)]] \in Locals
      BY <1>1, <1>3, Zenon DEF Typed, TypeOK, Locals
    <3>2. loc' = [loc EXCEPT ![r] = [loc[r] EXCEPT !.row = event[Ev(r)]]]
      BY <2>2 DEF Typed, TypeOK
    <3>3. QED BY <1>5, <1>6, <2>2, <3>1, <3>2, Zenon DEF FetchDrawnEvent
  <2>3. QED BY <1>6, <2>1, <2>2 DEF FetchDrawnEvent
<1>7. CASE FetchRows(r)
  <2>1. [loc[r] EXCEPT !.fetched = draws[Ev(r)]] \in Locals
    BY <1>1, <1>3, Zenon DEF Typed, TypeOK, Locals
  <2>2. loc' = [loc EXCEPT ![r] = [loc[r] EXCEPT !.fetched = draws[Ev(r)]]]
    BY <1>7 DEF Typed, TypeOK, FetchRows
  <2>3. QED BY <1>5, <1>7, <2>1, <2>2, Zenon DEF FetchRows
<1>8. CASE FetchSeal(r)
  <2> DEFINE rows == loc[r].fetched
             count == loc[r].row.winnerCount
             last == IF count <= Len(rows) THEN count ELSE Len(rows)
             code == Integrity(Ev(r), count, rows)
             s == SubSeq(UsersOf(rows), 1, last)
             t == SubSeq(UsersOf(rows), count + 1, Len(rows))
  <2>1. rows \in Seq(DrawRow) /\ count \in Nat
    BY <1>3 DEF Locals, EventRow, NoEvent
  <2>2. Len(rows) \in Nat /\ \A i \in 1..Len(rows) : UsersOf(rows)[i] \in Users
    BY <2>1, UsersOfSeq, ListLen, ListElement
  <2>3. last \in 0..Len(rows)
    BY <2>1, <2>2
  <2> HIDE DEF last, rows, count
  <2>4. s \in Seq(Users)
    BY <2>2, <2>3, ListPart
  <2>5. t \in Seq(Users)
    BY <2>1, <2>2, ListPart
  <2>6. code \in Codes
    BY DEF Integrity, Codes
  <2>7. Finish(r, [NoAnswer EXCEPT !.code = code, !.winners = s, !.waitlist = t])
    BY <1>8 DEF FetchSeal, rows, count, last
  <2>8. [NoAnswer EXCEPT !.code = code, !.winners = s, !.waitlist = t] \in Answers
    BY <2>4, <2>5, <2>6, OutcomeAnswer, Zenon
  <2>9. UNCHANGED <<tables, rowLock, clock, req>>
    BY <1>8 DEF FetchSeal
  <2> HIDE DEF s, t, code
  <2>10. QED
    BY <2>7, <2>8, <2>9, FinishTyped, Zenon DEF Typed, TypeOK, tables, Exists
<1>9. QED BY <1>6, <1>7, <1>8

\* Every step of the system keeps the types.
LEMMA NextTyped == Typed /\ [Next]_vars => Typed'
<1> SUFFICES ASSUME Typed, [Next]_vars PROVE Typed'
  OBVIOUS
<1>1. ASSUME NEW r \in Workers, Step(r) PROVE Typed'
  BY <1>1, BookingTyped, EventTyped, DrawTyped, ResultsTyped, FailureTyped
  DEF Step, LotteryStep
<1>2. CASE Tick
  BY <1>2, NumberAssumption
  DEF Tick, tables, Typed, TypeOK, FreshInv, LoopInv, ExistsInv, Exists, Ev, OpInv
<1>3. CASE UNCHANGED vars
  BY <1>3 DEF vars, tables, Typed, TypeOK, FreshInv, LoopInv, ExistsInv, Exists, Ev, OpInv
<1>4. QED
  BY <1>1, <1>2, <1>3, ArriveTyped, CreateTyped, FailureTyped DEF Next

\* Every reachable state is well-typed; in particular the rows of events
\* obey the CHECK constraints of 001_init.sql after every commit.
THEOREM TypeCorrect == Spec => []TypeOK
<1>1. Spec => []Typed
  BY InitTyped, NextTyped, PTL DEF Spec
<1>2. Typed => TypeOK
  BY DEF Typed
<1>3. QED BY <1>1, <1>2, PTL
=============================================================================
