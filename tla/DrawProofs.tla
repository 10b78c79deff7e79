----------------------------- MODULE DrawProofs -----------------------------
(***************************************************************************)
(* A draw and those who look at the events, for any number of people,      *)
(* events and pages: a client that reads the list of events, a client that *)
(* makes a draw and reads its result, and the algorithm of the draw.       *)
(***************************************************************************)
EXTENDS EventList, FairnessClient, LotteryAlgorithm, FiniteSetTheorems, TLAPS

-----------------------------------------------------------------------------
(***************************************************************************)
(* A client that reads the list of events (EventList).                     *)
(***************************************************************************)
\* Rows of lottery_events, and requests for a page.
ListRows == [drawAt : DrawTimes, open : BOOLEAN]
Asks == [status : {NoFilter, "open"}, page : Int, limit : Int]

\* The types of what the other parts speak of.
ListTypeOK ==
  /\ table \in Seq(ListRows) /\ Len(table) <= MaxEvents
  /\ query \in {"idle", "page", "count"}
  /\ ask \in Asks

\* The events of the filter that come before e in the list.
Earlier(e) == {d \in Matching(ask.status) : table[d].drawAt < table[e].drawAt}

\* Another event has the same draw_at, and their order is open.
Tied(e) == \E d \in DOMAIN table \ {e} : table[d].drawAt = table[e].drawAt

\* Events before the page that is asked for, and through to its end.
Skipped == (ask.page - 1) * ClampLimit(ask.limit)
Through == ask.page * ClampLimit(ask.limit)

\* e has been shown, or at least n events come before it.
Reached(e, n) == e \in listed \/ Tied(e) \/ Cardinality(Earlier(e)) >= n

\* The reply is about the page that was asked for.
ReplyInv ==
  query = "idle" /\ reply.code = "ok" =>
    /\ reply.page = MetaPage(ask.page) /\ reply.limit = MetaLimit(ask.limit)
    /\ reply.total \in 0..MaxEvents

\* An event the client has not been shown is on the pages to come, and as long as
\* there is one the reply says that there is more.
ReadingInv ==
  start # {} /\ ~left =>
    /\ start \subseteq Matching(ask.status) /\ ask.page >= 1
    /\ query = "page" => Skipped \in 0..MaxEvents /\ \A e \in start : Reached(e, Skipped)
    /\ query = "count" => \A e \in start : e \in got \/ Reached(e, Through)
    /\ query = "idle" /\ reply.code = "ok" =>
         \A e \in start : Reached(e, Through) /\ (e \in listed \/ Tied(e) \/ More)

\* The inductive invariant.
ListInv == ListTypeOK /\ ReplyInv /\ ReadingInv
-----------------------------------------------------------------------------
\* Offsets within the table do not overflow.
LEMMA WrapSmall ==
  ASSUME NEW n \in 0..MaxEvents
  PROVE  Wrap(n) = n
<1> DEFINE h == IntRange \div 2
<1>1. h \in Int /\ 2 * h <= IntRange /\ n < h /\ 0 < IntRange /\ IntRange \in Nat
  BY ListAssumption
<1>2. n + h \in 0..(IntRange - 1)
  BY <1>1
<1>3. (n + h) % IntRange = n + h
  BY <1>1, <1>2
<1>4. QED BY <1>1, <1>3 DEF Wrap

\* The limit that is used, and the end of a page.
LEMMA PageEnds ==
  ASSUME ListTypeOK
  PROVE  /\ ClampLimit(ask.limit) \in Nat \ {0} /\ Skipped \in Int /\ Through \in Int
         /\ Through = Skipped + ClampLimit(ask.limit)
         /\ MetaLimit(ask.limit) = ClampLimit(ask.limit)
<1> DEFINE L == ClampLimit(ask.limit)
<1>1. L \in Nat \ {0} /\ ask.page \in Int /\ MetaLimit(ask.limit) = L
  BY ListAssumption DEF ListTypeOK, Asks, ClampLimit, MetaLimit
<1>2. \A p, l \in Int : p * l \in Int /\ (p - 1) * l \in Int /\ p * l = (p - 1) * l + l
  OBVIOUS
<1>3. QED BY <1>1, <1>2 DEF Skipped, Through

\* The draw_at of a row.
LEMMA DrawAtIsTime == \A e \in DOMAIN table : ListTypeOK => table[e].drawAt \in Int
<1>1. \A r \in ListRows : r.drawAt \in Int
  BY ListAssumption, Zenon DEF ListRows
<1>2. QED BY <1>1 DEF ListTypeOK

\* The events of a filter are some of the table.
LEMMA MatchingFinite ==
  ASSUME ListTypeOK, NEW st
  PROVE  /\ Matching(st) \subseteq DOMAIN table /\ IsFiniteSet(Matching(st))
         /\ Cardinality(Matching(st)) \in 0..MaxEvents
<1>1. Len(table) \in Nat /\ DOMAIN table = 1..Len(table) /\ Len(table) <= MaxEvents
  BY DEF ListTypeOK
<1>2. IsFiniteSet(1..Len(table)) /\ Cardinality(1..Len(table)) = Len(table)
  <2>1. \A n \in Nat : IsFiniteSet(1..n) /\ Cardinality(1..n) = n
    BY FS_Interval
  <2>2. QED BY <1>1, <2>1
<1>3. Matching(st) \subseteq 1..Len(table)
  BY <1>1 DEF Matching
<1>4. IsFiniteSet(Matching(st)) /\ Cardinality(Matching(st)) <= Len(table)
  BY <1>2, <1>3, FS_Subset
<1>5. Cardinality(Matching(st)) \in Nat
  BY <1>4, FS_CardinalityType
<1>6. QED BY <1>1, <1>3, <1>4, <1>5, ListAssumption

\* Fewer events come before one of the filter than the filter has.
LEMMA EarlierFinite ==
  ASSUME ListTypeOK, NEW e \in Matching(ask.status)
  PROVE  /\ IsFiniteSet(Earlier(e)) /\ Cardinality(Earlier(e)) \in Nat
         /\ Cardinality(Earlier(e)) < Cardinality(Matching(ask.status))
<1> DEFINE M == Matching(ask.status)
<1>1. IsFiniteSet(M) /\ Cardinality(M) \in Nat /\ M \subseteq DOMAIN table
  BY MatchingFinite
<1>2. Earlier(e) \subseteq M /\ e \notin Earlier(e)
  <2>1. table[e].drawAt \in Int
    BY <1>1, DrawAtIsTime
  <2>2. QED BY <2>1 DEF Earlier
<1>3. IsFiniteSet(Earlier(e)) /\ Cardinality(Earlier(e)) <= Cardinality(M)
      /\ (Cardinality(M) = Cardinality(Earlier(e)) => M = Earlier(e))
  BY <1>1, <1>2, FS_Subset
<1>4. Cardinality(Earlier(e)) \in Nat
  BY <1>3, FS_CardinalityType
<1>5. QED BY <1>1, <1>2, <1>3, <1>4

\* The place of an event without a tie in the list is one more than the number
\* of events before it.
LEMMA PlaceInList ==
  ASSUME ListTypeOK, NEW s \in Sorted(Matching(ask.status)),
         NEW e \in Matching(ask.status), ~Tied(e)
  PROVE  /\ Cardinality(Earlier(e)) + 1 \in DOMAIN s
         /\ s[Cardinality(Earlier(e)) + 1] = e
<1> DEFINE M == Matching(ask.status)
           n == Cardinality(M)
           time(d) == table[d].drawAt
<1>1. IsFiniteSet(M) /\ n \in Nat /\ M \subseteq DOMAIN table
  BY MatchingFinite
<1>2. s \in [1..n -> M] /\ DOMAIN s = 1..n
      /\ \A a, b \in 1..n : a < b => s[a] # s[b] /\ time(s[a]) <= time(s[b])
  BY DEF Sorted
<1>3. \A d \in M : time(d) \in Int
  BY <1>1, DrawAtIsTime
<1>4. \A a, b \in 1..n : s[a] = s[b] => a = b
  <2>1. \A a, b \in 1..n : a < b \/ b < a \/ a = b
    BY <1>1
  <2>2. QED BY <1>2, <2>1, Zenon
<1>5. s \in Injection(1..n, M)
  BY <1>2, <1>4 DEF Injection, IsInjective
<1>6. Cardinality(1..n) = n
  BY <1>1, FS_Interval
<1>7. s \in Surjection(1..n, M)
  BY <1>1, <1>5, <1>6, FS_Injection
<1>8. PICK p \in 1..n : s[p] = e
  BY <1>7 DEF Surjection
<1>9. p \in Nat /\ p - 1 \in Nat /\ 1..(p - 1) \subseteq 1..n
  BY <1>1, <1>8
<1>10. \A k \in 1..(p - 1) : s[k] \in Earlier(e)
  <2> SUFFICES ASSUME NEW k \in 1..(p - 1) PROVE s[k] \in Earlier(e)
    OBVIOUS
  <2>1. k \in 1..n /\ k < p
    BY <1>9
  <2>2. s[k] \in M /\ s[k] # e /\ time(s[k]) <= time(e)
    BY <1>2, <1>8, <2>1
  <2>3. time(s[k]) # time(e)
    BY <1>1, <2>2 DEF Tied
  <2>4. time(s[k]) < time(e)
    BY <1>3, <2>2, <2>3
  <2>5. QED BY <2>2, <2>4 DEF Earlier
<1>11. \A d \in Earlier(e) : \E k \in 1..(p - 1) : s[k] = d
  <2> SUFFICES ASSUME NEW d \in Earlier(e) PROVE \E k \in 1..(p - 1) : s[k] = d
    OBVIOUS
  <2>1. d \in M /\ time(d) < time(e)
    BY DEF Earlier
  <2>2. PICK k \in 1..n : s[k] = d
    BY <1>7, <2>1 DEF Surjection
  <2>3. ~(p < k) /\ k # p
    BY <1>2, <1>3, <1>8, <2>1, <2>2
  <2>4. k \in 1..(p - 1)
    BY <1>1, <1>9, <2>3
  <2>5. QED BY <2>2, <2>4
<1>12. Cardinality(Earlier(e)) = p - 1
  <2> DEFINE f == [k \in 1..(p - 1) |-> s[k]]
  <2>1. f \in [1..(p - 1) -> Earlier(e)]
    BY <1>10
  <2>2. \A a, b \in 1..(p - 1) : f[a] = f[b] => a = b
    BY <1>4, <1>9
  <2>3. \A d \in Earlier(e) : \E k \in 1..(p - 1) : f[k] = d
    BY <1>11
  <2>4. f \in Bijection(1..(p - 1), Earlier(e))
    BY <2>1, <2>2, <2>3 DEF Bijection, Injection, Surjection, IsInjective
  <2>5. QED BY <1>9, <2>4, FS_CountingElements DEF ExistsBijection
<1>13. QED BY <1>2, <1>8, <1>9, <1>12

-----------------------------------------------------------------------------
\* An event that is on this page or a later one is on it, or on a later one.
LEMMA PageShows ==
  ASSUME ListInv, QueryPage, query' = "count", start # {}, ~left, NEW e \in start
  PROVE  e \in got' \/ Reached(e, Through)
<1> SUFFICES ASSUME ~Reached(e, Through) PROVE e \in got'
  OBVIOUS
<1> DEFINE c == Cardinality(Earlier(e))
           L == ClampLimit(ask.limit)
<1>1. ListTypeOK /\ query = "page" /\ e \in Matching(ask.status) /\ ask.page >= 1
      /\ Skipped \in 0..MaxEvents /\ Reached(e, Skipped)
  BY DEF ListInv, ReadingInv, QueryPage
<1>2. c \in Nat /\ c >= Skipped /\ ~(c >= Through) /\ ~Tied(e)
  BY <1>1, EarlierFinite DEF Reached
<1>3. L \in Nat \ {0} /\ Skipped \in Int /\ Through \in Int /\ Through = Skipped + L
  BY <1>1, PageEnds
<1>4. ClampPage(ask.page) = ask.page
  BY <1>1 DEF ClampPage, ListTypeOK, Asks
<1>5. Offset(ClampPage(ask.page), L) = Skipped
  BY <1>1, <1>4, WrapSmall DEF Offset, Skipped
<1>6. PICK s \in Sorted(Matching(ask.status)) : got' = Slice(s, L, Skipped)
  BY <1>1, <1>5 DEF QueryPage
<1>7. c + 1 \in DOMAIN s /\ s[c + 1] = e
  BY <1>1, <1>2, PlaceInList
<1>8. c + 1 \in (Skipped + 1)..(Skipped + L)
  BY <1>2, <1>3
<1>9. QED BY <1>6, <1>7, <1>8 DEF Slice

\* Every step keeps the types.
LEMMA ListTypes == ASSUME ListInv, [NextList]_listVars PROVE ListTypeOK'
<1> USE ListAssumption
<1>1. CASE UNCHANGED <<table, query, ask>>
  BY <1>1 DEF ListInv, ListTypeOK
<1>2. ASSUME NEW status \in {NoFilter, "open"}, NEW page \in PageParams,
             NEW limit \in LimitParams, Ask(status, page, limit)
      PROVE  ListTypeOK'
  BY <1>2 DEF Ask, ListInv, ListTypeOK, Asks
<1>3. CASE AskNext
  <2>1. reply.page + 1 \in Int
    BY <1>3 DEF AskNext, ListInv, ListTypeOK, Asks, ReplyInv, MetaPage
  <2>2. QED BY <1>3, <2>1 DEF AskNext, ListInv, ListTypeOK, Asks
<1>4. CASE QueryPage \/ QueryCount \/ QueryFails
  BY <1>4 DEF QueryPage, QueryCount, QueryFails, ListInv, ListTypeOK
<1>5. ASSUME NEW t \in DrawTimes, CreateEvent(t) PROVE ListTypeOK'
  <2>1. [drawAt |-> t, open |-> TRUE] \in ListRows
    BY Zenon DEF ListRows
  <2>2. table \in Seq(ListRows) /\ Len(table) <= MaxEvents /\ Len(table) < MaxEvents
        /\ table' = Append(table, [drawAt |-> t, open |-> TRUE])
    BY <1>5 DEF CreateEvent, ListInv, ListTypeOK
  <2>3. table' \in Seq(ListRows) /\ Len(table') <= MaxEvents
    BY <2>1, <2>2
  <2>4. QED BY <1>5, <2>3 DEF CreateEvent, ListInv, ListTypeOK
<1>6. ASSUME NEW e \in DOMAIN table, LeaveStatus(e) PROVE ListTypeOK'
  <2>1. \A r \in ListRows : [r EXCEPT !.open = FALSE] \in ListRows
    BY Zenon DEF ListRows
  <2>2. table \in Seq(ListRows) /\ Len(table) <= MaxEvents /\ table[e] \in ListRows
    BY DEF ListInv, ListTypeOK
  <2>3. table' = [table EXCEPT ![e] = [table[e] EXCEPT !.open = FALSE]]
    BY <1>6 DEF LeaveStatus
  <2>4. table' \in Seq(ListRows) /\ Len(table') <= MaxEvents
    BY <2>1, <2>2, <2>3
  <2>5. QED BY <1>6, <2>4 DEF LeaveStatus, ListInv, ListTypeOK
<1>7. QED BY <1>1, <1>2, <1>3, <1>4, <1>5, <1>6 DEF NextList, listVars

\* What is created goes behind or before the client, and takes no event away.
LEMMA TableGrows ==
  ASSUME ListInv, ListTypeOK', UNCHANGED <<query, ask, got, reply, start, listed>>,
         DOMAIN table \subseteq DOMAIN table',
         \A e \in DOMAIN table : table'[e].drawAt = table[e].drawAt,
         ~left' => ~left /\ Matching(ask.status) \subseteq Matching(ask.status)'
  PROVE  ReplyInv' /\ ReadingInv'
<1>1. ReplyInv'
  BY DEF ListInv, ReplyInv, MetaPage, MetaLimit
<1>2. ASSUME start' # {}, ~left' PROVE ReadingInv'
  <2>1. ~left /\ start # {} /\ start \subseteq Matching(ask.status) /\ ask.page >= 1
        /\ Matching(ask.status) \subseteq Matching(ask.status)'
    BY <1>2 DEF ListInv, ReadingInv
  <2>2. start' \subseteq Matching(ask.status)' /\ ask'.page >= 1
    BY <2>1
  <2>3. ASSUME NEW e \in start, Tied(e) PROVE Tied(e)'
    <3>1. e \in DOMAIN table
      BY <2>1 DEF Matching
    <3>2. PICK d \in DOMAIN table \ {e} : table[d].drawAt = table[e].drawAt
      BY <2>3 DEF Tied
    <3>3. QED BY <3>1, <3>2 DEF Tied
  <2>4. ASSUME NEW e \in start, NEW n \in Int, Cardinality(Earlier(e)) >= n
        PROVE  Cardinality(Earlier(e)') >= n
    <3>1. e \in DOMAIN table /\ Matching(ask.status) \subseteq DOMAIN table
      BY <2>1 DEF Matching
    <3>2. Earlier(e) \subseteq Earlier(e)'
      BY <2>1, <3>1 DEF Earlier
    <3>3. IsFiniteSet(Earlier(e)') /\ Cardinality(Earlier(e)') \in Nat
      <4>1. IsFiniteSet(DOMAIN table')
        BY FS_Interval DEF ListTypeOK
      <4>2. Earlier(e)' \subseteq DOMAIN table'
        BY DEF Earlier, Matching
      <4>3. QED BY <4>1, <4>2, FS_Subset, FS_CardinalityType
    <3>4. Cardinality(Earlier(e)) \in Nat
      BY <2>1, EarlierFinite DEF ListInv
    <3>5. Cardinality(Earlier(e)) <= Cardinality(Earlier(e)')
      BY <3>2, <3>3, FS_Subset
    <3>6. QED BY <2>4, <3>3, <3>4, <3>5
  <2>5. ASSUME NEW e \in start, NEW n \in Int, Reached(e, n)
        PROVE  e \in listed' \/ Tied(e)' \/ Cardinality(Earlier(e)') >= n
    BY <2>3, <2>4, <2>5 DEF Reached
  <2>6. Skipped' = Skipped /\ Through' = Through /\ Skipped \in Int /\ Through \in Int
    BY PageEnds DEF Skipped, Through, ClampLimit, ListInv
  <2>7. query' = "page" => Skipped' \in 0..MaxEvents /\ \A e \in start' : Reached(e, Skipped)'
    BY <1>2, <2>1, <2>5, <2>6, Zenon DEF ListInv, ReadingInv, Reached
  <2>8. query' = "count" => \A e \in start' : e \in got' \/ Reached(e, Through)'
    BY <1>2, <2>1, <2>5, <2>6 DEF ListInv, ReadingInv, Reached
  <2>9. query' = "idle" /\ reply'.code = "ok" =>
          \A e \in start' : Reached(e, Through)' /\ (e \in listed' \/ Tied(e)' \/ More')
    BY <1>2, <2>1, <2>3, <2>5, <2>6, Zenon DEF ListInv, ReadingInv, Reached, More
  <2>10. QED BY <2>2, <2>7, <2>8, <2>9 DEF ReadingInv
<1>3. QED BY <1>1, <1>2 DEF ReadingInv

\* Events are created at any time.
LEMMA CreateKeeps ==
  ASSUME ListInv, ListTypeOK', NEW t \in DrawTimes, CreateEvent(t)
  PROVE  ReplyInv' /\ ReadingInv'
<1>1. table \in Seq(ListRows) /\ table' = Append(table, [drawAt |-> t, open |-> TRUE])
  BY DEF ListInv, ListTypeOK, CreateEvent
<1>2. DOMAIN table \subseteq DOMAIN table' /\ \A e \in DOMAIN table : table'[e] = table[e]
  BY <1>1
<1>3. Matching(ask.status) \subseteq Matching(ask.status)' /\ left' = left
  BY <1>2 DEF Matching, CreateEvent
<1>4. QED BY <1>2, <1>3, TableGrows DEF CreateEvent

\* An event drops out of the filter.
LEMMA LeaveKeeps ==
  ASSUME ListInv, ListTypeOK', NEW e \in DOMAIN table, LeaveStatus(e)
  PROVE  ReplyInv' /\ ReadingInv'
<1>1. table' = [table EXCEPT ![e] = [table[e] EXCEPT !.open = FALSE]]
  BY DEF LeaveStatus
<1>2. \A r \in ListRows : [r EXCEPT !.open = FALSE].drawAt = r.drawAt
  BY DEF ListRows
<1>3. \A d \in DOMAIN table : table[d] \in ListRows
  BY DEF ListInv, ListTypeOK
<1>4. DOMAIN table' = DOMAIN table /\ \A d \in DOMAIN table : table'[d].drawAt = table[d].drawAt
  BY <1>1, <1>2, <1>3
<1>5. ~left' => ~left /\ ask.status = NoFilter
  BY Zenon DEF LeaveStatus
<1>6. ASSUME ~left' PROVE Matching(ask.status) \subseteq Matching(ask.status)'
  BY <1>4, <1>5, <1>6 DEF Matching, LeaveStatus
<1>7. QED BY <1>4, <1>5, <1>6, TableGrows DEF LeaveStatus

\* The client begins.
LEMMA AskKeeps ==
  ASSUME ListInv, ListTypeOK', NEW status \in {NoFilter, "open"}, NEW page \in PageParams,
         NEW limit \in LimitParams, Ask(status, page, limit)
  PROVE  ReplyInv' /\ ReadingInv'
<1>1. query' = "page" /\ table' = table
      /\ ask' = [status |-> status, page |-> page, limit |-> limit]
      /\ start' = IF page = 1 THEN Matching(status) ELSE {}
  BY DEF Ask
<1>2. ASSUME start' # {} PROVE ReadingInv'
  <2>1. page = 1 /\ start' = Matching(status) /\ ask'.page = 1 /\ ask'.status = status
    BY <1>1, <1>2
  <2>2. start' = Matching(ask.status)'
    BY <1>1, <2>1 DEF Matching
  <2>3. Skipped' = 0
    <3>1. ClampLimit(ask'.limit) \in Int
      BY ListAssumption DEF ClampLimit, ListTypeOK, Asks
    <3>2. QED BY <2>1, <3>1 DEF Skipped, ClampLimit
  <2>4. ASSUME NEW e \in start' PROVE Cardinality(Earlier(e)') >= 0
    <3>1. IsFiniteSet(DOMAIN table')
      BY FS_Interval DEF ListTypeOK
    <3>2. Earlier(e)' \subseteq DOMAIN table'
      BY DEF Earlier, Matching
    <3>3. Cardinality(Earlier(e)') \in Nat
      BY <3>1, <3>2, FS_Subset, FS_CardinalityType
    <3>4. QED BY <3>3
  <2>5. QED BY <1>1, <2>1, <2>2, <2>3, <2>4, ListAssumption DEF ReadingInv, Reached
<1>3. QED BY <1>1, <1>2 DEF ReplyInv, ReadingInv

\* The next page begins where the last one ended.
LEMMA AskNextKeeps ==
  ASSUME ListInv, ListTypeOK', AskNext
  PROVE  ReplyInv' /\ ReadingInv'
<1>1. /\ query = "idle" /\ reply.code = "ok" /\ query' = "page" /\ More
      /\ ask' = [ask EXCEPT !.page = reply.page + 1]
      /\ UNCHANGED <<table, got, reply, start, listed, left>>
  BY DEF AskNext
<1>2. ASSUME start' # {}, ~left' PROVE ReadingInv'
  <2>1. /\ start \subseteq Matching(ask.status) /\ ask.page >= 1
        /\ \A e \in start : Reached(e, Through)
    BY <1>1, <1>2 DEF ListInv, ReadingInv
  <2>2. /\ reply.page = ask.page /\ reply.limit = ClampLimit(ask.limit)
        /\ reply.total \in 0..MaxEvents /\ ask.page \in Int
        /\ ClampLimit(ask.limit) \in Nat \ {0} /\ Through \in Int /\ Skipped \in Int
        /\ Through = Skipped + ClampLimit(ask.limit)
    BY <1>1, <2>1, PageEnds DEF ListInv, ListTypeOK, Asks, ReplyInv, MetaPage
  <2>3. ask'.status = ask.status /\ ask'.limit = ask.limit /\ ask'.page = ask.page + 1
    BY <1>1, <2>2 DEF ListInv, ListTypeOK, Asks
  <2>4. Skipped' = Through
    BY <2>2, <2>3 DEF Skipped, Through, ClampLimit
  <2>5. Through \in 0..MaxEvents
    <3>1. Through < reply.total
      BY <1>1, <2>2 DEF More, Through
    <3>2. Skipped >= 0
      <4>1. \A p, l \in Nat : p * l >= 0
        OBVIOUS
      <4>2. ask.page - 1 \in Nat
        BY <2>1, <2>2
      <4>3. QED BY <2>2, <4>1, <4>2 DEF Skipped
    <3>3. QED BY <2>2, <3>1, <3>2, ListAssumption
  <2>6. \A e \in start : Reached(e, Skipped)'
    BY <1>1, <2>1, <2>3, <2>4 DEF Reached, Tied, Earlier, Matching
  <2>7. start' \subseteq Matching(ask.status)' /\ ask'.page >= 1
    BY <1>1, <2>1, <2>2, <2>3 DEF Matching
  <2>8. QED BY <1>1, <2>4, <2>5, <2>6, <2>7 DEF ReadingInv
<1>3. QED BY <1>1, <1>2 DEF ReplyInv, ReadingInv

\* The first query.
LEMMA PageKeeps ==
  ASSUME ListInv, ListTypeOK', QueryPage
  PROVE  ReplyInv' /\ ReadingInv'
<1>1. UNCHANGED <<table, ask, start, left, listed>>
  BY DEF QueryPage
<1>2. CASE query' = "idle" /\ reply'.code = "internal"
  <2>1. start # {} /\ ~left => start \subseteq Matching(ask.status) /\ ask.page >= 1
    BY DEF ListInv, ReadingInv
  <2>2. QED BY <1>1, <1>2, <2>1 DEF ReplyInv, ReadingInv, Matching
<1>3. CASE query' = "count"
  <2>1. start # {} /\ ~left => start \subseteq Matching(ask.status) /\ ask.page >= 1
    BY DEF ListInv, ReadingInv
  <2>2. start # {} /\ ~left => \A e \in start : e \in got' \/ Reached(e, Through)
    BY <1>3, PageShows
  <2>3. start # {} /\ ~left => \A e \in start : e \in got' \/ Reached(e, Through)'
    BY <1>1, <2>2 DEF Reached, Tied, Earlier, Matching, Through, ClampLimit
  <2>4. QED BY <1>1, <1>3, <2>1, <2>3 DEF ReplyInv, ReadingInv, Matching
<1>4. QED BY <1>2, <1>3 DEF QueryPage, NoReply

\* The second query: the total counts what is still to come.
LEMMA CountKeeps ==
  ASSUME ListInv, ListTypeOK', QueryCount
  PROVE  ReplyInv' /\ ReadingInv'
<1>1. /\ query = "count" /\ query' = "idle" /\ listed' = listed \cup got
      /\ reply' = [code |-> "ok", total |-> Total(ask.status),
                   page |-> MetaPage(ask.page), limit |-> MetaLimit(ask.limit)]
      /\ UNCHANGED <<table, ask, start, left>>
  BY DEF QueryCount
<1>2. Total(ask.status) \in 0..MaxEvents
  BY MatchingFinite DEF Total, ListInv
<1>3. ReplyInv'
  BY <1>1, <1>2 DEF ReplyInv, MetaPage, MetaLimit
<1>4. ASSUME start' # {}, ~left' PROVE ReadingInv'
  <2>1. /\ start \subseteq Matching(ask.status) /\ ask.page >= 1
        /\ \A e \in start : e \in got \/ Reached(e, Through)
    BY <1>1, <1>4 DEF ListInv, ReadingInv
  <2>2. \A e \in start : e \in listed' \/ Tied(e) \/ Cardinality(Earlier(e)) >= Through
    BY <1>1, <2>1 DEF Reached
  <2>3. reply'.page * reply'.limit = Through /\ Through \in Int
    BY <1>1, <2>1, PageEnds DEF Through, MetaPage, ListInv, ListTypeOK, Asks
  <2>4. ASSUME NEW e \in start, Cardinality(Earlier(e)) >= Through PROVE More'
    <3>1. Cardinality(Earlier(e)) \in Nat
          /\ Cardinality(Earlier(e)) < Cardinality(Matching(ask.status))
      BY <2>1, EarlierFinite DEF ListInv
    <3>2. reply'.total = Cardinality(Matching(ask.status)) /\ reply'.total \in Int
      BY <1>1, <1>2 DEF Total
    <3>3. QED BY <2>3, <2>4, <3>1, <3>2 DEF More
  <2>5. \A e \in start : Reached(e, Through)' /\ (e \in listed' \/ Tied(e)' \/ More')
    BY <1>1, <2>2, <2>4 DEF Reached, Tied, Earlier, Matching, Through, ClampLimit
  <2>6. start' \subseteq Matching(ask.status)' /\ ask'.page >= 1
    BY <1>1, <2>1 DEF Matching
  <2>7. QED BY <1>1, <2>5, <2>6 DEF ReadingInv
<1>5. QED BY <1>3, <1>4 DEF ReadingInv

\* A query fails.
LEMMA FailsKeeps ==
  ASSUME ListInv, ListTypeOK', QueryFails
  PROVE  ReplyInv' /\ ReadingInv'
<1>1. query' = "idle" /\ reply'.code = "internal" /\ UNCHANGED <<table, ask, start, left>>
  BY DEF QueryFails, NoReply
<1>2. start # {} /\ ~left => start \subseteq Matching(ask.status) /\ ask.page >= 1
  BY DEF ListInv, ReadingInv
<1>3. QED BY <1>1, <1>2 DEF ReplyInv, ReadingInv, Matching

\* Every step keeps the invariant.
LEMMA NextListInv == ListInv /\ [NextList]_listVars => ListInv'
<1> SUFFICES ASSUME ListInv, [NextList]_listVars PROVE ListInv'
  OBVIOUS
<1>1. ListTypeOK'
  BY ListTypes
<1>2. CASE UNCHANGED listVars
  <2>1. UNCHANGED <<table, query, ask, got, reply, start, listed, left>>
    BY <1>2 DEF listVars
  <2>2. Matching(ask.status) \subseteq Matching(ask.status)'
    BY <2>1 DEF Matching
  <2>3. ReplyInv' /\ ReadingInv'
    BY <1>1, <2>1, <2>2, TableGrows
  <2>4. QED BY <1>1, <2>3 DEF ListInv
<1>3. CASE NextList
  <2>1. ReplyInv' /\ ReadingInv'
    BY <1>1, <1>3, AskKeeps, AskNextKeeps, PageKeeps, CountKeeps, FailsKeeps, CreateKeeps,
       LeaveKeeps DEF NextList
  <2>2. QED BY <1>1, <2>1 DEF ListInv
<1>4. QED BY <1>2, <1>3

\* The empty table.
LEMMA InitListInv == InitList => ListInv
<1> SUFFICES ASSUME InitList PROVE ListInv
  OBVIOUS
<1>1. ListTypeOK
  BY ListAssumption DEF InitList, ListTypeOK, Asks
<1>2. QED BY <1>1 DEF InitList, NoReply, ListInv, ReplyInv, ReadingInv

\* A client of GET /events that follows the replies of List from the first page
\* to the last is shown every event that was there when it began, whatever is
\* created between the queries and the pages, unless events drop out of its
\* filter or share a draw_at.
THEOREM NothingEverMissed == SpecList => []NothingMissed
<1>1. ListInv => NothingMissed
  BY DEF ListInv, ReadingInv, NothingMissed, Tied
<1>2. QED BY <1>1, InitListInv, NextListInv, PTL DEF SpecList

-----------------------------------------------------------------------------
(***************************************************************************)
(* One sample of the fairness test (FairnessClient).                       *)
(***************************************************************************)
\* Requests, and the rows they are about.
Calls == {"create", "book", "close", "draw", "results"}
Requests == [op : Calls, ev : Nat, user : Users]
EventRows ==
  [status : {"open", "closed", "drawn"}, booked : SUBSET Users, drawn : Seq(Users)]

\* The types of what the other parts speak of; every repeated call is a loss.
SampleTypeOK ==
  /\ events \in Seq(EventRows)
  /\ stray \subseteq Requests
  /\ pc \in Calls \cup {"returned", "failed"}
  /\ user \in Users /\ ev \in Nat
  /\ tries \in Nat /\ tries < Tries /\ tries <= losses
  /\ losses \in Nat /\ errors \in Nat

\* A request names an event that is there, and is not ahead of the client.
InStep(q) ==
  q.op # "create" =>
    /\ q.ev \in 1..Len(events)
    /\ pc # "create"
    /\ q.op = "close" => pc # "book"
    /\ q.op \in {"draw", "results"} => pc \notin {"book", "close"}

\* So do the requests that are still on their way.
RequestsInv ==
  /\ ev \in 0..Len(events)
  /\ pc \notin {"create", "failed"} => ev \in 1..Len(events)
  /\ \A q \in stray : InStep(q)

\* What the calls that have returned have achieved, whatever else is served.
Achieved(rows) ==
  /\ \A n \in 1..Len(rows) :
       rows[n].status = "drawn" => rows[n].drawn \in Orderings(rows[n].booked)
  /\ pc = "create" => user = 1 /\ ev = 0
  /\ pc = "book" => rows[ev].status = "open" /\ 1..(user - 1) \subseteq rows[ev].booked
  /\ pc \in {"close", "draw", "results", "returned"} => rows[ev].booked = Users
  /\ pc = "close" => rows[ev].status # "drawn"
  /\ pc = "draw" => rows[ev].status # "open"
  /\ pc \in {"results", "returned"} => rows[ev].status = "drawn"
  /\ pc = "returned" => sample = SubSeq(rows[ev].drawn, 1, W)

\* The inductive invariant.
SampleInv == SampleTypeOK /\ RequestsInv /\ Achieved(events) /\ LossesAreSurvived

\* What serving q can make of an event.
Becomes(q, e, f) ==
  \/ f = e
  \/ /\ q.op = "book" /\ e.status = "open" /\ f.status = "open"
     /\ f.booked = e.booked \cup {q.user}
  \/ /\ q.op = "close" /\ e.status # "drawn" /\ f.status = "closed"
     /\ f.booked = e.booked
  \/ /\ q.op = "draw" /\ e.status = "closed" /\ f.status = "drawn"
     /\ f.booked = e.booked /\ f.drawn \in Orderings(e.booked)

-----------------------------------------------------------------------------
\* As long as a participant is missing there is a free place.
LEMMA UsersCount ==
  /\ IsFiniteSet(Users) /\ Cardinality(Users) = K
  /\ \A S \in SUBSET Users : IsFiniteSet(S) /\ Cardinality(S) \in Nat
  /\ \A S \in SUBSET Users, u \in Users : u \notin S => Cardinality(S) < K
  /\ Users # {}
<1>1. IsFiniteSet(Users) /\ Cardinality(Users) = K
  BY SampleAssumption, FS_Interval DEF Users
<1>2. \A S \in SUBSET Users : IsFiniteSet(S) /\ Cardinality(S) \in Nat
  BY <1>1, FS_Subset, FS_CardinalityType
<1>3. ASSUME NEW S \in SUBSET Users, NEW u \in Users, u \notin S
      PROVE  Cardinality(S) < K
  BY <1>1, <1>2, <1>3, FS_Subset
<1>4. Users # {}
  BY SampleAssumption DEF Users
<1>5. QED BY <1>1, <1>2, <1>3, <1>4

\* A draw ranks all who are booked.
LEMMA DrawRanks ==
  ASSUME NEW S \in SUBSET Users, NEW s \in Orderings(S)
  PROVE  s \in Seq(Users) /\ Len(s) = Cardinality(S)
<1>1. Cardinality(S) \in Nat /\ s \in [1..Cardinality(S) -> S]
  BY UsersCount, Zenon DEF Orderings
<1>2. s \in [1..Cardinality(S) -> Users]
  BY <1>1
<1>3. QED BY <1>1, <1>2

\* One row of the table is written.
LEMMA WriteRow ==
  ASSUME events \in Seq(EventRows), NEW k \in 1..Len(events), NEW row \in EventRows,
         events' = [events EXCEPT ![k] = row]
  PROVE  /\ events' \in Seq(EventRows) /\ Len(events') = Len(events)
         /\ events'[k] = row /\ \A n \in 1..Len(events) : n # k => events'[n] = events[n]
OBVIOUS

\* Serving a request changes at most its event, and as Becomes says.
LEMMA ServeEffect ==
  ASSUME events \in Seq(EventRows), NEW q \in Requests,
         q.op # "create" => q.ev \in 1..Len(events), Serve(q)
  PROVE  /\ events' \in Seq(EventRows) /\ Len(events) <= Len(events')
         /\ \A n \in 1..Len(events) : Becomes(q, events[n], events'[n])
         /\ \A n \in (Len(events) + 1)..Len(events') :
              events'[n].status = "open" /\ events'[n].booked = {}
         /\ q.op = "create" => Len(events') = Len(events) + 1
<1> DEFINE row == events[q.ev]
<1>1. CASE q.op = "create"
  <2>1. events' = Append(events, [status |-> "open", booked |-> {}, drawn |-> <<>>])
    BY <1>1 DEF Serve
  <2>2. [status |-> "open", booked |-> {}, drawn |-> <<>>] \in EventRows
    BY DEF EventRows
  <2>3. QED BY <1>1, <2>1, <2>2 DEF Becomes
<1>2. CASE q.op # "create" /\ UNCHANGED events
  <2>1. (Len(events) + 1)..Len(events') = {} /\ Len(events) <= Len(events')
    BY <1>2
  <2>2. QED BY <1>2, <2>1 DEF Becomes
<1>3. ASSUME q.op # "create", NEW new \in EventRows, Becomes(q, row, new),
             events' = [events EXCEPT ![q.ev] = new]
      PROVE  /\ events' \in Seq(EventRows) /\ Len(events) <= Len(events')
             /\ \A n \in 1..Len(events) : Becomes(q, events[n], events'[n])
             /\ \A n \in (Len(events) + 1)..Len(events') :
                  events'[n].status = "open" /\ events'[n].booked = {}
  <2>1. /\ events' \in Seq(EventRows) /\ Len(events') = Len(events)
        /\ events'[q.ev] = new /\ \A n \in 1..Len(events) : n # q.ev => events'[n] = events[n]
    BY <1>3, WriteRow
  <2>2. (Len(events) + 1)..Len(events') = {} /\ Len(events) <= Len(events')
    BY <2>1
  <2>3. \A n \in 1..Len(events) : Becomes(q, events[n], events'[n])
    BY <1>3, <2>1, Zenon DEF Becomes
  <2>4. QED BY <2>1, <2>2, <2>3, Zenon
<1>4. q.op # "create" => q.ev \in 1..Len(events) /\ row \in EventRows
  OBVIOUS
<1>5. CASE q.op = "book" /\ Answer(q) = "created"
  <2> DEFINE new == [row EXCEPT !.booked = @ \cup {q.user}]
  <2>1. events' = [events EXCEPT ![q.ev] = new]
    BY <1>5 DEF Serve
  <2>2. row.status = "open"
    BY <1>5 DEF Answer, BookAnswer
  <2>3. new \in EventRows /\ Becomes(q, row, new)
    BY <1>4, <1>5, <2>2, Zenon DEF EventRows, Requests, Becomes
  <2>4. QED BY <1>3, <1>5, <2>1, <2>3, Zenon
<1>6. CASE q.op = "close" /\ Answer(q) = "ok"
  <2> DEFINE new == [row EXCEPT !.status = "closed"]
  <2>1. events' = [events EXCEPT ![q.ev] = new]
    BY <1>6 DEF Serve
  <2>2. row.status # "drawn"
    BY <1>6 DEF Answer, CloseAnswer
  <2>3. new \in EventRows /\ Becomes(q, row, new)
    BY <1>4, <1>6, <2>2, Zenon DEF EventRows, Becomes
  <2>4. QED BY <1>3, <1>6, <2>1, <2>3, Zenon
<1>7. CASE q.op = "draw" /\ Answer(q) = "ok"
  <2>1. PICK order \in Orderings(row.booked) :
          events' = [events EXCEPT ![q.ev].status = "drawn", ![q.ev].drawn = order]
    BY <1>7, Zenon DEF Serve
  <2> DEFINE new == [row EXCEPT !.status = "drawn", !.drawn = order]
  <2>2. events' = [events EXCEPT ![q.ev] = new]
    BY <1>4, <1>7, <2>1, Zenon
  <2>3. row.status = "closed"
    BY <1>4, <1>7 DEF Answer, DrawAnswer, EventRows
  <2>4. order \in Seq(Users)
    <3>1. row.booked \in SUBSET Users
      BY <1>4, <1>7 DEF EventRows
    <3>2. QED BY <3>1, DrawRanks
  <2>5. new \in EventRows /\ Becomes(q, row, new)
    BY <1>4, <1>7, <2>3, <2>4, Zenon DEF EventRows, Becomes
  <2>6. QED BY <1>3, <1>7, <2>2, <2>5, Zenon
<1>8. QED BY <1>1, <1>2, <1>5, <1>6, <1>7 DEF Serve

\* Nothing that is served undoes what the client has achieved.
LEMMA ServeKeeps ==
  ASSUME SampleInv,
         UNCHANGED events \/ \E q \in Requests : InStep(q) /\ Serve(q)
  PROVE  /\ events' \in Seq(EventRows) /\ Len(events) <= Len(events') /\ Achieved(events')
         /\ \A n \in 1..Len(events) : events[n].status # "open" => events'[n].status # "open"
<1>1. CASE UNCHANGED events
  BY <1>1 DEF SampleInv, SampleTypeOK, Achieved
<1>2. ASSUME NEW q \in Requests, InStep(q), Serve(q)
      PROVE  /\ events' \in Seq(EventRows) /\ Len(events) <= Len(events') /\ Achieved(events')
             /\ \A n \in 1..Len(events) :
                  events[n].status # "open" => events'[n].status # "open"
  <2>1. /\ events' \in Seq(EventRows) /\ Len(events) <= Len(events')
        /\ \A n \in 1..Len(events) : Becomes(q, events[n], events'[n])
        /\ \A n \in (Len(events) + 1)..Len(events') : events'[n].status = "open"
    BY <1>2, ServeEffect DEF SampleInv, SampleTypeOK, InStep
  <2>2. ASSUME NEW n \in 1..Len(events'), events'[n].status = "drawn"
        PROVE  events'[n].drawn \in Orderings(events'[n].booked)
    <3>1. n \in 1..Len(events)
      BY <2>1, <2>2 DEF SampleInv, SampleTypeOK
    <3>2. QED BY <2>1, <2>2, <3>1, Zenon DEF Becomes, SampleInv, Achieved
  <2>3. ASSUME pc \notin {"create", "failed"} PROVE Achieved(events')
    <3>1. ev \in 1..Len(events) /\ Becomes(q, events[ev], events'[ev])
      BY <2>1, <2>3 DEF SampleInv, RequestsInv
    <3>2. q.user \in Users /\ events[ev] \in EventRows
      BY <3>1 DEF Requests, SampleInv, SampleTypeOK
    <3>3. QED BY <1>2, <2>1, <2>2, <2>3, <3>1, <3>2, Zenon
              DEF Becomes, InStep, SampleInv, Achieved, EventRows
  <2>4. \A n \in 1..Len(events) : events[n].status # "open" => events'[n].status # "open"
    BY <2>1, Zenon DEF Becomes
  <2>5. Achieved(events')
    BY <2>1, <2>2, <2>3, Zenon DEF SampleInv, Achieved
  <2>6. QED BY <2>1, <2>4, <2>5
<1>3. QED BY <1>1, <1>2

\* Before the first call.
LEMMA InitSampleInv == InitClient => SampleInv
<1> SUFFICES ASSUME InitClient PROVE SampleInv
  OBVIOUS
<1>1. SampleTypeOK
  BY SampleAssumption DEF InitClient, SampleTypeOK, Calls, Users
<1>2. RequestsInv /\ Achieved(events) /\ LossesAreSurvived
  BY DEF InitClient, RequestsInv, Achieved, LossesAreSurvived
<1>3. QED BY <1>1, <1>2 DEF SampleInv

\* The request of the call the client is in.
LEMMA ReqInStep ==
  ASSUME SampleInv, Calling
  PROVE  Req \in Requests /\ InStep(Req)
BY DEF SampleInv, SampleTypeOK, RequestsInv, Calling, Req, Requests, InStep, Calls

\* A call that got no answer worth anything is repeated or ends the sample.
LEMMA NoAnswer ==
  ASSUME SampleInv, Calling, NEW ans \in {"error", "transport", "cut"}, After(ans)
  PROVE  pc' \in {pc, "failed"} /\ UNCHANGED <<user, ev, sample>>
BY Zenon DEF SampleInv, SampleTypeOK, Calls, Calling, After, AfterCreate, AfterBook, AfterClose,
       AfterDraw, AfterResults, Repeat, Fails

\* The requests that are given up stay in step with a client that stays where it
\* is or fails.
LEMMA WaitKeeps ==
  ASSUME SampleInv, events' \in Seq(EventRows), Len(events) <= Len(events'),
         Achieved(events'), pc' \in {pc, "failed"}, UNCHANGED <<user, ev, sample>>,
         \A q \in stray' : q \in Requests /\ (q \in stray \/ InStep(q))
  PROVE  RequestsInv' /\ Achieved(events)'
<1>1. RequestsInv'
  <2>1. Len(events) \in Nat /\ Len(events') \in Nat
    BY DEF SampleInv, SampleTypeOK
  <2>2. \A q \in stray' : InStep(q)
    BY DEF SampleInv, RequestsInv
  <2>3. \A q \in stray' : InStep(q)'
    BY <2>1, <2>2 DEF InStep
  <2>4. pc' \notin {"create", "failed"} => ev' \in 1..Len(events')
    BY <2>1 DEF SampleInv, RequestsInv
  <2>5. ev' \in 0..Len(events')
    BY <2>1 DEF SampleInv, RequestsInv
  <2>6. QED BY <2>3, <2>4, <2>5 DEF RequestsInv
<1>2. Achieved(events)'
  BY DEF Achieved
<1>3. QED BY <1>1, <1>2

\* An answer 5xx or 429.
LEMMA ServerFailsKeeps == ASSUME SampleInv, ServerFails PROVE SampleInv'
<1>1. events' \in Seq(EventRows) /\ Len(events) <= Len(events') /\ Achieved(events')
  BY ServeKeeps, ReqInStep DEF ServerFails
<1>2. pc' \in {pc, "failed"} /\ UNCHANGED <<user, ev, sample>>
  BY NoAnswer DEF ServerFails
<1>3. RequestsInv' /\ Achieved(events)'
  BY <1>1, <1>2, WaitKeeps DEF ServerFails, SampleInv, SampleTypeOK
<1>4. errors' \in Nat /\ last' = "error" /\ losses' \in Nat
  BY DEF ServerFails, SampleInv, SampleTypeOK
<1>5. SampleTypeOK'
  BY <1>1, <1>2, <1>4, SampleAssumption DEF ServerFails, SampleInv, SampleTypeOK
<1>6. QED BY <1>3, <1>4, <1>5 DEF SampleInv, LossesAreSurvived

\* An answer that is cut within its body ends the sample, or repeats a booking.
LEMMA CutKeeps == ASSUME SampleInv, CutAnswer PROVE SampleInv'
<1>1. events' \in Seq(EventRows) /\ Len(events) <= Len(events') /\ Achieved(events')
  BY ServeKeeps, ReqInStep DEF CutAnswer
<1>2. pc' \in {pc, "failed"} /\ UNCHANGED <<user, ev, sample>>
  BY NoAnswer DEF CutAnswer
<1>3. RequestsInv' /\ Achieved(events)'
  BY <1>1, <1>2, WaitKeeps DEF CutAnswer, SampleInv, SampleTypeOK
<1>4. SampleTypeOK'
  BY <1>1, <1>2, SampleAssumption DEF CutAnswer, SampleInv, SampleTypeOK
<1>5. pc' = "failed" => CutCosts'
  <2>1. pc \in {"create", "book", "draw", "results"} /\ last' = "cut" /\ After("cut")
    BY DEF CutAnswer, Calling, SampleInv, SampleTypeOK, Calls
  <2>2. CASE pc = "create"
    BY <1>2, <2>1, <2>2 DEF SampleInv, Achieved, CutCosts
  <2>3. CASE pc = "book"
    <3>1. again < MaxAgain => pc' = pc
      BY <2>1, <2>3 DEF After, AfterBook, Repeat
    <3>2. ~(again < MaxAgain) => again' = again
      BY <2>1, <2>3 DEF After, AfterBook, Repeat, Fails
    <3>3. QED BY <2>1, <2>3, <3>1, <3>2 DEF CutCosts
  <2>4. CASE pc \in {"draw", "results"}
    BY <1>1, <1>2, <2>1, <2>4 DEF Achieved, CutCosts
  <2>5. QED BY <2>1, <2>2, <2>3, <2>4
<1>6. QED BY <1>3, <1>4, <1>5 DEF SampleInv, LossesAreSurvived

\* No answer: call repeats the request or gives up.
LEMMA LoseKeeps == ASSUME SampleInv, Lose PROVE SampleInv'
<1>1. events' \in Seq(EventRows) /\ Len(events) <= Len(events') /\ Achieved(events')
  BY ServeKeeps, ReqInStep, Zenon DEF Lose
<1>2. /\ pc' \in {pc, "failed"} /\ UNCHANGED <<user, ev, sample>>
      /\ pc' = pc \/ (losses' >= Tries /\ last' = "transport")
      /\ tries' \in Nat /\ tries' < Tries /\ tries' <= losses' /\ losses' \in Nat
  <2>1. losses' = losses + 1 /\ losses \in Nat /\ tries \in Nat /\ tries <= losses
    BY DEF Lose, SampleInv, SampleTypeOK
  <2>2. CASE tries + 1 < Tries
    BY <2>1, <2>2, SampleAssumption DEF Lose
  <2>3. CASE ~(tries + 1 < Tries)
    <3>1. tries' = 0 /\ After("transport") /\ Calling
      BY <2>3 DEF Lose
    <3>2. pc' \in {pc, "failed"} /\ UNCHANGED <<user, ev, sample>>
      BY <3>1, NoAnswer
    <3>3. QED BY <2>1, <2>3, <3>1, <3>2, SampleAssumption DEF Lose
  <2>4. QED BY <2>2, <2>3
<1>3. \A q \in stray' : q \in Requests /\ (q \in stray \/ InStep(q))
  BY ReqInStep DEF Lose, SampleInv, SampleTypeOK
<1>4. RequestsInv' /\ Achieved(events)'
  BY <1>1, <1>2, <1>3, WaitKeeps
<1>5. SampleTypeOK'
  BY <1>1, <1>2, <1>3 DEF Lose, SampleInv, SampleTypeOK
<1>6. LossesAreSurvived'
  BY <1>2 DEF Lose, Calling, LossesAreSurvived
<1>7. QED BY <1>4, <1>5, <1>6, Zenon DEF SampleInv

\* A lost request that is served after all.
LEMMA StrayKeeps == ASSUME SampleInv, ServeStray \/ BecomeDue PROVE SampleInv'
<1>1. /\ events' \in Seq(EventRows) /\ Len(events) <= Len(events') /\ Achieved(events')
      /\ \A n \in 1..Len(events) : events[n].status # "open" => events'[n].status # "open"
  BY ServeKeeps DEF ServeStray, BecomeDue, SampleInv, SampleTypeOK, RequestsInv
<1>2. /\ UNCHANGED <<pc, user, ev, sample, tries, again, losses, errors, last>>
      /\ stray' \subseteq stray
  BY DEF ServeStray, BecomeDue
<1>3. RequestsInv' /\ Achieved(events)'
  BY <1>1, <1>2, WaitKeeps DEF SampleInv, SampleTypeOK
<1>4. SampleTypeOK'
  BY <1>1, <1>2 DEF SampleInv, SampleTypeOK
<1>5. CutCosts => CutCosts'
  <2>1. ev = 0 \/ ev \in 1..Len(events)
    BY DEF SampleInv, SampleTypeOK, RequestsInv
  <2>2. QED BY <1>1, <1>2, <2>1 DEF CutCosts
<1>6. LossesAreSurvived'
  BY <1>2, <1>5 DEF SampleInv, LossesAreSurvived
<1>7. QED BY <1>3, <1>4, <1>6 DEF SampleInv

\* A client that goes on to a later call leaves no request ahead of it.
LEMMA AdvanceKeeps ==
  ASSUME SampleInv, pc \notin {"create", "failed"}, pc' # "create",
         pc' = "book" => pc = "book",
         pc' = "close" => pc \in {"book", "close"},
         events' \in Seq(EventRows), Len(events) <= Len(events'), UNCHANGED <<ev, stray>>
  PROVE  RequestsInv'
<1>1. Len(events) \in Nat /\ Len(events') \in Nat /\ ev \in 1..Len(events)
  BY DEF SampleInv, SampleTypeOK, RequestsInv
<1>2. \A q \in stray' : InStep(q)'
  BY <1>1 DEF InStep, SampleInv, RequestsInv
<1>3. ev' \in 0..Len(events')
  BY <1>1
<1>4. QED BY <1>1, <1>2, <1>3 DEF RequestsInv

\* Everybody is on the list of a draw of the event.
LEMMA AllRanked ==
  ASSUME NEW rows \in Seq(EventRows), ev \in 1..Len(rows), Achieved(rows),
         rows[ev].status = "drawn", rows[ev].booked = Users
  PROVE  Len(rows[ev].drawn) = K
<1>1. rows[ev].drawn \in Orderings(Users)
  BY DEF Achieved
<1>2. QED BY <1>1, DrawRanks, UsersCount

\* What the calls answer, as long as nobody else touches the event.
LEMMA BookServed ==
  ASSUME SampleInv, pc = "book", Serve(Req)
  PROVE  Answer(Req) \in {"created", "already_booked"} /\ user \in events'[ev].booked
<1> DEFINE e == events[ev]
<1>1. ev \in 1..Len(events) /\ e \in EventRows /\ user \in Users /\ e.status = "open"
      /\ events \in Seq(EventRows)
  BY DEF SampleInv, SampleTypeOK, RequestsInv, Achieved
<1>2. Answer(Req) = BookAnswer(e, user)
  BY DEF Answer, Req
<1>3. CASE user \in e.booked
  <2>1. Answer(Req) = "already_booked"
    BY <1>2, <1>3 DEF BookAnswer
  <2>2. UNCHANGED events
    BY <2>1 DEF Serve, Req
  <2>3. QED BY <1>3, <2>1, <2>2
<1>4. CASE user \notin e.booked
  <2>1. Cardinality(e.booked) \in Nat /\ Cardinality(e.booked) < K
    BY <1>1, <1>4, UsersCount, Zenon DEF EventRows
  <2>2. Answer(Req) = "created"
    BY <1>1, <1>2, <1>4, <2>1, SampleAssumption DEF BookAnswer
  <2>3. events' = [events EXCEPT ![ev].booked = @ \cup {user}]
    BY <2>2 DEF Serve, Req
  <2>4. events'[ev].booked = e.booked \cup {user}
    BY <1>1, <2>3 DEF EventRows
  <2>5. QED BY <2>2, <2>4
<1>5. QED BY <1>3, <1>4

\* close succeeds.
LEMMA CloseServed ==
  ASSUME SampleInv, pc = "close", Serve(Req)
  PROVE  Answer(Req) = "ok" /\ events'[ev].status = "closed"
<1>1. ev \in 1..Len(events) /\ events[ev] \in EventRows /\ events[ev].status # "drawn"
      /\ events \in Seq(EventRows)
  BY DEF SampleInv, SampleTypeOK, RequestsInv, Achieved
<1>2. Answer(Req) = "ok"
  BY <1>1 DEF Answer, Req, CloseAnswer, EventRows
<1>3. events' = [events EXCEPT ![ev].status = "closed"]
  BY <1>2 DEF Serve, Req
<1>4. QED BY <1>1, <1>2, <1>3 DEF EventRows

\* draw succeeds, has succeeded or is not due.
LEMMA DrawServed ==
  ASSUME SampleInv, pc = "draw", Serve(Req)
  PROVE  /\ Answer(Req) \in {"ok", "already_drawn", "draw_not_due"}
         /\ Answer(Req) \in {"ok", "already_drawn"} => events'[ev].status = "drawn"
<1>1. /\ ev \in 1..Len(events) /\ events[ev] \in EventRows /\ events \in Seq(EventRows)
      /\ events[ev].status \in {"closed", "drawn"} /\ events[ev].booked # {}
  <2>1. ev \in 1..Len(events) /\ events \in Seq(EventRows)
    BY DEF SampleInv, SampleTypeOK, RequestsInv
  <2>2. events[ev] \in EventRows /\ events[ev].status # "open" /\ events[ev].booked = Users
    BY <2>1 DEF SampleInv, Achieved
  <2>3. QED BY <2>1, <2>2, UsersCount DEF EventRows
<1>2. Answer(Req) = DrawAnswer(events[ev])
  BY DEF Answer, Req
<1>3. Answer(Req) \in {"ok", "already_drawn", "draw_not_due"}
  BY <1>1, <1>2 DEF DrawAnswer
<1>4. CASE Answer(Req) = "ok"
  <2>1. PICK order \in Orderings(events[ev].booked) :
          events' = [events EXCEPT ![ev].status = "drawn", ![ev].drawn = order]
    BY <1>4 DEF Serve, Req
  <2>2. QED BY <1>1, <1>4, <2>1 DEF EventRows
<1>5. CASE Answer(Req) = "already_drawn"
  <2>1. UNCHANGED events
    BY <1>5 DEF Serve, Req
  <2>2. QED BY <1>1, <1>2, <1>5, <2>1 DEF DrawAnswer
<1>6. QED BY <1>3, <1>4, <1>5

\* One call with its answer, for each of the calls.
ServedTo == /\ RequestsInv' /\ Achieved(events)' /\ LossesAreSurvived'
            /\ pc' \in Calls \cup {"returned", "failed"} /\ user' \in Users /\ ev' \in Nat

\* A request and its answer.
LEMMA ExchangeKeeps == ASSUME SampleInv, Exchange PROVE SampleInv'
<1>1. events' \in Seq(EventRows) /\ Len(events) <= Len(events') /\ Achieved(events')
  BY ServeKeeps, ReqInStep DEF Exchange
<1>2. /\ Serve(Req) /\ After(Answer(Req)) /\ UNCHANGED stray
      /\ last' = Answer(Req) /\ user \in Users /\ ev \in Nat /\ pc \in Calls
  BY DEF Exchange, Calling, SampleInv, SampleTypeOK
<1>3. ASSUME pc = "create" PROVE ServedTo
  <2>1. Req.op = "create" /\ Req \in Requests /\ Answer(Req) = "created"
    BY <1>3, ReqInStep DEF Req, Answer, Exchange
  <2>2. ev' = Len(events') /\ pc' = "book" /\ user' = user
    BY <1>2, <1>3, <2>1 DEF After, AfterCreate, GotoCall
  <2>3. Len(events') = Len(events) + 1 /\ Len(events) \in Nat
        /\ events'[Len(events')].status = "open"
    BY <1>2, <2>1, ServeEffect DEF SampleInv, SampleTypeOK
  <2>4. \A q \in stray' : q.op = "create"
    BY <1>2, <1>3 DEF SampleInv, RequestsInv, InStep
  <2>5. RequestsInv'
    BY <2>2, <2>3, <2>4 DEF RequestsInv, InStep
  <2>6. 1..(user' - 1) = {}
    BY <1>3, <2>2 DEF SampleInv, Achieved
  <2>7. Achieved(events)'
    BY <1>1, <2>2, <2>3, <2>6 DEF Achieved
  <2>8. QED BY <1>2, <2>2, <2>3, <2>5, <2>7 DEF ServedTo, LossesAreSurvived, Calls
<1>4. ASSUME pc = "book" PROVE ServedTo
  <2>1. Answer(Req) \in {"created", "already_booked"} /\ user \in events'[ev].booked
    BY <1>2, <1>4, BookServed
  <2>2. ev \in 1..Len(events) /\ Len(events) \in Nat /\ Len(events') \in Nat
    BY <1>1, <1>4 DEF SampleInv, SampleTypeOK, RequestsInv
  <2>3. 1..user \subseteq events'[ev].booked /\ events'[ev].status = "open"
        /\ events'[ev].booked \subseteq Users
    <3>1. events'[ev] \in EventRows
      BY <1>1, <2>2
    <3>2. events'[ev].status = "open" /\ 1..(user - 1) \subseteq events'[ev].booked
      BY <1>1, <1>4 DEF Achieved
    <3>3. 1..user = 1..(user - 1) \cup {user}
      BY <1>2 DEF Users
    <3>4. QED BY <2>1, <3>1, <3>2, <3>3 DEF EventRows
  <2>4. /\ IF user < K THEN user' = user + 1 /\ pc' = "book"
                       ELSE pc' = "close" /\ user' = user
        /\ ev' = ev
    BY <1>2, <1>4, <2>1 DEF After, AfterBook, GotoCall, MoreUsers
  <2>5. RequestsInv'
    BY <1>1, <1>2, <1>4, <2>4, AdvanceKeeps
  <2>6. Achieved(events)'
    <3>1. CASE user < K
      <4>1. user' - 1 = user
        BY <1>2, <2>4, <3>1 DEF Users
      <4>2. QED BY <1>1, <2>3, <2>4, <3>1, <4>1 DEF Achieved
    <3>2. CASE ~(user < K)
      <4>1. user = K
        BY <1>2, <3>2, SampleAssumption DEF Users
      <4>2. events'[ev].booked = Users
        BY <2>3, <4>1, Zenon DEF Users
      <4>3. QED BY <1>1, <2>3, <2>4, <3>2, <4>2 DEF Achieved
    <3>3. QED BY <3>1, <3>2
  <2>7. QED BY <1>2, <2>4, <2>5, <2>6, SampleAssumption
            DEF ServedTo, LossesAreSurvived, Calls, Users
<1>5. ASSUME pc = "close" PROVE ServedTo
  <2>1. Answer(Req) = "ok" /\ events'[ev].status = "closed"
    BY <1>2, <1>5, CloseServed
  <2>2. pc' = "draw" /\ UNCHANGED <<user, ev, sample>>
    BY <1>2, <1>5, <2>1 DEF After, AfterClose, GotoCall
  <2>3. RequestsInv'
    BY <1>1, <1>2, <1>5, <2>2, AdvanceKeeps
  <2>4. Achieved(events)'
    BY <1>1, <1>5, <2>1, <2>2 DEF Achieved
  <2>5. QED BY <1>2, <2>2, <2>3, <2>4 DEF ServedTo, LossesAreSurvived, Calls
<1>6. ASSUME pc \in {"draw", "results"}, events'[ev].status = "drawn", Returns
      PROVE  ServedTo
  <2>1. ev \in 1..Len(events) /\ ev \in 1..Len(events')
    BY <1>1, <1>6 DEF SampleInv, SampleTypeOK, RequestsInv
  <2>2. events'[ev].booked = Users
    BY <1>1, <1>6 DEF Achieved
  <2>3. Len(events'[ev].drawn) = K
    BY <1>1, <1>6, <2>1, <2>2, AllRanked
  <2>4. /\ pc' = "returned" /\ UNCHANGED <<user, ev>>
        /\ sample' = SubSeq(events'[ev].drawn, 1, W)
    BY <1>6, <2>3 DEF Returns
  <2>5. RequestsInv'
    BY <1>1, <1>2, <1>6, <2>4, AdvanceKeeps
  <2>6. Achieved(events)'
    BY <1>1, <1>6, <2>2, <2>4 DEF Achieved
  <2>7. QED BY <1>2, <2>4, <2>5, <2>6 DEF ServedTo, LossesAreSurvived
<1>7. ASSUME pc = "draw" PROVE ServedTo
  <2>1. /\ Answer(Req) \in {"ok", "already_drawn", "draw_not_due"}
        /\ Answer(Req) \in {"ok", "already_drawn"} => events'[ev].status = "drawn"
    BY <1>2, <1>7, DrawServed
  <2>2. CASE Answer(Req) = "ok"
    BY <1>2, <1>6, <1>7, <2>1, <2>2 DEF After, AfterDraw
  <2>3. CASE Answer(Req) = "already_drawn"
    <3>1. pc' = "results" /\ UNCHANGED <<user, ev, sample>>
      BY <1>2, <1>7, <2>3 DEF After, AfterDraw, GotoCall
    <3>2. RequestsInv'
      BY <1>1, <1>2, <1>7, <3>1, AdvanceKeeps
    <3>3. Achieved(events)'
      BY <1>1, <1>7, <2>1, <2>3, <3>1 DEF Achieved
    <3>4. QED BY <1>2, <3>1, <3>2, <3>3 DEF ServedTo, LossesAreSurvived, Calls
  <2>4. CASE Answer(Req) = "draw_not_due"
    <3>1. pc' \in {pc, "failed"} /\ UNCHANGED <<user, ev, sample>>
      BY <1>2, <1>7, <2>4 DEF After, AfterDraw, Repeat, Fails
    <3>2. RequestsInv' /\ Achieved(events)'
      BY <1>1, <1>2, <3>1, WaitKeeps DEF SampleInv, SampleTypeOK
    <3>3. QED BY <1>2, <2>4, <3>1, <3>2 DEF ServedTo, LossesAreSurvived, Calls
  <2>5. QED BY <2>1, <2>2, <2>3, <2>4
<1>8. ASSUME pc = "results" PROVE ServedTo
  <2>1. Answer(Req) = "ok"
    BY <1>8 DEF Answer, Req, ResultsAnswer, SampleInv, Achieved
  <2>2. Returns /\ events'[ev].status = "drawn"
    BY <1>1, <1>2, <1>8, <2>1 DEF After, AfterResults, Achieved
  <2>3. QED BY <1>6, <1>8, <2>2
<1>9. ServedTo
  BY <1>2, <1>3, <1>4, <1>5, <1>7, <1>8 DEF Calls
<1>10. SampleTypeOK'
  BY <1>1, <1>9, SampleAssumption DEF ServedTo, Exchange, SampleInv, SampleTypeOK
<1>11. QED BY <1>9, <1>10 DEF ServedTo, SampleInv

\* Every step keeps the invariant.
LEMMA NextSampleInv == SampleInv /\ [NextClient]_clientVars => SampleInv'
<1> SUFFICES ASSUME SampleInv, [NextClient]_clientVars PROVE SampleInv'
  OBVIOUS
<1>1. CASE UNCHANGED clientVars
  BY <1>1, Zenon DEF clientVars, SampleInv, SampleTypeOK, RequestsInv, InStep, Achieved,
              LossesAreSurvived, CutCosts
<1>2. QED BY <1>1, ExchangeKeeps, CutKeeps, ServerFailsKeeps, LoseKeeps, StrayKeeps DEF NextClient

\* What oneDraw returns is the committed result of one draw among all
\* participants, also when requests were lost, repeated or served late.
THEOREM SampleAlwaysCommitted == SpecClient => []SampleIsCommitted
<1>1. SampleInv => SampleIsCommitted
  BY DEF SampleInv, Achieved, SampleIsCommitted
<1>2. QED BY <1>1, InitSampleInv, NextSampleInv, PTL DEF SpecClient

\* What ends a sample is an answer 5xx or 429, a call that has lost all of its
\* attempts, a draw that stays not due, or an answer that is cut within its body
\* where call is not repeated: the repetitions make up for every smaller number
\* of requests without a response.
THEOREM LossesAlwaysSurvived == SpecClient => []LossesAreSurvived
<1>1. SampleInv => LossesAreSurvived
  BY DEF SampleInv
<1>2. QED BY <1>1, InitSampleInv, NextSampleInv, PTL DEF SpecClient

-----------------------------------------------------------------------------
(***************************************************************************)
(* The algorithm of the draw (LotteryAlgorithm): every participant is      *)
(* ranked once, for every list of participants and number of winners.      *)
(***************************************************************************)
\* A list without repetitions is as long as there are members.
LEMMA SizeOfList ==
  ASSUME NEW S, NEW n \in Nat, NEW s \in [1..n -> S],
         \A a, b \in 1..n : s[a] = s[b] => a = b,
         \A x \in S : \E k \in 1..n : s[k] = x
  PROVE  Cardinality(S) = n
<1>1. s \in Bijection(1..n, S)
  BY DEF Bijection, Injection, Surjection, IsInjective
<1> QED
  BY <1>1, FS_CountingElements DEF ExistsBijection

\* The copy stays a rearrangement of the participants: the inductive part of
\* the argument, with what the split adds.
Rearranged ==
  /\ result \in [1..Len(pool) -> Members]
  /\ \A a, b \in 1..Len(pool) : result[a] = result[b] => a = b
  /\ out = "running" => count >= 1
  /\ out = "done" =>
       winners = Winners(result, count) /\ waitlist = Waitlist(result, count) /\ count >= 1

\* A list of participants is a list, and it has its members.
LEMMA PoolIsList ==
  ASSUME pool \in Pools
  PROVE  /\ pool \in Seq(People) /\ Len(pool) \in Nat /\ DOMAIN pool = 1..Len(pool)
         /\ pool \in [1..Len(pool) -> Members]
         /\ \A a, b \in 1..Len(pool) : pool[a] = pool[b] => a = b
<1>1. pool \in Seq(People) /\ Len(pool) \in Nat /\ DOMAIN pool = 1..Len(pool)
  BY PoolsAssumption
<1>2. \A k \in 1..Len(pool) : pool[k] \in Members
  BY <1>1 DEF Members
<1>3. pool = [k \in 1..Len(pool) |-> pool[k]]
  BY <1>1
<1>4. pool \in [1..Len(pool) -> Members]
  BY <1>2, <1>3
<1> QED
  BY <1>1, <1>4, PoolsAssumption

\* There are as many participants as places in the list.
LEMMA MembersCount ==
  ASSUME pool \in Pools
  PROVE  Cardinality(Members) = Len(pool)
<1> DEFINE n == Len(pool)
<1>1. n \in Nat /\ DOMAIN pool = 1..n /\ pool \in [1..n -> Members]
      /\ \A a, b \in 1..n : pool[a] = pool[b] => a = b
  BY PoolIsList
<1>2. \A x \in Members : \E k \in 1..n : pool[k] = x
  BY <1>1 DEF Members
<1> QED
  BY <1>1, <1>2, SizeOfList

\* The early returns and the copy establish the invariant.
LEMMA InitRearranged ==
  ASSUME InitAlgorithm
  PROVE  AlgorithmTypeOK /\ Rearranged
<1>1. pool \in Pools /\ count \in Counts /\ result = pool /\ i = Len(pool) - 1
      /\ picks = <<>> /\ winners = <<>> /\ waitlist = <<>>
      /\ out = (IF pool = <<>> \/ count < 1 THEN "error" ELSE "running")
  BY DEF InitAlgorithm
<1>2. out = "running" => count >= 1 /\ Len(pool) > 0
  BY <1>1, PoolIsList, PoolsAssumption
<1>3. AlgorithmTypeOK
  BY <1>1, <1>2, PoolIsList DEF AlgorithmTypeOK
<1>4. Rearranged
  BY <1>1, <1>2, PoolIsList DEF Rearranged
<1> QED
  BY <1>3, <1>4

\* Every step of the loop, its failure and the split keep it.
LEMMA NextRearranged ==
  ASSUME AlgorithmTypeOK, Rearranged, [NextAlgorithm]_algorithmVars
  PROVE  AlgorithmTypeOK' /\ Rearranged'
<1> DEFINE n == Len(pool)
<1>0. /\ pool \in Pools /\ count \in Counts /\ count \in Int /\ i \in Int /\ i < n
      /\ n \in Nat /\ DOMAIN pool = 1..n
  BY PoolIsList, PoolsAssumption DEF AlgorithmTypeOK
<1>1. CASE Iterate
  <2>1. PICK j \in 0..i : result' = Swap(result, i, j) /\ picks' = Append(picks, j)
    BY <1>1 DEF Iterate, RandRange
  <2>2. /\ i > 0 /\ out = "running" /\ i' = i - 1
        /\ pool' = pool /\ count' = count /\ out' = out
        /\ winners' = winners /\ waitlist' = waitlist
    BY <1>1 DEF Iterate, Unfinished
  <2>3. Members' = Members
    BY <2>2 DEF Members
  <2>4. /\ result' \in [1..n -> Members]
        /\ \A a, b \in 1..n : result'[a] = result'[b] => a = b
    <3>1. i + 1 \in 1..n /\ j + 1 \in 1..n
      BY <1>0, <2>2
    <3>2. result \in [1..n -> Members] /\ \A x, y \in 1..n : result[x] = result[y] => x = y
      BY DEF Rearranged
    <3> HIDE DEF n
    <3>3. \A x \in 1..n : result'[x] =
             IF x = j + 1 THEN result[i + 1] ELSE IF x = i + 1 THEN result[j + 1] ELSE result[x]
      BY <2>1, <3>1, <3>2 DEF Swap
    <3>4. result' \in [1..n -> Members]
      BY <2>1, <3>1, <3>2 DEF Swap
    <3> QED
      BY <3>1, <3>2, <3>3, <3>4
  <2>5. picks' \in Seq(Nat)
    BY <1>0, <2>1, <2>2 DEF AlgorithmTypeOK
  <2>6. AlgorithmTypeOK'
    BY <1>0, <2>2, <2>3, <2>4, <2>5 DEF AlgorithmTypeOK
  <2>7. Rearranged'
    BY <2>2, <2>3, <2>4 DEF Rearranged
  <2> QED
    BY <2>6, <2>7
<1>2. CASE RandFails
  <2>1. /\ out' = "error" /\ i' = i /\ result' = result /\ picks' = picks
        /\ pool' = pool /\ count' = count /\ winners' = winners /\ waitlist' = waitlist
    BY <1>2 DEF RandFails
  <2>2. Members' = Members
    BY <2>1 DEF Members
  <2> QED
    BY <2>1, <2>2 DEF AlgorithmTypeOK, Rearranged
<1>3. CASE Split
  <2>1. /\ out = "running" /\ out' = "done" /\ i' = i /\ result' = result /\ picks' = picks
        /\ pool' = pool /\ count' = count
        /\ winners' = Winners(result, count) /\ waitlist' = Waitlist(result, count)
    BY <1>3 DEF Split
  <2>2. Members' = Members
    BY <2>1 DEF Members
  <2>3. result \in Seq(Members) /\ Len(result) = n /\ count >= 1
    BY <1>0, <2>1 DEF Rearranged
  <2>4. winners' \in Seq(Members) /\ waitlist' \in Seq(Members)
    BY <1>0, <2>1, <2>3 DEF Winners, Waitlist
  <2>5. AlgorithmTypeOK'
    BY <2>1, <2>2, <2>4 DEF AlgorithmTypeOK
  <2>6. Rearranged'
    BY <2>1, <2>2, <2>3 DEF Rearranged
  <2> QED
    BY <2>5, <2>6
<1>4. CASE UNCHANGED algorithmVars
  <2>1. /\ out' = out /\ i' = i /\ result' = result /\ picks' = picks
        /\ pool' = pool /\ count' = count /\ winners' = winners /\ waitlist' = waitlist
    BY <1>4 DEF algorithmVars
  <2>2. Members' = Members
    BY <2>1 DEF Members
  <2> QED
    BY <2>1, <2>2 DEF AlgorithmTypeOK, Rearranged
<1> QED
  BY <1>1, <1>2, <1>3, <1>4 DEF NextAlgorithm

\* The split cuts the ranking in two and loses nobody.
LEMMA SplitLosesNobody ==
  ASSUME NEW S, NEW s \in Seq(S), NEW c \in Int, c >= 1
  PROVE  /\ Winners(s, c) \o Waitlist(s, c) = s
         /\ Len(Winners(s, c)) = IF c < Len(s) THEN c ELSE Len(s)
<1>1. CASE c >= Len(s)
  BY <1>1 DEF Winners, Waitlist
<1>2. CASE c < Len(s)
  <2>1. Len(s) \in Nat /\ c \in 0..Len(s)
    BY <1>2
  <2>2. SubSeq(s, 1, c) \o SubSeq(s, c + 1, Len(s)) = SubSeq(s, 1, Len(s))
    BY <2>1
  <2>3. SubSeq(s, 1, Len(s)) = s
    OBVIOUS
  <2>4. Len(SubSeq(s, 1, c)) = c
    BY <2>1
  <2>5. Winners(s, c) = SubSeq(s, 1, c) /\ Waitlist(s, c) = SubSeq(s, c + 1, Len(s))
    BY <1>2, <2>1 DEF Winners, Waitlist
  <2> QED
    BY <1>2, <2>2, <2>3, <2>4, <2>5, Zenon
<1> QED
  BY <1>1, <1>2

\* What SelectWinners returns follows from the invariant.
LEMMA RearrangedRanks ==
  ASSUME AlgorithmTypeOK, Rearranged
  PROVE  EveryoneRankedOnce
<1> SUFFICES ASSUME out = "done"
             PROVE  /\ winners \o waitlist \in Orderings(Members)
                    /\ Len(winners) = IF count < Len(pool) THEN count ELSE Len(pool)
  BY DEF EveryoneRankedOnce
<1>1. pool \in Pools /\ count \in Int /\ Len(pool) \in Nat
  BY PoolIsList, PoolsAssumption DEF AlgorithmTypeOK
<1>2. /\ result \in [1..Len(pool) -> Members] /\ count >= 1
      /\ winners = Winners(result, count) /\ waitlist = Waitlist(result, count)
  BY DEF Rearranged
<1>3. result \in Seq(Members) /\ Len(result) = Len(pool)
  BY <1>1, <1>2
<1>4. winners \o waitlist = result
      /\ Len(winners) = IF count < Len(result) THEN count ELSE Len(result)
  BY <1>1, <1>2, <1>3, SplitLosesNobody, Zenon
<1>5. result \in Orderings(Members)
  BY <1>1, MembersCount DEF Orderings, Rearranged
<1> QED
  BY <1>3, <1>4, <1>5

\* FairShuffle and SelectWinners keep within their arrays: the loop variable
\* stays a place of the list, and what is returned are lists of participants.
THEOREM AlgorithmTypeCorrect == SpecAlgorithm => []AlgorithmTypeOK
<1>1. AlgorithmTypeOK /\ Rearranged /\ [NextAlgorithm]_algorithmVars
      => (AlgorithmTypeOK /\ Rearranged)'
  BY NextRearranged
<1>2. InitAlgorithm => AlgorithmTypeOK /\ Rearranged
  BY InitRearranged
<1> QED
  BY <1>1, <1>2, PTL DEF SpecAlgorithm

\* Whatever list SelectWinners is called with, and whatever random numbers come,
\* the winners and the waitlist together rank every participant exactly once.
THEOREM SelectWinnersRanks == SpecAlgorithm => []EveryoneRankedOnce
<1>1. AlgorithmTypeOK /\ Rearranged /\ [NextAlgorithm]_algorithmVars
      => (AlgorithmTypeOK /\ Rearranged)'
  BY NextRearranged
<1>2. InitAlgorithm => AlgorithmTypeOK /\ Rearranged
  BY InitRearranged
<1>3. AlgorithmTypeOK /\ Rearranged => EveryoneRankedOnce
  BY RearrangedRanks
<1> QED
  BY <1>1, <1>2, <1>3, PTL DEF SpecAlgorithm
=============================================================================
