----------------------------- MODULE EventList -----------------------------
(***************************************************************************)
(* GET /events: List of internal/event/service.go and its handler.         *)
(*                                                                         *)
(* A client reads the list page by page while administrators create events *)
(* and take them out of a status.  A page and its total come from two      *)
(* queries, the pages from many requests, and nothing holds the table      *)
(* still between them.  The id of an event is the order of its creation.   *)
(***************************************************************************)
EXTENDS Integers, FiniteSets, Sequences

CONSTANTS
  MaxEvents,     \* bound: events created
  DrawTimes,     \* bound: values of draw_at
  PageParams,    \* what clients send as page: Atoi makes 0 of what is no number,
                 \* and the largest int of what is out of range
  LimitParams,   \* what clients send as limit
  DefaultLimit,  \* 20
  MaxLimit,      \* 100
  IntRange       \* number of values of a Go int

ASSUME ListAssumption ==
  /\ MaxEvents \in Nat /\ DrawTimes \subseteq Int
  /\ PageParams \subseteq Int /\ LimitParams \subseteq Int
  /\ DefaultLimit \in Nat \ {0} /\ MaxLimit \in Nat
  /\ IntRange \in Nat /\ MaxEvents < IntRange \div 2

VARIABLES
  table,    \* lottery_events: per id its draw_at and whether it is still open
  query,    \* the query of the request that runs next
  ask,      \* the request: status filter, page and limit
  got,      \* the events on the page
  reply,    \* the last answer
  start,    \* ghost: the events the client could expect when it began
  listed,   \* the events it has been shown since
  left      \* ghost: an event has dropped out of the filter since

listVars == <<table, query, ask, got, reply, start, listed, left>>

\* No status in the query.
NoFilter == ""

NoReply == [code |-> "none", total |-> 0, page |-> 0, limit |-> 0]

Matching(status) == {e \in DOMAIN table : status = NoFilter \/ table[e].open}

-----------------------------------------------------------------------------
\* page and limit as List uses them.
ClampPage(page) == IF page < 1 THEN 1 ELSE page
ClampLimit(limit) == IF limit < 1 \/ limit > MaxLimit THEN DefaultLimit ELSE limit

\* The handler clamps them a second time for the reply.
MetaPage(page) == IF page < 1 THEN 1 ELSE page
MetaLimit(limit) == IF limit < 1 \/ limit > MaxLimit THEN DefaultLimit ELSE limit

\* Arithmetic on Go ints wraps around.
Wrap(n) == ((n + IntRange \div 2) % IntRange) - IntRange \div 2

\* Variant: pages count from 0.
OffsetFromZero(page, limit) == Wrap(page * limit)

Offset(page, limit) == Wrap((page - 1) * limit)

\* ORDER BY draw_at ASC: events with the same draw_at come in any order.
Sorted(S) ==
  {s \in [1..Cardinality(S) -> S] :
      \A i, j \in DOMAIN s : i < j => s[i] # s[j] /\ table[s[i]].drawAt <= table[s[j]].drawAt}

\* The rows that LIMIT and OFFSET leave.
Slice(s, limit, offset) == {s[i] : i \in DOMAIN s \cap (offset + 1)..(offset + limit)}

\* The first query; a negative OFFSET is an error.
QueryPage ==
  LET offset == Offset(ClampPage(ask.page), ClampLimit(ask.limit))
  IN  /\ query = "page"
      /\ \/ /\ offset < 0
            /\ reply' = [NoReply EXCEPT !.code = "internal"]
            /\ query' = "idle"
            /\ UNCHANGED <<got, listed>>
         \/ /\ offset >= 0
            /\ \E s \in Sorted(Matching(ask.status)) :
                 got' = Slice(s, ClampLimit(ask.limit), offset)
            /\ query' = "count"
            /\ UNCHANGED <<reply, listed>>
      /\ UNCHANGED <<table, ask, start, left>>

\* SELECT COUNT(*).
Total(status) == Cardinality(Matching(status))

\* The second query, and the reply.
QueryCount ==
  /\ query = "count"
  /\ reply' = [code |-> "ok", total |-> Total(ask.status),
               page |-> MetaPage(ask.page), limit |-> MetaLimit(ask.limit)]
  /\ listed' = listed \cup got
  /\ got' = {}
  /\ query' = "idle"
  /\ UNCHANGED <<table, ask, start, left>>

\* Either query fails, and List returns its error.
QueryFails ==
  /\ query \in {"page", "count"}
  /\ reply' = [NoReply EXCEPT !.code = "internal"]
  /\ got' = {}
  /\ query' = "idle"
  /\ UNCHANGED <<table, ask, start, listed, left>>

-----------------------------------------------------------------------------
\* A client asks for the first page, or for any page.
Ask(status, page, limit) ==
  /\ query = "idle"
  /\ query' = "page"
  /\ ask' = [status |-> status, page |-> page, limit |-> limit]
  /\ start' = IF page = 1 THEN Matching(status) ELSE {}
  /\ listed' = {}
  /\ left' = FALSE
  /\ reply' = NoReply
  /\ UNCHANGED <<table, got>>

\* There is more according to the reply, and the client asks for it.
More == reply.page * reply.limit < reply.total
AskNext ==
  /\ query = "idle"
  /\ reply.code = "ok"
  /\ More
  /\ query' = "page"
  /\ ask' = [ask EXCEPT !.page = reply.page + 1]
  /\ UNCHANGED <<table, got, reply, start, listed, left>>

\* Create of an event with some draw_at.
CreateEvent(t) ==
  /\ Len(table) < MaxEvents
  /\ table' = Append(table, [drawAt |-> t, open |-> TRUE])
  /\ UNCHANGED <<query, ask, got, reply, start, listed, left>>

\* Close, Cancel or a draw takes an event out of its status.
LeaveStatus(e) ==
  /\ table[e].open
  /\ table' = [table EXCEPT ![e].open = FALSE]
  /\ left' = (left \/ ask.status # NoFilter)
  /\ UNCHANGED <<query, ask, got, reply, start, listed>>

InitList ==
  /\ table = <<>>
  /\ query = "idle"
  /\ ask = [status |-> NoFilter, page |-> 0, limit |-> 0]
  /\ got = {}
  /\ reply = NoReply
  /\ start = {} /\ listed = {}
  /\ left = FALSE

NextList ==
  \/ \E status \in {NoFilter, "open"}, page \in PageParams, limit \in LimitParams :
       Ask(status, page, limit)
  \/ AskNext \/ QueryPage \/ QueryCount \/ QueryFails
  \/ \E t \in DrawTimes : CreateEvent(t)
  \/ \E e \in DOMAIN table : LeaveStatus(e)

SpecList == InitList /\ [][NextList]_listVars

-----------------------------------------------------------------------------
\* A client that reads to the last page has seen every event that was there when
\* it began, whatever was created meanwhile, unless events dropped out of its
\* filter; events with the same draw_at have no order and are not covered.
NothingMissed ==
  query = "idle" /\ reply.code = "ok" /\ ~More =>
    \A e \in start :
      \/ e \in listed
      \/ left
      \/ \E d \in DOMAIN table \ {e} : table[d].drawAt = table[e].drawAt
=============================================================================
