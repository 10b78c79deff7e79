--------------------------- MODULE AccountsProofs ---------------------------
(***************************************************************************)
(* The safety of accounts, tokens and promotions, for any number of        *)
(* workers, addresses, passwords and ids; and, in the last part, of the    *)
(* tool that makes accounts for a load test.                               *)
(***************************************************************************)
EXTENDS Accounts, FiniteSetTheorems, TLAPS

Stages == {"idle", "insert", "upsert", "select", "compare", "fetch", "update"}
Ops == {"none", "register", "bootstrap", "login", "me", "promote"}
Codes == {"none", "invalid_input", "unhashed", "created", "email_taken", "not_started",
          "ensured", "invalid_credentials", "token", "unauthorized", "forbidden", "me",
          "promoted", "user_not_found", "internal"}
Request == [op : Ops, email : Spellings \cup {"none"}, password : Passwords \cup {"none"},
            id : Ids \cup {0}, by : Token \cup {NoToken}, found : Row \cup {NoUser}]
Answer == [code : Codes, id : Ids \cup {0}, role : Roles \cup {"none"}]

AccountsTypeOK ==
  /\ users \in [Ids -> Row \cup {NoUser}]
  /\ serial \in Nat
  /\ token \in Token \cup {NoToken}
  /\ pc \in [Workers -> Stages]
  /\ req \in [Workers -> Request]
  /\ answer \in [Workers -> Answer]

\* The workers that will take an id.
Pending == {w \in Workers : pc[w] \in {"insert", "upsert"}}

\* There is an id for each of them, and no row has it yet.
SerialInv ==
  /\ serial + Cardinality(Pending) <= MaxUsers
  /\ \A i \in Ids : Exists(i) => i <= serial

\* The UNIQUE constraint on users.email.
UniqueInv ==
  \A i, j \in Ids : Exists(i) /\ Exists(j) /\ users[i].email = users[j].email => i = j

\* What holds of a request q at the statement stage: what was checked when it
\* arrived or read by an earlier statement is still true of the table.
Fit(q, stage) ==
  /\ stage \in {"insert", "upsert", "select"} =>
       q.email \in Spellings /\ q.password \in Passwords
  /\ stage = "upsert" => q.email = Norm[BootEmail]
  /\ stage = "compare" =>
       /\ q.id \in Ids /\ Exists(q.id)
       /\ users[q.id].email = q.email /\ users[q.id].password = q.found.password
       /\ q.found.role \in Roles
       /\ q.found.role = "admin" => users[q.id].role = "admin"
  /\ stage = "fetch" => q.id \in Ids /\ Exists(q.id)
  /\ stage = "update" =>
       q.id \in Ids /\ q.by.id \in Ids /\ users[q.by.id].role = "admin"
  /\ q.op = "me" => stage \in {"idle", "fetch"}

\* The client of a handler that still runs has no answer, or has been told
\* that the handler gave up.
Waiting(w) == pc[w] # "idle" => answer[w] \in {NoAnswer, Reply("internal")}

\* What the client of a request q has been told by a.
Heard(q, a) ==
  /\ a.code \in {"created", "token"} =>
       /\ a.id \in Ids /\ Exists(a.id)
       /\ users[a.id].email = q.email
  /\ a.code = "created" => users[a.id].password = q.password
  /\ a.code = "token" => Matches(users[a.id].password, q.password)
  /\ a.code \in {"email_taken", "ensured"} =>
       \E i \in Ids : Exists(i) /\ users[i].email = q.email
                      /\ (a.code = "ensured" => users[i].role = "admin")
  /\ a.role = "admin" => a.id \in Ids /\ users[a.id].role = "admin"
  /\ q.op = "me" => a.code # "user_not_found"

WorkerInv(w) == Fit(req[w], pc[w]) /\ Waiting(w) /\ Heard(req[w], answer[w])

AccountsInv ==
  /\ AccountsTypeOK /\ SerialInv /\ UniqueInv /\ TokensAreBacked
  /\ \A w \in Workers : WorkerInv(w)

-----------------------------------------------------------------------------
(***************************************************************************)
(* The table.                                                              *)
(***************************************************************************)
\* No row is taken for a missing one.
LEMMA RowsExist == NoUser \notin Row
  BY DEF Row, NoUser, Roles

\* The constants that requests and answers start from.
LEMMA Blank ==
  /\ NoRequest \in Request /\ NoRequest.op = "none"
  /\ NoAnswer = Reply("none")
<1>1. NoRequest \in Request /\ NoRequest.op = "none"
  BY DEF NoRequest, Request, Ops
<1>2. NoAnswer = Reply("none")
  BY DEF Reply, NoAnswer
<1> QED
  BY <1>1, <1>2

\* An answer without an account.
LEMMA ReplyOf ==
  ASSUME NEW code \in Codes
  PROVE  /\ Reply(code) \in Answer
         /\ Reply(code) = [code |-> code, id |-> 0, role |-> "none"]
  BY DEF Reply, NoAnswer, Answer

\* Rows are never deleted, their addresses and passwords never change, and
\* nobody stops being an administrator.
RowsKept ==
  \A i \in Ids : Exists(i) =>
    /\ users'[i] # NoUser
    /\ users'[i].email = users[i].email /\ users'[i].password = users[i].password
    /\ users[i].role = "admin" => users'[i].role = "admin"

\* A missing row has no role of an administrator.
LEMMA AdminsExist ==
  ASSUME AccountsTypeOK, NEW i \in Ids, users[i].role = "admin"
  PROVE  Exists(i)
  BY DEF Exists, NoUser

\* What was found in the table, or heard of it, is true while rows are kept.
LEMMA WorkerStable ==
  ASSUME AccountsTypeOK, RowsKept, NEW w \in Workers, WorkerInv(w),
         pc'[w] = pc[w], req'[w] = req[w], answer'[w] = answer[w]
  PROVE  WorkerInv(w)'
<1>1. Fit(req[w], pc[w])'
  BY AdminsExist DEF WorkerInv, Fit, RowsKept, Exists
<1>2. Waiting(w)'
  BY DEF WorkerInv, Waiting
<1>3. Heard(req[w], answer[w])'
  <2>1. answer[w].code \in {"created", "token"} =>
          /\ answer[w].id \in Ids /\ users'[answer[w].id] # NoUser
          /\ users'[answer[w].id].email = req[w].email
          /\ users'[answer[w].id].password = users[answer[w].id].password
    BY DEF WorkerInv, Heard, RowsKept
  <2>2. answer[w].code \in {"email_taken", "ensured"} =>
          \E i \in Ids : /\ users'[i] # NoUser /\ users'[i].email = req[w].email
                         /\ answer[w].code = "ensured" => users'[i].role = "admin"
    BY DEF WorkerInv, Heard, RowsKept
  <2>3. answer[w].role = "admin" =>
          answer[w].id \in Ids /\ users'[answer[w].id].role = "admin"
    BY AdminsExist DEF WorkerInv, Heard, RowsKept
  <2> QED
    BY <2>1, <2>2, <2>3 DEF WorkerInv, Heard, Exists, Matches
<1> QED
  BY <1>1, <1>2, <1>3 DEF WorkerInv

\* Unless rows are added or changed, the table stays as it was.
LEMMA TableStands ==
  ASSUME AccountsTypeOK, UniqueInv, users' = users
  PROVE  RowsKept /\ UniqueInv'
  BY DEF RowsKept, UniqueInv, Exists

-----------------------------------------------------------------------------
(***************************************************************************)
(* Arrivals.                                                               *)
(***************************************************************************)
\* Refusals say nothing about an account.
Refusals == {"none", "invalid_input", "unhashed", "not_started", "unauthorized", "forbidden"}

\* A set of workers that grows or shrinks by one.
LEMMA PendingFinite == IsFiniteSet(Pending) /\ Cardinality(Pending) \in Nat
  BY BoundAssumption, FS_Subset, FS_CardinalityType DEF Pending

\* A request that arrives is refused, or fits the table when it gets to its
\* statement.
LEMMA AcceptKeeps ==
  ASSUME AccountsInv, NEW w \in Workers, NEW q \in Request, NEW refusal \in Refusals,
         NEW stage \in Stages \ {"idle"}, Accept(w, q, refusal, stage),
         refusal = "none" => Fit(q, stage),
         stage \in {"insert", "upsert"} => Room
  PROVE  AccountsInv'
<1>1. /\ pc[w] = "idle" /\ users' = users /\ serial' = serial /\ token' = token
      /\ req' = [req EXCEPT ![w] = IF refusal = "none" THEN q ELSE NoRequest]
      /\ pc' = [pc EXCEPT ![w] = IF refusal = "none" THEN stage ELSE "idle"]
      /\ answer' = [answer EXCEPT ![w] = Reply(refusal)]
  BY DEF Accept
<1>2. /\ AccountsTypeOK /\ UniqueInv /\ SerialInv /\ RowsKept /\ UniqueInv'
      /\ TokensAreBacked /\ \A v \in Workers : WorkerInv(v)
  BY <1>1, TableStands DEF AccountsInv
<1>3. /\ Reply(refusal) \in Answer
      /\ Reply(refusal) = [code |-> refusal, id |-> 0, role |-> "none"]
  BY ReplyOf DEF Refusals, Codes
<1>4. AccountsTypeOK'
  BY <1>1, <1>2, <1>3, Blank DEF AccountsTypeOK, Stages
<1>5. serial + Cardinality(Pending') <= MaxUsers
  <2>1. CASE refusal = "none" /\ stage \in {"insert", "upsert"}
    <3>1. Pending' = Pending \cup {w} /\ w \notin Pending
      BY <1>1, <1>2, <2>1 DEF Pending, AccountsTypeOK
    <3>2. Cardinality(Pending') = Cardinality(Pending) + 1
      BY <3>1, PendingFinite, FS_AddElement, Zenon
    <3> QED
      BY <2>1, <3>2, PendingFinite, BoundAssumption, <1>2 DEF Room, Pending, AccountsTypeOK
  <2>2. CASE ~(refusal = "none" /\ stage \in {"insert", "upsert"})
    <3>1. Pending' = Pending
      BY <1>1, <1>2, <2>2 DEF Pending, AccountsTypeOK
    <3> QED
      BY <1>2, <3>1 DEF SerialInv
  <2> QED
    BY <2>1, <2>2
<1>6. SerialInv' /\ TokensAreBacked'
  BY <1>1, <1>2, <1>5 DEF SerialInv, TokensAreBacked, Exists
<1>7. WorkerInv(w)'
  <2>1. /\ req'[w] = IF refusal = "none" THEN q ELSE NoRequest
        /\ pc'[w] = IF refusal = "none" THEN stage ELSE "idle"
        /\ answer'[w] = Reply(refusal)
    BY <1>1, <1>2 DEF AccountsTypeOK
  <2>2. Fit(req[w], pc[w])'
    BY <1>1, <2>1, Blank DEF Fit, Exists
  <2>3. Waiting(w)' /\ Heard(req[w], answer[w])'
    BY <1>3, <2>1, Blank DEF Waiting, Heard, Refusals
  <2> QED
    BY <2>2, <2>3 DEF WorkerInv
<1>8. \A v \in Workers : v # w => WorkerInv(v)'
  BY <1>1, <1>2, WorkerStable DEF AccountsTypeOK
<1> QED
  BY <1>2, <1>4, <1>6, <1>7, <1>8 DEF AccountsInv

\* Every request that may arrive.
LEMMA ArriveKeeps ==
  ASSUME AccountsInv, NEW w \in Workers, Arrive(w)
  PROVE  AccountsInv'
<1>1. ASSUME NEW s \in Spellings, NEW p \in Passwords, Register(w, s, p)
      PROVE  AccountsInv'
  <2> DEFINE q == [NoRequest EXCEPT !.op = "register", !.email = Norm[s], !.password = p]
             refusal == IF ~validateRegistration(s, p) THEN "invalid_input"
                        ELSE IF ~Hashable(p) THEN "unhashed" ELSE "none"
  <2>1. Room /\ Accept(w, q, refusal, "insert")
    BY <1>1 DEF Register, Normalized
  <2>2. q \in Request /\ Fit(q, "insert")
    BY SpellingAssumption, Zenon DEF NoRequest, Request, Ops, Fit
  <2>3. refusal \in Refusals
    BY DEF Refusals
  <2> HIDE DEF q, refusal
  <2> QED
    BY <2>1, <2>2, <2>3, AcceptKeeps DEF Stages
<1>2. ASSUME NEW s \in Spellings, NEW p \in Passwords, Login(w, s, p)
      PROVE  AccountsInv'
  <2> DEFINE q == [NoRequest EXCEPT !.op = "login", !.email = Norm[s], !.password = p]
  <2>1. Accept(w, q, "none", "select")
    BY <1>2 DEF Login, Normalized
  <2>2. q \in Request /\ Fit(q, "select")
    BY SpellingAssumption, Zenon DEF NoRequest, Request, Ops, Fit
  <2> HIDE DEF q
  <2> QED
    BY <2>1, <2>2, AcceptKeeps DEF Stages, Refusals
<1>3. ASSUME Me(w, token) PROVE AccountsInv'
  <2> PICK t : t = token
    OBVIOUS
  <2> DEFINE q == [NoRequest EXCEPT !.op = "me", !.id = t.id]
             refusal == IF Authenticated(t) THEN "none" ELSE "unauthorized"
  <2>1. Accept(w, q, refusal, "fetch")
    BY <1>3 DEF Me
  <2>2. t \in Token \cup {NoToken}
    BY DEF AccountsInv, AccountsTypeOK
  <2>3. q \in Request
    <3>1. t.id \in Ids \cup {0}
      BY <2>2 DEF Token, NoToken
    <3> QED
      BY <3>1, Zenon DEF NoRequest, Request, Ops
  <2>4. refusal = "none" => Fit(q, "fetch")
    BY <2>2 DEF NoRequest, Fit, Authenticated, Token, AccountsInv, TokensAreBacked
  <2>5. refusal \in Refusals
    BY DEF Refusals
  <2> HIDE DEF q, refusal
  <2> QED
    BY <2>1, <2>3, <2>4, <2>5, AcceptKeeps DEF Stages
<1>4. ASSUME NEW i \in Ids, PromoteToAdmin(w, token, i) PROVE AccountsInv'
  <2> PICK t : t = token
    OBVIOUS
  <2> DEFINE q == [NoRequest EXCEPT !.op = "promote", !.id = i, !.by = t]
             refusal == IF ~Authenticated(t) THEN "unauthorized"
                        ELSE IF ~RequireAdmin(t) THEN "forbidden" ELSE "none"
  <2>1. Accept(w, q, refusal, "update")
    BY <1>4 DEF PromoteToAdmin
  <2>2. t \in Token \cup {NoToken}
    BY DEF AccountsInv, AccountsTypeOK
  <2>3. q \in Request
    BY <2>2, Zenon DEF NoRequest, Request, Ops
  <2>4. refusal = "none" => Fit(q, "update")
    BY <2>2 DEF NoRequest, Fit, Authenticated, RequireAdmin, Token, AccountsInv, TokensAreBacked
  <2>5. refusal \in Refusals
    BY DEF Refusals
  <2> HIDE DEF q, refusal
  <2> QED
    BY <2>1, <2>3, <2>4, <2>5, AcceptKeeps DEF Stages
<1>5. ASSUME BootstrapAdmin(w) PROVE AccountsInv'
  <2> DEFINE q == [NoRequest EXCEPT !.op = "bootstrap", !.email = Norm[BootEmail],
                                    !.password = BootPassword]
             refusal == IF /\ Norm[BootEmail] \in Valid
                           /\ Length[BootPassword] >= minPasswordLen
                           /\ Hashable(BootPassword) THEN "none" ELSE "not_started"
  <2>1. Room /\ Accept(w, q, refusal, "upsert")
    BY <1>5 DEF BootstrapAdmin, Normalized
  <2>2. q \in Request /\ Fit(q, "upsert")
    BY SpellingAssumption, PasswordAssumption, Zenon DEF NoRequest, Request, Ops, Fit
  <2>3. refusal \in Refusals
    BY DEF Refusals
  <2> HIDE DEF q, refusal
  <2> QED
    BY <2>1, <2>2, <2>3, AcceptKeeps DEF Stages
<1> QED
  BY <1>1, <1>2, <1>3, <1>4, <1>5 DEF Arrive

-----------------------------------------------------------------------------
(***************************************************************************)
(* Statements.                                                             *)
(***************************************************************************)
\* A worker whose statement needs no id ends it, or goes on.
LEMMA PendingStands ==
  ASSUME AccountsTypeOK, NEW w \in Workers, NEW stage \in {"idle", "compare"},
         pc' = [pc EXCEPT ![w] = stage], serial' = serial,
         SerialInv, users' = users \/ RowsKept,
         \A i \in Ids : users'[i] # NoUser => Exists(i)
  PROVE  SerialInv'
<1>1. Pending' \subseteq Pending
  BY DEF Pending, AccountsTypeOK
<1>2. Cardinality(Pending') \in Nat /\ Cardinality(Pending') <= Cardinality(Pending)
  BY <1>1, PendingFinite, FS_Subset, FS_CardinalityType
<1> QED
  BY <1>2, PendingFinite, BoundAssumption DEF SerialInv, Exists, AccountsTypeOK

\* A worker that takes an id uses up the one kept for it.
LEMMA PendingTaken ==
  ASSUME AccountsTypeOK, SerialInv, NEW w \in Workers, pc[w] \in {"insert", "upsert"},
         pc' = [pc EXCEPT ![w] = "idle"]
  PROVE  /\ serial + 1 \in Ids /\ ~Exists(serial + 1)
         /\ serial + 1 + Cardinality(Pending') <= MaxUsers
<1>1. w \in Pending /\ Pending' = Pending \ {w}
  BY DEF Pending, AccountsTypeOK
<1>2. Cardinality(Pending') = Cardinality(Pending) - 1 /\ Cardinality(Pending') \in Nat
  BY <1>1, PendingFinite, FS_RemoveElement, FS_CardinalityType, FS_Subset
<1>3. serial \in Nat /\ serial + Cardinality(Pending) <= MaxUsers
  BY DEF AccountsTypeOK, SerialInv
<1>4. serial + 1 \in Ids /\ serial + 1 + Cardinality(Pending') <= MaxUsers
  BY <1>2, <1>3, PendingFinite, BoundAssumption DEF Ids
<1> QED
  BY <1>3, <1>4 DEF SerialInv

\* A handler that ends tells its client the truth, or has told it before that
\* it gave up.
LEMMA TellKeeps ==
  ASSUME AccountsTypeOK, NEW w \in Workers, WorkerInv(w), pc[w] # "idle",
         NEW reply \in Answer, Tell(w, reply), req' = req, Heard(req[w], reply)'
  PROVE  WorkerInv(w)' /\ answer' \in [Workers -> Answer] /\ pc' \in [Workers -> Stages]
<1>1. /\ pc' = [pc EXCEPT ![w] = "idle"]
      /\ answer' = [answer EXCEPT ![w] = IF @ = NoAnswer THEN reply ELSE @]
  BY DEF Tell
<1>2. pc'[w] = "idle" /\ answer'[w] \in {reply, Reply("internal")}
  BY <1>1 DEF AccountsTypeOK, WorkerInv, Waiting
<1>3. Fit(req[w], pc[w])' /\ Waiting(w)'
  BY <1>2 DEF Fit, Waiting
<1>4. Heard(req[w], answer[w])'
  <2>1. CASE answer'[w] = reply
    BY <2>1
  <2>2. CASE answer'[w] = Reply("internal")
    BY <2>2, ReplyOf DEF Heard, Codes
  <2> QED
    BY <1>2, <2>1, <2>2
<1> QED
  BY <1>1, <1>3, <1>4 DEF WorkerInv, AccountsTypeOK, Stages

\* A token that nobody replaces stays backed while rows are kept.
LEMMA TokenStands ==
  ASSUME AccountsTypeOK, TokensAreBacked, RowsKept, token' = token
  PROVE  TokensAreBacked'
  BY DEF AccountsTypeOK, TokensAreBacked, RowsKept, Exists, Token

\* One worker acts, the others are where they were.
LEMMA OneWorker ==
  ASSUME AccountsInv, NEW w \in Workers, RowsKept, AccountsTypeOK', SerialInv', UniqueInv',
         TokensAreBacked', WorkerInv(w)',
         \A v \in Workers : v # w => pc'[v] = pc[v] /\ req'[v] = req[v] /\ answer'[v] = answer[v]
  PROVE  AccountsInv'
<1>1. \A v \in Workers : v # w => WorkerInv(v)'
  BY WorkerStable DEF AccountsInv
<1> QED
  BY <1>1 DEF AccountsInv

\* A new row: the rows that are there stay, and its address is its own.
LEMMA NewRow ==
  ASSUME AccountsTypeOK, UniqueInv, NEW n \in Ids, ~Exists(n), NEW row \in Row,
         Holders(row.email) = {}, users' = [users EXCEPT ![n] = row]
  PROVE  /\ users' \in [Ids -> Row \cup {NoUser}] /\ users'[n] = row
         /\ RowsKept /\ UniqueInv'
         /\ \A i \in Ids : users'[i] # NoUser => Exists(i) \/ i = n
<1>1. /\ users' \in [Ids -> Row \cup {NoUser}] /\ users'[n] = row
      /\ \A i \in Ids : i # n => users'[i] = users[i]
  BY DEF AccountsTypeOK
<1>2. \A i \in Ids : Exists(i) => i # n /\ users[i].email # row.email
  BY DEF Holders
<1>3. RowsKept
  BY <1>1, <1>2 DEF RowsKept, Exists
<1>4. UniqueInv'
  BY <1>1, <1>2 DEF UniqueInv, Exists
<1> QED
  BY <1>1, <1>3, <1>4 DEF Exists

\* A row whose role becomes that of an administrator.
LEMMA Promoted ==
  ASSUME AccountsTypeOK, UniqueInv, NEW n \in Ids, Exists(n),
         users' = [users EXCEPT ![n] = [@ EXCEPT !.role = "admin"]]
  PROVE  /\ users' \in [Ids -> Row \cup {NoUser}]
         /\ users'[n].role = "admin" /\ users'[n].email = users[n].email
         /\ RowsKept /\ UniqueInv'
         /\ \A i \in Ids : users'[i] # NoUser => Exists(i)
<1> DEFINE row == [users[n] EXCEPT !.role = "admin"]
<1>1. users[n] \in Row
  BY DEF AccountsTypeOK, Exists
<1>2. /\ row \in Row /\ row.role = "admin"
      /\ row.email = users[n].email /\ row.password = users[n].password
  BY <1>1 DEF Row, Roles
<1> HIDE DEF row
<1>3. users'[n] = row /\ \A i \in Ids : i # n => users'[i] = users[i]
  BY DEF AccountsTypeOK, row
<1>4. users' \in [Ids -> Row \cup {NoUser}]
  BY <1>2, <1>3 DEF AccountsTypeOK, row
<1>5. RowsKept
  BY <1>2, <1>3, RowsExist DEF RowsKept, Exists
<1>6. UniqueInv'
  BY <1>2, <1>3 DEF UniqueInv, Exists
<1> QED
  BY <1>2, <1>3, <1>4, <1>5, <1>6 DEF Exists

\* INSERT of Register.
LEMMA InsertKeeps ==
  ASSUME AccountsInv, NEW w \in Workers, InsertUser(w)
  PROVE  AccountsInv'
<1> PICK q : q = req[w]
  OBVIOUS
<1> DEFINE row == [email |-> q.email, password |-> q.password, role |-> "user"]
           n == serial + 1
<1>1. /\ pc[w] = "insert" /\ serial' = n /\ token' = token /\ req' = req
      /\ \/ /\ Holders(q.email) = {}
            /\ users' = [users EXCEPT ![n] = row]
            /\ Tell(w, [code |-> "created", id |-> n, role |-> "user"])
         \/ /\ Holders(q.email) # {} /\ users' = users
            /\ Tell(w, Reply("email_taken"))
  BY DEF InsertUser, Turned
<1>2. /\ AccountsTypeOK /\ SerialInv /\ UniqueInv /\ TokensAreBacked /\ WorkerInv(w)
      /\ pc' = [pc EXCEPT ![w] = "idle"]
  BY <1>1 DEF AccountsInv, Tell
<1>3. n \in Ids /\ ~Exists(n) /\ n \in Nat /\ n + Cardinality(Pending') <= MaxUsers
  <2>1. n \in Ids /\ ~Exists(n) /\ n + Cardinality(Pending') <= MaxUsers
    BY <1>1, <1>2, PendingTaken, Zenon
  <2> QED
    BY <2>1 DEF Ids
<1>4. q.email \in Spellings /\ q.password \in Passwords /\ q \in Request
  BY <1>1, <1>2 DEF WorkerInv, Fit, AccountsTypeOK
<1>5. row \in Row /\ row.email = q.email
  BY <1>4 DEF Row, Roles
<1>6. \A v \in Workers : v # w => pc'[v] = pc[v] /\ req'[v] = req[v] /\ answer'[v] = answer[v]
  BY <1>1, <1>2 DEF Tell, AccountsTypeOK
<1>7. CASE /\ Holders(q.email) = {} /\ users' = [users EXCEPT ![n] = row]
           /\ Tell(w, [code |-> "created", id |-> n, role |-> "user"])
  <2>1. PICK k \in Ids : k = n
    BY <1>3
  <2> DEFINE reply == [code |-> "created", id |-> k, role |-> "user"]
  <2>2. /\ users' \in [Ids -> Row \cup {NoUser}] /\ users'[k] = row
        /\ RowsKept /\ UniqueInv'
        /\ \A i \in Ids : users'[i] # NoUser => Exists(i) \/ i = k
    BY <1>2, <1>3, <1>5, <1>7, <2>1, NewRow, Zenon
  <2>3. reply \in Answer /\ Tell(w, reply)
    BY <1>7, <2>1 DEF Answer, Codes, Roles
  <2>4. Heard(req[w], reply)'
    BY <1>1, <1>5, <2>2, RowsExist DEF Heard, Exists
  <2> HIDE DEF reply
  <2>5. WorkerInv(w)' /\ answer' \in [Workers -> Answer] /\ pc' \in [Workers -> Stages]
    BY <1>1, <1>2, <2>3, <2>4, TellKeeps
  <2>6. SerialInv'
    BY <1>1, <1>2, <1>3, <2>1, <2>2 DEF SerialInv, Exists, Ids, AccountsTypeOK
  <2>7. AccountsTypeOK'
    BY <1>1, <1>2, <1>3, <2>2, <2>5 DEF AccountsTypeOK
  <2> QED
    BY <1>1, <1>2, <1>6, <2>2, <2>5, <2>6, <2>7, TokenStands, OneWorker
<1>8. CASE Holders(q.email) # {} /\ users' = users /\ Tell(w, Reply("email_taken"))
  <2>1. RowsKept /\ UniqueInv'
    BY <1>2, <1>8, TableStands
  <2>2. Reply("email_taken") \in Answer
        /\ Reply("email_taken") = [code |-> "email_taken", id |-> 0, role |-> "none"]
    BY ReplyOf DEF Codes
  <2>3. Heard(req[w], Reply("email_taken"))'
    <3>1. Reply("email_taken").code = "email_taken" /\ Reply("email_taken").role = "none"
      BY <2>2
    <3> QED
      BY <1>1, <1>8, <3>1 DEF Heard, Holders, Exists
  <2>4. WorkerInv(w)' /\ answer' \in [Workers -> Answer] /\ pc' \in [Workers -> Stages]
    BY <1>1, <1>2, <1>8, <2>2, <2>3, TellKeeps
  <2>5. SerialInv'
    BY <1>1, <1>2, <1>3, <1>8 DEF SerialInv, Exists, Ids, AccountsTypeOK
  <2>6. AccountsTypeOK'
    BY <1>1, <1>2, <1>3, <1>8, <2>4 DEF AccountsTypeOK
  <2> QED
    BY <1>1, <1>2, <1>6, <2>1, <2>4, <2>5, <2>6, TokenStands, OneWorker
<1> QED
  BY <1>1, <1>7, <1>8

\* The upsert of BootstrapAdmin.
LEMMA UpsertKeeps ==
  ASSUME AccountsInv, NEW w \in Workers, UpsertAdmin(w)
  PROVE  AccountsInv'
<1> PICK q : q = req[w]
  OBVIOUS
<1> DEFINE row == [email |-> q.email, password |-> q.password, role |-> "admin"]
           n == serial + 1
           ensured == [code |-> "ensured", id |-> 0, role |-> "none"]
<1>1. /\ pc[w] = "upsert" /\ serial' = n /\ token' = token /\ req' = req
      /\ Tell(w, Reply("ensured"))
      /\ \/ Holders(q.email) = {} /\ users' = [users EXCEPT ![n] = row]
         \/ \E i \in Holders(q.email) :
              users' = [users EXCEPT ![i] = [@ EXCEPT !.role = "admin"]]
  BY DEF UpsertAdmin, PromotedRow
<1>2. /\ AccountsTypeOK /\ SerialInv /\ UniqueInv /\ TokensAreBacked /\ WorkerInv(w)
      /\ pc' = [pc EXCEPT ![w] = "idle"]
  BY <1>1 DEF AccountsInv, Tell
<1>3. n \in Ids /\ ~Exists(n) /\ n \in Nat /\ n + Cardinality(Pending') <= MaxUsers
  <2>1. n \in Ids /\ ~Exists(n) /\ n + Cardinality(Pending') <= MaxUsers
    BY <1>1, <1>2, PendingTaken, Zenon
  <2> QED
    BY <2>1 DEF Ids
<1>4. q.email \in Spellings /\ q.password \in Passwords
  BY <1>1, <1>2 DEF WorkerInv, Fit
<1>5. row \in Row /\ row.email = q.email /\ row.role = "admin"
  BY <1>4 DEF Row, Roles
<1>6. \A v \in Workers : v # w => pc'[v] = pc[v] /\ req'[v] = req[v] /\ answer'[v] = answer[v]
  BY <1>1, <1>2 DEF Tell, AccountsTypeOK
<1>7. PICK k \in Ids :
        /\ users' \in [Ids -> Row \cup {NoUser}] /\ RowsKept /\ UniqueInv'
        /\ users'[k] # NoUser /\ users'[k].email = q.email /\ users'[k].role = "admin"
        /\ \A i \in Ids : users'[i] # NoUser => Exists(i) \/ i = n
  <2>1. CASE Holders(q.email) = {} /\ users' = [users EXCEPT ![n] = row]
    BY <1>2, <1>3, <1>5, <2>1, NewRow, RowsExist, Zenon
  <2>2. ASSUME NEW i \in Holders(q.email),
               users' = [users EXCEPT ![i] = [@ EXCEPT !.role = "admin"]]
        PROVE  /\ i \in Ids /\ users' \in [Ids -> Row \cup {NoUser}] /\ RowsKept /\ UniqueInv'
               /\ users'[i] # NoUser /\ users'[i].email = q.email /\ users'[i].role = "admin"
               /\ \A j \in Ids : users'[j] # NoUser => Exists(j)
    <3>1. i \in Ids /\ Exists(i) /\ users[i].email = q.email
      BY <2>2 DEF Holders
    <3>2. /\ users' \in [Ids -> Row \cup {NoUser}]
          /\ users'[i].role = "admin" /\ users'[i].email = users[i].email
          /\ RowsKept /\ UniqueInv'
          /\ \A j \in Ids : users'[j] # NoUser => Exists(j)
      BY <1>2, <2>2, <3>1, Promoted, Zenon
    <3> QED
      BY <3>1, <3>2 DEF RowsKept
  <2> QED
    BY <1>1, <2>1, <2>2
<1>8. Reply("ensured") \in Answer /\ Reply("ensured") = ensured
  BY ReplyOf DEF Codes
<1>9. Heard(req[w], Reply("ensured"))'
  BY <1>1, <1>7, <1>8 DEF Heard, Exists
<1>10. WorkerInv(w)' /\ answer' \in [Workers -> Answer] /\ pc' \in [Workers -> Stages]
  BY <1>1, <1>2, <1>8, <1>9, TellKeeps
<1>11. SerialInv'
  BY <1>1, <1>2, <1>3, <1>7 DEF SerialInv, Exists, Ids, AccountsTypeOK
<1>12. AccountsTypeOK'
  BY <1>1, <1>2, <1>3, <1>7, <1>10 DEF AccountsTypeOK
<1> QED
  BY <1>1, <1>2, <1>6, <1>7, <1>10, <1>11, <1>12, TokenStands, OneWorker

\* A handler that ends and changes no row.
LEMMA ReadKeeps ==
  ASSUME AccountsInv, NEW w \in Workers, pc[w] # "idle", users' = users, serial' = serial,
         req' = req, token' \in Token \cup {NoToken}, TokensAreBacked',
         NEW reply \in Answer, Tell(w, reply), Heard(req[w], reply)'
  PROVE  AccountsInv'
<1>1. /\ AccountsTypeOK /\ SerialInv /\ UniqueInv /\ WorkerInv(w)
      /\ RowsKept /\ UniqueInv'
  BY TableStands DEF AccountsInv
<1>2. WorkerInv(w)' /\ answer' \in [Workers -> Answer] /\ pc' \in [Workers -> Stages]
  BY <1>1, TellKeeps
<1>3. SerialInv'
  BY <1>1, PendingStands, Zenon DEF Tell, Exists
<1>4. AccountsTypeOK'
  BY <1>1, <1>2 DEF AccountsTypeOK
<1>5. \A v \in Workers : v # w => pc'[v] = pc[v] /\ req'[v] = req[v] /\ answer'[v] = answer[v]
  BY <1>1 DEF Tell, AccountsTypeOK
<1> QED
  BY <1>1, <1>2, <1>3, <1>4, <1>5, OneWorker

\* SELECT of Login: what it finds is true of the row until the comparison, and
\* after it.
LEMMA SelectKeeps ==
  ASSUME AccountsInv, NEW w \in Workers, SelectUser(w)
  PROVE  AccountsInv'
<1>1. pc[w] = "select" /\ users' = users /\ serial' = serial /\ token' = token
  BY DEF SelectUser
<1>2. /\ AccountsTypeOK /\ SerialInv /\ UniqueInv /\ TokensAreBacked /\ WorkerInv(w)
      /\ RowsKept /\ UniqueInv'
  BY <1>1, TableStands DEF AccountsInv
<1>3. CASE Tell(w, Reply("invalid_credentials")) /\ req' = req
  <2>1. /\ Reply("invalid_credentials") \in Answer
        /\ Reply("invalid_credentials") = [code |-> "invalid_credentials", id |-> 0, role |-> "none"]
    BY ReplyOf DEF Codes
  <2>2. Heard(req[w], Reply("invalid_credentials"))'
    BY <2>1 DEF Heard
  <2>3. token' \in Token \cup {NoToken} /\ TokensAreBacked'
    BY <1>1, <1>2, TokenStands DEF AccountsTypeOK
  <2> QED
    BY <1>1, <1>3, <2>1, <2>2, <2>3, ReadKeeps
<1>4. ASSUME NEW i \in Holders(req[w].email), pc' = [pc EXCEPT ![w] = "compare"],
             req' = [req EXCEPT ![w].id = i, ![w].found = users[i]], answer' = answer
      PROVE  AccountsInv'
  <2>1. i \in Ids /\ users[i] # NoUser /\ users[i].email = req[w].email
    BY DEF Holders, Exists
  <2>2. users[i] \in Row /\ users[i].role \in Roles /\ req[w] \in Request
    BY <1>2, <2>1 DEF AccountsTypeOK, Row
  <2>3. /\ req'[w] \in Request /\ req'[w].id = i /\ req'[w].found = users[i]
        /\ req'[w].email = req[w].email /\ req'[w].op = req[w].op
    BY <1>2, <1>4, <2>1, <2>2, Zenon DEF AccountsTypeOK, Request
  <2>4. pc'[w] = "compare" /\ pc' \in [Workers -> Stages] /\ req' \in [Workers -> Request]
    BY <1>2, <1>4, <2>3 DEF AccountsTypeOK, Stages
  <2>5. AccountsTypeOK'
    BY <1>1, <1>2, <1>4, <2>4 DEF AccountsTypeOK
  <2>6. SerialInv'
    BY <1>1, <1>2, <1>4, PendingStands, Zenon DEF Exists
  <2>7. Fit(req[w], pc[w])'
    BY <1>1, <1>2, <2>1, <2>2, <2>3, <2>4 DEF WorkerInv, Fit, Exists
  <2>8. Waiting(w)' /\ answer[w] \in {NoAnswer, Reply("internal")}
    BY <1>1, <1>2, <1>4 DEF WorkerInv, Waiting
  <2>9. Heard(req[w], answer[w])'
    BY <1>4, <2>8, Blank, ReplyOf DEF Heard, Codes
  <2>10. \A v \in Workers : v # w => pc'[v] = pc[v] /\ req'[v] = req[v] /\ answer'[v] = answer[v]
    BY <1>2, <1>4 DEF AccountsTypeOK
  <2>11. WorkerInv(w)'
    BY <2>7, <2>8, <2>9 DEF WorkerInv
  <2> QED
    BY <1>1, <1>2, <2>5, <2>6, <2>10, <2>11, TokenStands, OneWorker
<1> QED
  BY <1>3, <1>4, Zenon DEF SelectUser

\* The comparison of Login, and the token it signs.
LEMMA CompareKeeps ==
  ASSUME AccountsInv, NEW w \in Workers, ComparePassword(w)
  PROVE  AccountsInv'
<1> PICK q, new : q = req[w] /\ new = [id |-> req[w].id, role |-> req[w].found.role]
  BY Zenon
<1>1. pc[w] = "compare" /\ users' = users /\ serial' = serial /\ req' = req
  BY Zenon DEF ComparePassword
<1>2. /\ AccountsTypeOK /\ TokensAreBacked /\ RowsKept
  BY <1>1, TableStands, Zenon DEF AccountsInv
<1>3. /\ q.id \in Ids /\ Exists(q.id) /\ users[q.id].email = q.email
      /\ users[q.id].password = q.found.password /\ q.found.role \in Roles
      /\ q.found.role = "admin" => users[q.id].role = "admin"
      /\ q.op # "me"
  BY <1>1, Zenon DEF AccountsInv, WorkerInv, Fit
<1>4. CASE /\ Matches(q.found.password, q.password) /\ token' \in {token, new}
           /\ Tell(w, [code |-> "token", id |-> q.id, role |-> new.role])
  <2> DEFINE reply == [code |-> "token", id |-> q.id, role |-> new.role]
  <2>1. new \in Token /\ new.id = q.id /\ new.role = q.found.role
    BY <1>3, Zenon DEF Token
  <2>2. token' \in Token \cup {NoToken}
    BY <1>2, <1>4, <2>1 DEF AccountsTypeOK
  <2>3. TokensAreBacked'
    <3>1. CASE token' = token
      BY <1>2, <3>1, TokenStands
    <3>2. CASE token' = new
      BY <1>1, <1>3, <2>1, <3>2, Zenon DEF TokensAreBacked, Exists
    <3> QED
      BY <1>4, <3>1, <3>2
  <2>4. reply \in Answer
    BY <1>3, <2>1 DEF Answer, Codes
  <2>5. Heard(req[w], reply)'
    BY <1>1, <1>3, <1>4, <2>1, Zenon DEF Heard, Exists, Matches
  <2> HIDE DEF reply
  <2>6. Tell(w, reply)
    BY <1>4 DEF reply
  <2> QED
    BY <1>1, <2>2, <2>3, <2>4, <2>5, <2>6, ReadKeeps, Zenon
<1>5. CASE token' = token /\ Tell(w, Reply("invalid_credentials"))
  <2>1. /\ Reply("invalid_credentials") \in Answer
        /\ Reply("invalid_credentials") = [code |-> "invalid_credentials", id |-> 0, role |-> "none"]
    BY ReplyOf DEF Codes
  <2>2. Heard(req[w], Reply("invalid_credentials"))'
    BY <2>1 DEF Heard
  <2>3. token' \in Token \cup {NoToken} /\ TokensAreBacked'
    BY <1>2, <1>5, TokenStands DEF AccountsTypeOK
  <2> QED
    BY <1>1, <1>5, <2>1, <2>2, <2>3, ReadKeeps, Zenon
<1> QED
  BY <1>4, <1>5, Zenon DEF ComparePassword, GenerateToken, ClaimedRole

\* The SELECT of Me finds the row.
LEMMA FetchKeeps ==
  ASSUME AccountsInv, NEW w \in Workers, FetchUser(w)
  PROVE  AccountsInv'
<1> PICK i, role : i = req[w].id /\ role = users[req[w].id].role
  OBVIOUS
<1> DEFINE reply == [code |-> "me", id |-> i, role |-> role]
<1>1. /\ pc[w] = "fetch" /\ users' = users /\ serial' = serial /\ req' = req /\ token' = token
  BY DEF FetchUser
<1>2. AccountsTypeOK /\ TokensAreBacked /\ RowsKept
  BY <1>1, TableStands DEF AccountsInv
<1>3. i \in Ids /\ Exists(i)
  BY <1>1 DEF AccountsInv, WorkerInv, Fit
<1>4. Tell(w, reply)
  BY <1>3 DEF FetchUser
<1>5. role \in Roles
  BY <1>2, <1>3 DEF AccountsTypeOK, Exists, Row
<1>6. reply \in Answer
  BY <1>3, <1>5 DEF Answer, Codes
<1>7. Heard(req[w], reply)'
  BY <1>1, <1>3 DEF Heard
<1>8. token' \in Token \cup {NoToken} /\ TokensAreBacked'
  BY <1>1, <1>2, TokenStands DEF AccountsTypeOK
<1> HIDE DEF reply
<1> QED
  BY <1>1, <1>4, <1>6, <1>7, <1>8, ReadKeeps

\* The UPDATE of PromoteToAdmin.
LEMMA UpdateKeeps ==
  ASSUME AccountsInv, NEW w \in Workers, UpdateRole(w)
  PROVE  AccountsInv'
<1> PICK i : i = req[w].id
  OBVIOUS
<1>1. pc[w] = "update" /\ serial' = serial /\ req' = req /\ token' = token
  BY DEF UpdateRole
<1>2. AccountsTypeOK /\ SerialInv /\ UniqueInv /\ TokensAreBacked /\ WorkerInv(w)
  BY DEF AccountsInv
<1>3. i \in Ids /\ req[w].op # "me"
  BY <1>1, <1>2 DEF WorkerInv, Fit
<1>4. CASE /\ Exists(i) /\ users' = [users EXCEPT ![i].role = "admin"]
           /\ Tell(w, [code |-> "promoted", id |-> i, role |-> "admin"])
  <2> DEFINE reply == [code |-> "promoted", id |-> i, role |-> "admin"]
  <2>1. users' = [users EXCEPT ![i] = [@ EXCEPT !.role = "admin"]]
    BY <1>4
  <2>2. /\ users' \in [Ids -> Row \cup {NoUser}]
        /\ users'[i].role = "admin" /\ RowsKept /\ UniqueInv'
        /\ \A j \in Ids : users'[j] # NoUser => Exists(j)
    BY <1>2, <1>3, <1>4, <2>1, Promoted, Zenon
  <2>3. reply \in Answer
    BY <1>3 DEF Answer, Codes, Roles
  <2>4. Heard(req[w], reply)'
    BY <1>3, <2>2 DEF Heard
  <2> HIDE DEF reply
  <2>5. Tell(w, reply)
    BY <1>4 DEF reply
  <2>6. WorkerInv(w)' /\ answer' \in [Workers -> Answer] /\ pc' \in [Workers -> Stages]
    BY <1>1, <1>2, <2>3, <2>4, <2>5, TellKeeps
  <2>7. SerialInv'
    BY <1>1, <1>2, <2>2, <2>5, PendingStands, Zenon DEF Tell
  <2>8. AccountsTypeOK'
    BY <1>1, <1>2, <2>2, <2>6 DEF AccountsTypeOK
  <2>9. \A v \in Workers : v # w => pc'[v] = pc[v] /\ req'[v] = req[v] /\ answer'[v] = answer[v]
    BY <1>1, <1>2, <2>5 DEF Tell, AccountsTypeOK
  <2> QED
    BY <1>1, <1>2, <2>2, <2>6, <2>7, <2>8, <2>9, TokenStands, OneWorker
<1>5. CASE users' = users /\ Tell(w, Reply("user_not_found"))
  <2>1. /\ Reply("user_not_found") \in Answer
        /\ Reply("user_not_found") = [code |-> "user_not_found", id |-> 0, role |-> "none"]
    BY ReplyOf DEF Codes
  <2>2. Heard(req[w], Reply("user_not_found"))'
    BY <1>1, <1>3, <2>1 DEF Heard
  <2>3. RowsKept
    BY <1>2, <1>5, TableStands
  <2>4. token' \in Token \cup {NoToken} /\ TokensAreBacked'
    BY <1>1, <1>2, <2>3, TokenStands, Zenon DEF AccountsTypeOK
  <2> QED
    BY <1>1, <1>5, <2>1, <2>2, <2>4, ReadKeeps
<1> QED
  BY <1>4, <1>5 DEF UpdateRole

\* A statement fails: the client is told so.
LEMMA FailKeeps ==
  ASSUME AccountsInv, NEW w \in Workers, StatementFails(w)
  PROVE  AccountsInv'
<1>1. /\ pc[w] # "idle" /\ Tell(w, Reply("internal")) /\ users' = users
      /\ serial' = serial /\ token' = token /\ req' = [req EXCEPT ![w] = NoRequest]
  BY DEF StatementFails
<1>2. /\ AccountsTypeOK /\ SerialInv /\ UniqueInv /\ TokensAreBacked /\ WorkerInv(w)
      /\ RowsKept /\ UniqueInv'
  BY <1>1, TableStands DEF AccountsInv
<1>3. /\ Reply("internal") \in Answer
      /\ Reply("internal") = [code |-> "internal", id |-> 0, role |-> "none"]
  BY ReplyOf DEF Codes
<1>4. pc'[w] = "idle" /\ req'[w] = NoRequest /\ answer'[w] = Reply("internal")
  BY <1>1, <1>2 DEF AccountsTypeOK, WorkerInv, Waiting, Tell
<1>5. Fit(req[w], pc[w])' /\ Waiting(w)'
  BY <1>4, Blank DEF Fit, Waiting
<1>6. Heard(req[w], answer[w])'
  <2>1. answer'[w].code = "internal" /\ answer'[w].role = "none"
    BY <1>3, <1>4
  <2> QED
    BY <2>1 DEF Heard
<1>7. AccountsTypeOK'
  BY <1>1, <1>2, <1>3, Blank DEF AccountsTypeOK, Stages, Tell
<1>8. SerialInv'
  BY <1>1, <1>2, PendingStands, Zenon DEF Tell, Exists
<1>9. \A v \in Workers : v # w => pc'[v] = pc[v] /\ req'[v] = req[v] /\ answer'[v] = answer[v]
  BY <1>1, <1>2 DEF Tell, AccountsTypeOK
<1>10. WorkerInv(w)'
  BY <1>5, <1>6 DEF WorkerInv
<1> QED
  BY <1>1, <1>2, <1>7, <1>8, <1>9, <1>10, TokenStands, OneWorker, Zenon

\* A handler gives up on a write that may still take effect.
LEMMA GiveUpKeeps ==
  ASSUME AccountsInv, NEW w \in Workers, GiveUp(w)
  PROVE  AccountsInv'
<1>1. /\ users' = users /\ serial' = serial /\ token' = token /\ pc' = pc /\ req' = req
      /\ answer' = [answer EXCEPT ![w] = Reply("internal")]
  BY DEF GiveUp
<1>2. /\ AccountsTypeOK /\ SerialInv /\ UniqueInv /\ TokensAreBacked /\ WorkerInv(w)
      /\ RowsKept /\ UniqueInv'
  BY <1>1, TableStands DEF AccountsInv
<1>3. /\ Reply("internal") \in Answer
      /\ Reply("internal") = [code |-> "internal", id |-> 0, role |-> "none"]
  BY ReplyOf DEF Codes
<1>4. answer'[w] = Reply("internal")
  BY <1>1, <1>2 DEF AccountsTypeOK
<1>5. Fit(req[w], pc[w])' /\ Waiting(w)'
  BY <1>1, <1>2, <1>4, Zenon DEF WorkerInv, Fit, Waiting, Exists
<1>6. Heard(req[w], answer[w])'
  <2>1. answer'[w].code = "internal" /\ answer'[w].role = "none"
    BY <1>3, <1>4
  <2> QED
    BY <2>1 DEF Heard
<1>7. AccountsTypeOK'
  BY <1>1, <1>2, <1>3 DEF AccountsTypeOK
<1>8. SerialInv'
  BY <1>1, <1>2 DEF SerialInv, Pending, Exists
<1>9. \A v \in Workers : v # w => pc'[v] = pc[v] /\ req'[v] = req[v] /\ answer'[v] = answer[v]
  BY <1>1, <1>2 DEF AccountsTypeOK
<1>10. WorkerInv(w)'
  BY <1>5, <1>6 DEF WorkerInv
<1> QED
  BY <1>1, <1>2, <1>7, <1>8, <1>9, <1>10, TokenStands, OneWorker

\* Nothing but the token changes, and it expires.
LEMMA ExpireKeeps ==
  ASSUME AccountsInv, UNCHANGED <<users, serial, pc, req, answer>>, token' \in {token, NoToken}
  PROVE  AccountsInv'
<1>1. /\ AccountsTypeOK /\ SerialInv /\ UniqueInv /\ TokensAreBacked
      /\ RowsKept /\ UniqueInv' /\ \A w \in Workers : WorkerInv(w)
  BY TableStands DEF AccountsInv
<1>2. AccountsTypeOK' /\ SerialInv'
  BY <1>1 DEF AccountsTypeOK, SerialInv, Pending, Exists
<1>3. TokensAreBacked'
  BY <1>1 DEF TokensAreBacked, Exists
<1>4. \A w \in Workers : WorkerInv(w)'
  BY <1>1, WorkerStable
<1> QED
  BY <1>1, <1>2, <1>3, <1>4 DEF AccountsInv

-----------------------------------------------------------------------------
(***************************************************************************)
(* The theorems.                                                           *)
(***************************************************************************)
\* AccountsInv is preserved by every step.
LEMMA NextAccountsInv == AccountsInv /\ [NextAccounts]_accountVars => AccountsInv'
<1> SUFFICES ASSUME AccountsInv, [NextAccounts]_accountVars PROVE AccountsInv'
  OBVIOUS
<1>1. ASSUME NEW w \in Workers, Step(w) PROVE AccountsInv'
  BY <1>1, InsertKeeps, UpsertKeeps, SelectKeeps, CompareKeeps, FetchKeeps, UpdateKeeps DEF Step
<1>2. CASE Expire
  BY <1>2, ExpireKeeps DEF Expire
<1>3. CASE UNCHANGED accountVars
  BY <1>3, ExpireKeeps DEF accountVars
<1> QED
  BY <1>1, <1>2, <1>3, ArriveKeeps, FailKeeps, GiveUpKeeps DEF NextAccounts

\* AccountsInv holds in every reachable state.
LEMMA AccountsInductive == SpecAccounts => []AccountsInv
<1>1. InitAccounts => AccountsInv
  <2> SUFFICES ASSUME InitAccounts PROVE AccountsInv
    OBVIOUS
  <2>1. AccountsTypeOK
    BY Blank, ReplyOf DEF InitAccounts, AccountsTypeOK, Stages, Codes
  <2>2. Cardinality(Pending) = 0
    BY FS_EmptySet DEF InitAccounts, Pending
  <2>3. SerialInv /\ UniqueInv /\ TokensAreBacked
    BY <2>2, BoundAssumption DEF InitAccounts, SerialInv, UniqueInv, TokensAreBacked, Exists
  <2>4. ASSUME NEW w \in Workers PROVE WorkerInv(w)
    BY Blank, ReplyOf DEF InitAccounts, WorkerInv, Fit, Waiting, Heard, Codes
  <2> QED
    BY <2>1, <2>3, <2>4 DEF AccountsInv
<1> QED
  BY <1>1, NextAccountsInv, PTL DEF SpecAccounts

\* The role that RequireAdmin reads from a token is never more than the account
\* has in the table at that moment, whatever happened since the login.
THEOREM TokensBacked == SpecAccounts => []TokensAreBacked
<1>1. AccountsInv => TokensAreBacked
  BY DEF AccountsInv
<1> QED
  BY <1>1, AccountsInductive, PTL

\* The row of an address that an account has.
LEMMA RowOfHolder ==
  ASSUME UniqueInv, NEW i \in Ids, Exists(i)
  PROVE  RowOf(users[i].email) = users[i]
<1>1. Holders(users[i].email) = {i}
  BY DEF Holders, UniqueInv
<1> QED
  BY <1>1 DEF RowOf

\* What the handlers of Register, Login, Me, PromoteToAdmin and BootstrapAdmin
\* told their clients about an account stays true for ever; a token went only to
\* somebody whose password agrees with that of the account in what bcrypt compares.
THEOREM AccountAnswersTrue == SpecAccounts => []AccountAnswersHold
<1>1. AccountsInv => AccountAnswersHold
  <2> SUFFICES ASSUME AccountsInv, NEW w \in Workers
               PROVE  LET a == answer[w]
                          row == RowOf(req[w].email)
                      IN  /\ a.code \in {"created", "token"} => row = users[a.id]
                          /\ a.code = "created" => row.password = req[w].password
                          /\ a.code = "token" => Matches(row.password, req[w].password)
                          /\ a.code \in {"email_taken", "ensured"} => row # NoUser
                          /\ a.code = "ensured" => row.role = "admin"
                          /\ a.role = "admin" => users[a.id].role = "admin"
                          /\ req[w].op = "me" => a.code # "user_not_found"
    BY DEF AccountAnswersHold
  <2>1. UniqueInv /\ Heard(req[w], answer[w])
    BY DEF AccountsInv, WorkerInv
  <2>2. ASSUME answer[w].code \in {"created", "token"}
        PROVE  RowOf(req[w].email) = users[answer[w].id]
    BY <2>1, <2>2, RowOfHolder DEF Heard
  <2>3. ASSUME answer[w].code \in {"email_taken", "ensured"}
        PROVE  /\ RowOf(req[w].email) # NoUser
               /\ answer[w].code = "ensured" => RowOf(req[w].email).role = "admin"
    BY <2>1, <2>3, RowOfHolder DEF Heard, Exists
  <2> QED
    BY <2>1, <2>2, <2>3 DEF Heard
<1> QED
  BY <1>1, AccountsInductive, PTL

\* A step changes the role of a row only as the upsert of the configured
\* account, or as the UPDATE of a request whose sender is an administrator.
LEMMA ElevatedStep ==
  ASSUME AccountsInv, [NextAccounts]_accountVars, NEW i \in Ids
  PROVE  Elevated(i)
<1> SUFFICES ASSUME users'[i].role = "admin", users[i].role # "admin"
             PROVE  \/ users'[i].email = Norm[BootEmail]
                    \/ \E w \in Workers : /\ pc[w] = "update" /\ req[w].id = i
                                          /\ users[req[w].by.id].role = "admin"
  BY DEF Elevated
<1>1. users' # users
  OBVIOUS
<1>2. PICK w \in Workers : InsertUser(w) \/ UpsertAdmin(w) \/ UpdateRole(w)
  <2>1. ASSUME NEW w \in Workers, Arrive(w) PROVE users' = users
    BY <2>1, Zenon DEF Arrive, Register, Login, Me, PromoteToAdmin, BootstrapAdmin, Accept
  <2>2. ASSUME NEW w \in Workers, \/ SelectUser(w) \/ ComparePassword(w) \/ FetchUser(w)
                                  \/ StatementFails(w) \/ GiveUp(w)
        PROVE  users' = users
    BY <2>2 DEF SelectUser, ComparePassword, FetchUser, StatementFails, GiveUp
  <2> QED
    BY <1>1, <2>1, <2>2, Zenon DEF NextAccounts, accountVars, Step, Expire
<1>3. AccountsTypeOK /\ Fit(req[w], pc[w])
  BY DEF AccountsInv, WorkerInv
<1>4. CASE InsertUser(w)
  BY <1>1, <1>3, <1>4 DEF InsertUser, Turned, AccountsTypeOK
<1>5. CASE UpsertAdmin(w)
  <2>1. req[w].email = Norm[BootEmail]
    BY <1>3, <1>5, Zenon DEF UpsertAdmin, Fit
  <2>2. ASSUME NEW j \in Holders(req[w].email), users' = [users EXCEPT ![j] = PromotedRow(w, j)]
        PROVE  users'[i].email = Norm[BootEmail]
    <3>1. j \in Ids /\ users[j].email = req[w].email /\ users[j] \in Row
      BY <1>3, <2>2, Zenon DEF Holders, Exists, AccountsTypeOK
    <3>2. i = j
      BY <1>3, <2>2, <3>1 DEF AccountsTypeOK
    <3> QED
      BY <1>3, <2>1, <2>2, <3>1, <3>2 DEF AccountsTypeOK, PromotedRow, Row
  <2>3. ASSUME users' = [users EXCEPT ![serial'] = [email |-> req[w].email,
                                      password |-> req[w].password, role |-> "admin"]]
        PROVE  users'[i].email = Norm[BootEmail]
    BY <1>3, <2>1, <2>3, Zenon DEF AccountsTypeOK
  <2> QED
    BY <1>5, <2>2, <2>3, Zenon DEF UpsertAdmin
<1>6. CASE UpdateRole(w)
  <2>1. pc[w] = "update" /\ users[req[w].by.id].role = "admin"
    BY <1>3, <1>6 DEF UpdateRole, Fit
  <2>2. req[w].id = i
    BY <1>1, <1>3, <1>6 DEF UpdateRole, AccountsTypeOK
  <2> QED
    BY <2>1, <2>2, Zenon
<1> QED
  BY <1>2, <1>4, <1>5, <1>6, Zenon

\* Nobody becomes an administrator but the bootstrap account and those whom an
\* administrator promotes, also when the token of the request has expired since.
THEOREM PromotionIsAuthorised == SpecAccounts => OnlyAdminsPromote
<1>1. AccountsInv /\ [NextAccounts]_accountVars => [\A i \in Ids : Elevated(i)]_accountVars
  BY ElevatedStep
<1> QED
  BY <1>1, AccountsInductive, PTL DEF SpecAccounts, OnlyAdminsPromote

-----------------------------------------------------------------------------
(***************************************************************************)
(* The tool that registers and logs in the users of a load test            *)
(* (SetupUsers).  Its symbols are declared here: the proofs above do not   *)
(* need them.                                                              *)
(***************************************************************************)
\* The size of a set, whichever Cardinality is in use.
Size(S) == Cardinality(S)
Finite(S) == IsFiniteSet(S)

\* The definition of the standard module.
LEMMA SizeIsDefined ==
  \A S : Size(S) = LET CS[T \in SUBSET S] ==
                         IF T = {} THEN 0 ELSE 1 + CS[T \ {CHOOSE x : x \in T}]
                   IN  CS[S]
  BY DEF Size, Cardinality

\* No user is counted at first.
LEMMA NoneCounted == Size({}) = 0
  BY FS_EmptySet DEF Size

\* A user that was not counted makes one more.
LEMMA OneMoreCounted ==
  ASSUME NEW S, NEW x, Finite(S), x \notin S
  PROVE  Size(S \cup {x}) = Size(S) + 1
  BY FS_AddElement, Zenon DEF Size, Finite

\* There are finitely many jobs.
LEMMA RangeFinite ==
  ASSUME NEW n \in Nat
  PROVE  \A S \in SUBSET (0..(n - 1)) : Finite(S)
<1>1. IsFiniteSet(0..(n - 1))
  BY FS_Interval
<1> QED
  BY <1>1, FS_Subset, Zenon DEF Finite

\* Workers are the goroutines of the tool now; its users have another name than
\* the table of Accounts.
CONSTANTS N, MaxFaults, MaxRuns
VARIABLES accounts, file, main, next, at, job, code, err, held, firstErr,
          registered, preexisting, runs, faults, before
INSTANCE SetupUsers WITH users <- held

\* SetupUsers counts with the same Cardinality.
LEMMA SizeInSetup == \A S : Size(S) = Cardinality(S)
<1>1. \A S : Cardinality(S) = LET CS[T \in SUBSET S] ==
                                    IF T = {} THEN 0 ELSE 1 + CS[T \ {CHOOSE x : x \in T}]
                              IN  CS[S]
  BY DEF Cardinality
<1> QED
  BY <1>1, SizeIsDefined, Zenon

\* Where a worker can be.
Places == {"idle", "register", "login", "record", "gone"}

\* The types of what the other parts speak of.
SetupTypeOK ==
  /\ accounts \subseteq Jobs /\ file \subseteq Jobs
  /\ main \in {"admin", "send", "wait", "write", "failed", "printed"}
  /\ next \in 0..N
  /\ at \in [Workers -> Places]
  /\ job \in [Workers -> Jobs \cup {NoJob}]
  /\ code \in [Workers -> {0, 201, 409, 429, 500}]
  /\ held \subseteq Jobs
  /\ registered \in Nat /\ preexisting \in Nat
  /\ before \subseteq Jobs

\* Workers with a job that is not recorded yet.
Busy == {w \in Workers : at[w] \in {"register", "login", "record"}}

\* The jobs handed out so far are the recorded ones and one per busy worker.
PoolInv ==
  /\ \A w \in Busy : job[w] \in 0..(next - 1)
  /\ \A v, w \in Busy : job[v] = job[w] => v = w

\* Until there is an error, the held with a token are the recorded jobs.
TokensInv ==
  /\ held \subseteq 0..(next - 1)
  /\ \A w \in Busy : job[w] \notin held
  /\ ~firstErr =>
       \A j \in 0..(next - 1) : j \in held \/ \E w \in Busy : job[w] = j

\* An account is new in this run only if its job has been past register, and
\* the answer to register says which ones are.
KnownInv ==
  /\ before \subseteq accounts /\ held \subseteq accounts
  /\ \A j \in accounts \ before : j < next
  /\ \A w \in Workers : at[w] = "register" /\ job[w] \in accounts => job[w] \in before
  /\ \A w \in Workers :
       at[w] \in {"login", "record"} /\ w \notin err =>
         job[w] \in accounts /\ code[w] = IF job[w] \in before THEN 409 ELSE 201

\* The counters that are printed.
CountersInv ==
  ~firstErr => /\ registered = Size(held \ before)
               /\ preexisting = Size(held \cap before)

\* main is past the loop, the workers and the file only when they are done.
MainInv ==
  /\ main \in {"wait", "write", "printed"} => next = N
  /\ main \in {"write", "printed"} => ~firstErr /\ Busy = {}
  /\ main = "printed" => file = held

\* The inductive invariant.
SetupInv ==
  /\ SetupTypeOK /\ PoolInv /\ TokensInv /\ KnownInv /\ CountersInv /\ MainInv

-----------------------------------------------------------------------------
\* A run that starts has nothing handed out, recorded or counted.
LEMMA FreshRun ==
  ASSUME next = 0, Busy = {}, held = {}, firstErr = FALSE,
         registered = 0, preexisting = 0, before = accounts, main = "admin",
         at = [w \in Workers |-> "idle"]
  PROVE  PoolInv /\ TokensInv /\ KnownInv /\ CountersInv /\ MainInv
<1>1. PoolInv /\ TokensInv /\ MainInv
  BY DEF PoolInv, TokensInv, MainInv
<1>2. KnownInv
  BY DEF KnownInv
<1>3. CountersInv
  BY NoneCounted DEF CountersInv
<1>4. QED BY <1>1, <1>2, <1>3

\* The first run is such a run.
LEMMA InitSetupInv ==
  ASSUME N \in Nat
  PROVE  InitSetup => SetupInv
<1> SUFFICES ASSUME InitSetup PROVE SetupInv
  OBVIOUS
<1>1. SetupTypeOK
  BY DEF InitSetup, SetupTypeOK, Places, NoJob
<1>2. Busy = {}
  BY DEF InitSetup, Busy
<1>3. QED BY <1>1, <1>2, FreshRun, Zenon DEF InitSetup, SetupInv

\* Types; that a busy worker has a job comes from PoolInv.
LEMMA TypeSetup ==
  ASSUME N \in Nat, SetupTypeOK, PoolInv, [NextSetup]_setupVars
  PROVE  SetupTypeOK'
<1> USE DEF SetupTypeOK, Goto, Fault, NoFault, poolVars, workVars, Places
<1>1. CASE AdminLogin \/ CloseJobs \/ AllDone \/ WriteFile
  BY <1>1 DEF AdminLogin, CloseJobs, AllDone, WriteFile
<1>2. ASSUME NEW w \in Workers, Send(w) PROVE SetupTypeOK'
  BY <1>2 DEF Send, MoreJobs, Jobs
<1>3. ASSUME NEW w \in Workers, WorkerEnds(w) \/ LoginUser(w) PROVE SetupTypeOK'
  BY <1>3 DEF WorkerEnds, LoginUser
<1>4. ASSUME NEW w \in Workers, RegisterUser(w) PROVE SetupTypeOK'
  <2>1. job[w] \in Jobs
    BY <1>4 DEF RegisterUser, PoolInv, Busy, Jobs
  <2>2. QED BY <1>4, <2>1 DEF RegisterUser, Accepted
<1>5. ASSUME NEW w \in Workers, RecordUser(w) PROVE SetupTypeOK'
  <2>1. job[w] \in Jobs
    BY <1>5 DEF RecordUser, PoolInv, Busy, Jobs
  <2>2. QED BY <1>5, <2>1 DEF RecordUser, AfterJob, firstErrKept
<1>6. CASE Rerun
  BY <1>6 DEF Rerun, NoJob
<1>7. CASE UNCHANGED setupVars
  BY <1>7 DEF setupVars
<1>8. QED BY <1>1, <1>2, <1>3, <1>4, <1>5, <1>6, <1>7, Zenon DEF NextSetup, RunSetup

\* Every job is handed out once.
LEMMA PoolSetup ==
  ASSUME SetupTypeOK, PoolInv, [NextSetup]_setupVars
  PROVE  PoolInv'
<1> USE DEF SetupTypeOK, PoolInv, Busy, Places, Goto, poolVars
<1>1. CASE AdminLogin \/ CloseJobs \/ AllDone \/ WriteFile
  BY <1>1 DEF AdminLogin, CloseJobs, AllDone, WriteFile
<1>2. ASSUME NEW w \in Workers, Send(w) PROVE PoolInv'
  BY <1>2 DEF Send
<1>3. ASSUME NEW w \in Workers,
             WorkerEnds(w) \/ RegisterUser(w) \/ LoginUser(w) \/ RecordUser(w)
      PROVE  PoolInv'
  BY <1>3 DEF WorkerEnds, RegisterUser, LoginUser, RecordUser, AfterJob
<1>4. CASE Rerun
  BY <1>4 DEF Rerun
<1>5. CASE UNCHANGED setupVars
  BY <1>5 DEF setupVars
<1>6. QED BY <1>1, <1>2, <1>3, <1>4, <1>5, Zenon DEF NextSetup, RunSetup

\* Until there is an error, what is handed out and not busy has a token.
LEMMA TokensSetup ==
  ASSUME SetupTypeOK, PoolInv, TokensInv, [NextSetup]_setupVars
  PROVE  TokensInv'
<1> USE DEF SetupTypeOK, TokensInv, Busy, Goto, poolVars, workVars
<1>1. CASE AdminLogin \/ CloseJobs \/ AllDone \/ WriteFile
  <2>1. UNCHANGED <<next, at, job, held, firstErr>>
    BY <1>1, Zenon DEF AdminLogin, CloseJobs, AllDone, WriteFile
  <2>2. QED BY <2>1, Zenon
<1>2. ASSUME NEW w \in Workers, Send(w) PROVE TokensInv'
  <2>1. Busy' = Busy \cup {w} /\ w \notin Busy /\ job'[w] = next /\ next' = next + 1
    BY <1>2 DEF Send, Places
  <2>2. \A v \in Busy : job'[v] = job[v]
    BY <1>2, <2>1 DEF Send
  <2>3. QED BY <1>2, <2>1, <2>2 DEF Send
<1>3. ASSUME NEW w \in Workers, WorkerEnds(w) \/ RegisterUser(w) \/ LoginUser(w)
      PROVE  TokensInv'
  <2>1. Busy' = Busy /\ UNCHANGED <<job, next, held, firstErr>>
    BY <1>3 DEF WorkerEnds, RegisterUser, LoginUser, Places
  <2>2. QED BY <2>1
<1>4. ASSUME NEW w \in Workers, RecordUser(w) PROVE TokensInv'
  <2>1. /\ at[w] = "record" /\ at' = [at EXCEPT ![w] = "idle"]
        /\ UNCHANGED <<job, next>>
    BY <1>4, Zenon DEF RecordUser, AfterJob
  <2>2. /\ held' = IF w \in err THEN held ELSE held \cup {job[w]}
        /\ ~firstErr' => ~firstErr /\ w \notin err
    BY <1>4, Zenon DEF RecordUser, firstErrKept
  <2>3. w \in Busy /\ Busy' = Busy \ {w}
    BY <2>1 DEF Places
  <2> HIDE DEF Busy
  <2>4. held' \subseteq held \cup {job[w]}
    BY <2>2
  <2>5. held' \subseteq 0..(next' - 1)
    <3>1. job[w] \in 0..(next - 1)
      BY <2>3 DEF PoolInv
    <3>2. QED BY <2>1, <2>4, <3>1
  <2>6. ASSUME NEW v \in Busy' PROVE job'[v] \notin held'
    <3>1. v \in Busy /\ v # w
      BY <2>3
    <3>2. job[v] # job[w]
      BY <2>3, <3>1 DEF PoolInv
    <3>3. job[v] \notin held
      BY <3>1
    <3>4. QED BY <2>1, <2>4, <3>2, <3>3, Zenon
  <2>7. ASSUME ~firstErr', NEW j \in 0..(next' - 1)
        PROVE  j \in held' \/ \E v \in Busy' : job'[v] = j
    BY <2>1, <2>2, <2>3, <2>7
  <2>8. QED BY <2>5, <2>6, <2>7
<1>5. CASE Rerun
  BY <1>5 DEF Rerun
<1>6. CASE UNCHANGED setupVars
  BY <1>6 DEF setupVars
<1>7. QED BY <1>1, <1>2, <1>3, <1>4, <1>5, <1>6, Zenon DEF NextSetup, RunSetup

\* Register answers 409 for the accounts that were there before the run.
LEMMA KnownSetup ==
  ASSUME N \in Nat, SetupTypeOK, PoolInv, KnownInv, [NextSetup]_setupVars
  PROVE  KnownInv'
<1> USE DEF SetupTypeOK, KnownInv, Goto, poolVars, workVars
<1>1. CASE AdminLogin \/ CloseJobs \/ AllDone \/ WriteFile
  BY <1>1 DEF AdminLogin, CloseJobs, AllDone, WriteFile
<1>2. ASSUME NEW w \in Workers, Send(w) PROVE KnownInv'
  <2>1. /\ at'[w] = "register" /\ job'[w] = next /\ next' = next + 1 /\ err' = err \ {w}
        /\ UNCHANGED <<accounts, before, held, code>>
        /\ \A v \in Workers \ {w} : at'[v] = at[v] /\ job'[v] = job[v]
    BY <1>2 DEF Send
  <2>2. \A v \in Workers : at'[v] = "register" /\ job'[v] \in accounts' => job'[v] \in before'
    BY <2>1
  <2>3. ASSUME NEW v \in Workers, at'[v] \in {"login", "record"}, v \notin err'
        PROVE  job'[v] \in accounts' /\ code'[v] = IF job'[v] \in before' THEN 409 ELSE 201
    BY <2>1, <2>3
  <2>4. \A j \in accounts' \ before' : j < next'
    BY <2>1 DEF Jobs
  <2>5. QED BY <2>1, <2>2, <2>3, <2>4, Zenon
<1>3. ASSUME NEW w \in Workers, WorkerEnds(w) \/ LoginUser(w) PROVE KnownInv'
  BY <1>3 DEF WorkerEnds, LoginUser
<1>4. ASSUME NEW w \in Workers, RegisterUser(w) PROVE KnownInv'
  <2>1. /\ accounts' \in {accounts, accounts \cup {job[w]}}
        /\ job' = job /\ next' = next /\ before' = before /\ held' = held
        /\ \A v \in Workers \ {w} : at'[v] = at[v] /\ code'[v] = code[v]
        /\ at'[w] # "register" /\ w \in Busy /\ err \subseteq err'
    BY <1>4 DEF RegisterUser, Busy
  <2>2. at'[w] \in {"login", "record"} /\ w \notin err' =>
          job[w] \in accounts' /\ code'[w] = IF job[w] \in before THEN 409 ELSE 201
    BY <1>4 DEF RegisterUser, Accepted
  <2>3. \A v \in Workers \ {w} : at[v] = "register" => job[v] # job[w]
    BY <2>1 DEF PoolInv, Busy
  <2>4. job[w] < next
    BY <2>1 DEF PoolInv
  <2>5. QED BY <2>1, <2>2, <2>3, <2>4
<1>5. ASSUME NEW w \in Workers, RecordUser(w) PROVE KnownInv'
  BY <1>5 DEF RecordUser, AfterJob
<1>6. CASE Rerun
  BY <1>6 DEF Rerun
<1>7. CASE UNCHANGED setupVars
  BY <1>7 DEF setupVars
<1>8. QED BY <1>1, <1>2, <1>3, <1>4, <1>5, <1>6, <1>7, Zenon DEF NextSetup, RunSetup

\* The counters follow the held with a token, as long as there is no error.
LEMMA CountersSetup ==
  ASSUME N \in Nat, SetupTypeOK, PoolInv, TokensInv, KnownInv, CountersInv,
         [NextSetup]_setupVars
  PROVE  CountersInv'
<1> USE DEF workVars
<1>1. CASE AdminLogin \/ CloseJobs \/ AllDone \/ WriteFile
  BY <1>1 DEF AdminLogin, CloseJobs, AllDone, WriteFile, CountersInv
<1>2. ASSUME NEW w \in Workers,
             Send(w) \/ WorkerEnds(w) \/ RegisterUser(w) \/ LoginUser(w)
      PROVE  CountersInv'
  BY <1>2, Zenon DEF Send, WorkerEnds, RegisterUser, LoginUser, poolVars, CountersInv
<1>3. ASSUME NEW w \in Workers, RecordUser(w), ~firstErr' PROVE CountersInv'
  <2>1. /\ ~firstErr /\ w \notin err /\ held' = held \cup {job[w]} /\ before' = before
        /\ registered' = IF code[w] = 201 THEN registered + 1 ELSE registered
        /\ preexisting' = IF code[w] = 409 THEN preexisting + 1 ELSE preexisting
    BY <1>3, Zenon DEF RecordUser, firstErrKept, poolVars
  <2>2. /\ job[w] \notin held
        /\ code[w] = IF job[w] \in before THEN 409 ELSE 201
    BY <1>3, <2>1, Zenon DEF RecordUser, TokensInv, KnownInv, Busy
  <2>3. Finite(held \ before) /\ Finite(held \cap before)
    BY RangeFinite DEF SetupTypeOK, Jobs
  <2>4. CASE job[w] \in before
    <3>1. /\ held' \ before = held \ before
          /\ held' \cap before = (held \cap before) \cup {job[w]}
      BY <2>1, <2>4
    <3>2. Size((held \cap before) \cup {job[w]}) = Size(held \cap before) + 1
      BY <2>2, <2>3, OneMoreCounted, Zenon
    <3>3. registered' = registered /\ preexisting' = preexisting + 1
      BY <2>1, <2>2, <2>4
    <3>4. registered = Size(held \ before) /\ preexisting = Size(held \cap before)
      BY <2>1, Zenon DEF CountersInv
    <3>5. /\ registered' = Size(held' \ before')
          /\ preexisting' = Size(held' \cap before')
      BY <2>1, <3>1, <3>2, <3>3, <3>4, Zenon
    <3>6. QED BY <3>5, Zenon DEF CountersInv
  <2>5. CASE job[w] \notin before
    <3>1. /\ held' \ before = (held \ before) \cup {job[w]}
          /\ held' \cap before = held \cap before
      BY <2>1, <2>5
    <3>2. Size((held \ before) \cup {job[w]}) = Size(held \ before) + 1
      BY <2>2, <2>3, OneMoreCounted, Zenon
    <3>3. registered' = registered + 1 /\ preexisting' = preexisting
      BY <2>1, <2>2, <2>5
    <3>4. registered = Size(held \ before) /\ preexisting = Size(held \cap before)
      BY <2>1, Zenon DEF CountersInv
    <3>5. /\ registered' = Size(held' \ before')
          /\ preexisting' = Size(held' \cap before')
      BY <2>1, <3>1, <3>2, <3>3, <3>4, Zenon
    <3>6. QED BY <3>5, Zenon DEF CountersInv
  <2>6. QED BY <2>4, <2>5
<1>4. CASE Rerun
  BY <1>4, NoneCounted DEF Rerun, CountersInv
<1>5. CASE UNCHANGED setupVars
  BY <1>5 DEF setupVars, CountersInv
<1>6. CASE firstErr'
  BY <1>6 DEF CountersInv
<1>7. QED BY <1>1, <1>2, <1>3, <1>4, <1>5, <1>6, Zenon DEF NextSetup, RunSetup

\* main waits for all jobs, and prints after it has written the file.
LEMMA MainSetup ==
  ASSUME N \in Nat, SetupTypeOK, MainInv, [NextSetup]_setupVars
  PROVE  MainInv'
<1> USE DEF SetupTypeOK, MainInv, Busy, poolVars, workVars
<1>1. CASE AdminLogin \/ CloseJobs \/ AllDone \/ WriteFile
  BY <1>1 DEF AdminLogin, CloseJobs, AllDone, WriteFile, MoreJobs
<1>2. ASSUME NEW w \in Workers, Send(w) PROVE MainInv'
  <2>1. main' = "send"
    BY <1>2, Zenon DEF Send
  <2>2. QED BY <2>1, Zenon
<1>3. ASSUME NEW w \in Workers,
             WorkerEnds(w) \/ RegisterUser(w) \/ LoginUser(w) \/ RecordUser(w)
      PROVE  MainInv'
  BY <1>3 DEF WorkerEnds, RegisterUser, LoginUser, RecordUser
<1>4. CASE Rerun
  BY <1>4 DEF Rerun
<1>5. CASE UNCHANGED setupVars
  BY <1>5 DEF setupVars
<1>6. QED BY <1>1, <1>2, <1>3, <1>4, <1>5, Zenon DEF NextSetup, RunSetup

\* Every step keeps the invariant.
LEMMA NextSetupInv ==
  ASSUME N \in Nat
  PROVE  SetupInv /\ [NextSetup]_setupVars => SetupInv'
  BY TypeSetup, PoolSetup, TokensSetup, KnownSetup, CountersSetup,
     MainSetup DEF SetupInv

\* However many workers, users and runs of the tool, whichever requests fail and
\* whatever the server has done by then: a summary that is printed is true, with
\* a token in the file for every user.
THEOREM SummaryAlwaysTrue ==
  ASSUME N \in Nat
  PROVE  SpecSetup => []SummaryIsTrue
<1>1. SetupInv => SummaryIsTrue
  <2> SUFFICES ASSUME SetupInv, main = "printed" PROVE SummaryIsTrue
    BY DEF SummaryIsTrue
  <2>1. held = Jobs
    <3>1. next = N /\ ~firstErr /\ Busy = {}
      BY DEF SetupInv, MainInv
    <3>2. \A j \in Jobs : j \in held
      BY <3>1, Zenon DEF SetupInv, TokensInv, Jobs
    <3>3. QED BY <3>2 DEF SetupInv, SetupTypeOK
  <2>2. file = Jobs /\ accounts = Jobs
    BY <2>1 DEF SetupInv, SetupTypeOK, MainInv, KnownInv
  <2>3. QED BY <2>1, <2>2, SizeInSetup DEF SetupInv, CountersInv, MainInv, SummaryIsTrue
<1>2. QED BY <1>1, InitSetupInv, NextSetupInv, PTL DEF SpecSetup
=============================================================================
