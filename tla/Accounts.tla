------------------------------ MODULE Accounts ------------------------------
(***************************************************************************)
(* Accounts and tokens: internal/auth, and the middleware of               *)
(* internal/middleware/auth.go that stands before the protected routes.    *)
(*                                                                         *)
(* A worker is a request handler, or the start of a replica that runs      *)
(* BootstrapAdmin.  Every operation runs one SQL statement, in a step of   *)
(* its own: the checks before it and the work after it are open to other   *)
(* workers.  A write may take effect although its handler gave up on it.   *)
(* The names of requests and accounts are their e-mail addresses as the    *)
(* client spells them; Norm is strings.TrimSpace and strings.ToLower.      *)
(***************************************************************************)
EXTENDS Integers, FiniteSets

CONSTANTS
  Workers,
  Faulty,       \* the workers whose statements may fail or be given up
  Spellings,    \* e-mail addresses as clients write them
  Norm,         \* the normalised form of each spelling
  Valid,        \* the spellings mail.ParseAddress accepts
  Passwords,
  Length,       \* the length of each password in bytes
  First72,      \* its first 72 bytes
  BootEmail, BootPassword,  \* BOOTSTRAP_ADMIN_EMAIL and _PASSWORD
  MaxUsers      \* bound: ids the users table hands out

ASSUME SpellingAssumption ==
  /\ Norm \in [Spellings -> Spellings]
  /\ \A s \in Spellings : Norm[Norm[s]] = Norm[s]
  /\ Valid \subseteq Spellings /\ BootEmail \in Spellings
ASSUME PasswordAssumption ==
  /\ Length \in [Passwords -> Nat] /\ BootPassword \in Passwords
  /\ \A p \in Passwords : Length[p] <= 72 => First72[p] = p
ASSUME BoundAssumption ==
  IsFiniteSet(Workers) /\ Faulty \subseteq Workers /\ MaxUsers \in Nat

VARIABLES
  users,   \* table users; NoUser where an id has no row
  serial,  \* the last id handed out
  token,   \* the valid token that the clients keep: any one of those issued
  pc,      \* the statement each worker runs next
  req,     \* the request it serves, or served last
  answer   \* what its client was told

accountVars == <<users, serial, token, pc, req, answer>>

Ids == 1..MaxUsers
Roles == {"user", "admin"}
Row == [email : Spellings, password : Passwords, role : Roles]
NoUser == [email |-> "none", password |-> "none", role |-> "none"]
Token == [id : Ids, role : Roles]
NoToken == [id |-> 0, role |-> "none"]

Exists(i) == users[i] # NoUser

\* A request, and the row it has found.
NoRequest == [op |-> "none", email |-> "none", password |-> "none", id |-> 0,
              by |-> NoToken, found |-> NoUser]
NoAnswer == [code |-> "none", id |-> 0, role |-> "none"]
Reply(code) == [NoAnswer EXCEPT !.code = code]

Holders(address) == {i \in Ids : Exists(i) /\ users[i].email = address}
RowOf(address) ==
  IF Holders(address) = {} THEN NoUser ELSE users[CHOOSE i \in Holders(address) : TRUE]

\* The request arrives, and is refused at once or gets to its statement.
Accept(w, request, refusal, statement) ==
  /\ pc[w] = "idle"
  /\ req' = [req EXCEPT ![w] = IF refusal = "none" THEN request ELSE NoRequest]
  /\ pc' = [pc EXCEPT ![w] = IF refusal = "none" THEN statement ELSE "idle"]
  /\ answer' = [answer EXCEPT ![w] = Reply(refusal)]
  /\ UNCHANGED <<users, serial, token>>

\* The handler returns, unless it gave up before.
Tell(w, reply) ==
  /\ pc' = [pc EXCEPT ![w] = "idle"]
  /\ answer' = [answer EXCEPT ![w] = IF @ = NoAnswer THEN reply ELSE @]

-----------------------------------------------------------------------------
(***************************************************************************)
(* Register and BootstrapAdmin.                                            *)
(***************************************************************************)

Normalized(s) == Norm[s]

minPasswordLen == 8
maxPasswordLen == 128

\* bcrypt.GenerateFromPassword refuses more than 72 bytes.
Hashable(p) == Length[p] <= 72

validateRegistration(s, p) ==
  /\ Normalized(s) \in Valid
  /\ Length[p] >= minPasswordLen
  /\ Length[p] <= maxPasswordLen

\* The bound on ids: one is left for this request.
Room == serial + Cardinality({w \in Workers : pc[w] \in {"insert", "upsert"}}) < MaxUsers

Register(w, s, p) ==
  Room /\ Accept(w, [NoRequest EXCEPT !.op = "register", !.email = Normalized(s), !.password = p],
         IF ~validateRegistration(s, p) THEN "invalid_input"
         ELSE IF ~Hashable(p) THEN "unhashed" ELSE "none", "insert")

\* Variant: the conflict is resolved by replacing the row.
Conflicting(i, row) == users' = [users EXCEPT ![i] = row]

\* A row with the address exists: the UNIQUE constraint on users.email.
Turned(i, row) == UNCHANGED users

\* INSERT; the sequence advances even if the insert is turned down.
InsertUser(w) ==
  LET row == [email |-> req[w].email, password |-> req[w].password, role |-> "user"]
      holders == Holders(row.email)
  IN  /\ pc[w] = "insert"
      /\ serial' = serial + 1
      /\ \/ /\ holders = {}
            /\ users' = [users EXCEPT ![serial'] = row]
            /\ Tell(w, [code |-> "created", id |-> serial', role |-> "user"])
         \/ \E i \in holders :
              /\ Turned(i, row)
              /\ Tell(w, Reply("email_taken"))
      /\ UNCHANGED <<token, req>>

BootstrapAdmin(w) ==
  Room /\ Accept(w, [NoRequest EXCEPT !.op = "bootstrap", !.email = Normalized(BootEmail),
                              !.password = BootPassword],
         IF /\ Normalized(BootEmail) \in Valid
            /\ Length[BootPassword] >= minPasswordLen
            /\ Hashable(BootPassword) THEN "none" ELSE "not_started", "upsert")

\* Variant: the upsert sets the password too.
PromotedRowReset(w, i) == [users[i] EXCEPT !.role = "admin", !.password = req[w].password]

\* ON CONFLICT (email) DO UPDATE SET role = 'admin'.
PromotedRow(w, i) == [users[i] EXCEPT !.role = "admin"]

UpsertAdmin(w) ==
  LET row == [email |-> req[w].email, password |-> req[w].password, role |-> "admin"]
      holders == Holders(row.email)
  IN  /\ pc[w] = "upsert"
      /\ serial' = serial + 1
      /\ \/ holders = {} /\ users' = [users EXCEPT ![serial'] = row]
         \/ \E i \in holders : users' = [users EXCEPT ![i] = PromotedRow(w, i)]
      /\ Tell(w, Reply("ensured"))
      /\ UNCHANGED <<token, req>>

-----------------------------------------------------------------------------
(***************************************************************************)
(* Login, and the routes behind Authenticate.                              *)
(***************************************************************************)
Login(w, s, p) ==
  Accept(w, [NoRequest EXCEPT !.op = "login", !.email = Normalized(s), !.password = p],
         "none", "select")

\* SELECT by address, before bcrypt compares the passwords.
SelectUser(w) ==
  /\ pc[w] = "select"
  /\ \/ /\ Holders(req[w].email) = {}
        /\ Tell(w, Reply("invalid_credentials"))
        /\ UNCHANGED req
     \/ \E i \in Holders(req[w].email) :
          /\ pc' = [pc EXCEPT ![w] = "compare"]
          /\ req' = [req EXCEPT ![w].id = i, ![w].found = users[i]]
          /\ UNCHANGED answer
  /\ UNCHANGED <<users, serial, token>>

\* GenerateToken signs the role that was read.
ClaimedRole(role) == role

GenerateToken(i, role) == [id |-> i, role |-> ClaimedRole(role)]

\* bcrypt.CompareHashAndPassword, unlike GenerateFromPassword, takes a password
\* of any length and ignores what comes after its 72nd byte.
Matches(stored, given) == First72[stored] = First72[given]

\* The password matches or not; the clients keep the new token or the old one.
ComparePassword(w) ==
  LET i == req[w].id
      new == GenerateToken(i, req[w].found.role)
  IN  /\ pc[w] = "compare"
      /\ \/ /\ Matches(req[w].found.password, req[w].password)
            /\ token' \in {token, new}
            /\ Tell(w, [code |-> "token", id |-> i, role |-> new.role])
         \/ /\ ~Matches(req[w].found.password, req[w].password)
            /\ Tell(w, Reply("invalid_credentials"))
            /\ UNCHANGED token
      /\ UNCHANGED <<users, serial, req>>

\* Authenticate: there is a token, signed by us, that has not expired.
Authenticated(t) == t # NoToken

\* Variant: the route is behind Authenticate only.
RequireAdminNot(t) == TRUE

RequireAdmin(t) == t.role = "admin"

Me(w, t) ==
  Accept(w, [NoRequest EXCEPT !.op = "me", !.id = t.id],
         IF Authenticated(t) THEN "none" ELSE "unauthorized", "fetch")

FetchUser(w) ==
  LET i == req[w].id
  IN  /\ pc[w] = "fetch"
      /\ Tell(w, IF Exists(i) THEN [code |-> "me", id |-> i, role |-> users[i].role]
                              ELSE Reply("user_not_found"))
      /\ UNCHANGED <<users, serial, token, req>>

PromoteToAdmin(w, t, i) ==
  Accept(w, [NoRequest EXCEPT !.op = "promote", !.id = i, !.by = t],
         IF ~Authenticated(t) THEN "unauthorized"
         ELSE IF ~RequireAdmin(t) THEN "forbidden" ELSE "none", "update")

UpdateRole(w) ==
  LET i == req[w].id
  IN  /\ pc[w] = "update"
      /\ \/ /\ Exists(i)
            /\ users' = [users EXCEPT ![i].role = "admin"]
            /\ Tell(w, [code |-> "promoted", id |-> i, role |-> "admin"])
         \/ /\ ~Exists(i)
            /\ Tell(w, Reply("user_not_found"))
            /\ UNCHANGED users
      /\ UNCHANGED <<serial, token, req>>

-----------------------------------------------------------------------------
\* The statement fails, or never reaches the server.
StatementFails(w) ==
  /\ w \in Faulty
  /\ pc[w] \notin {"idle", "compare"}
  /\ Tell(w, Reply("internal"))
  /\ req' = [req EXCEPT ![w] = NoRequest]
  /\ UNCHANGED <<users, serial, token>>

\* The context ends or the connection breaks while a write is in flight.
GiveUp(w) ==
  /\ w \in Faulty
  /\ pc[w] \in {"insert", "upsert", "update"}
  /\ answer[w] = NoAnswer
  /\ answer' = [answer EXCEPT ![w] = Reply("internal")]
  /\ UNCHANGED <<users, serial, token, pc, req>>

\* JWT_EXPIRY has passed since the token was made: from now on it is as good
\* as none.
Expire ==
  /\ token # NoToken
  /\ token' = NoToken
  /\ UNCHANGED <<users, serial, pc, req, answer>>

InitAccounts ==
  /\ users = [i \in Ids |-> NoUser]
  /\ serial = 0
  /\ token = NoToken
  /\ pc = [w \in Workers |-> "idle"]
  /\ req = [w \in Workers |-> NoRequest]
  /\ answer = [w \in Workers |-> NoAnswer]

Arrive(w) ==
  \/ \E s \in Spellings, p \in Passwords : Register(w, s, p) \/ Login(w, s, p)
  \/ Me(w, token)
  \/ \E i \in Ids : PromoteToAdmin(w, token, i)
  \/ BootstrapAdmin(w)

Step(w) ==
  \/ InsertUser(w) \/ UpsertAdmin(w) \/ SelectUser(w) \/ ComparePassword(w)
  \/ FetchUser(w) \/ UpdateRole(w)

NextAccounts ==
  \/ \E w \in Workers : Arrive(w) \/ Step(w) \/ StatementFails(w) \/ GiveUp(w)
  \/ Expire

SpecAccounts == InitAccounts /\ [][NextAccounts]_accountVars

-----------------------------------------------------------------------------
\* A token never claims more than its account may do now, although RequireAdmin
\* reads the role of the login and not that of the table.
TokensAreBacked ==
  token # NoToken =>
    /\ Exists(token.id)
    /\ token.role = "admin" => users[token.id].role = "admin"

\* What a client was told about an account stays true: a created account keeps
\* its password whatever bootstrap meets it, a taken address has its account,
\* a promotion is not undone, and a token went to somebody who gave the password
\* of the account, as far as bcrypt compares it: in its first 72 bytes.
AccountAnswersHold ==
  \A w \in Workers :
    LET a == answer[w]
        row == RowOf(req[w].email)
    IN  /\ a.code \in {"created", "token"} => row = users[a.id]
        /\ a.code = "created" => row.password = req[w].password
        /\ a.code = "token" => Matches(row.password, req[w].password)
        /\ a.code \in {"email_taken", "ensured"} => row # NoUser
        /\ a.code = "ensured" => row.role = "admin"
        /\ a.role = "admin" => users[a.id].role = "admin"
        /\ req[w].op = "me" => a.code # "user_not_found"

\* An account becomes an administrator only as the configured bootstrap account
\* or by the request of somebody who is an administrator at that moment, also
\* when the token of the request has expired since it was checked.
Elevated(i) ==
  users'[i].role = "admin" /\ users[i].role # "admin" =>
    \/ users'[i].email = Norm[BootEmail]
    \/ \E w \in Workers :
         /\ pc[w] = "update" /\ req[w].id = i
         /\ users[req[w].by.id].role = "admin"
OnlyAdminsPromote == [][\A i \in Ids : Elevated(i)]_accountVars
=============================================================================
