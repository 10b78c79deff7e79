----------------------------- MODULE SetupUsers -----------------------------
(***************************************************************************)
(* loadtest/cmd/setup-users/main.go: a pool of workers registers and logs  *)
(* in the users of a load test and writes their tokens to a file.          *)
(*                                                                         *)
(* The jobs go through an unbuffered channel, so handing one over takes an *)
(* idle worker.  A request can fail in transport before or after the       *)
(* server has acted on it, or be refused (429, 5xx); the tool is then run  *)
(* again over the accounts that exist.                                     *)
(***************************************************************************)
EXTENDS Integers, FiniteSets

CONSTANTS
  Workers,
  N,          \* users wanted
  MaxFaults,  \* bound: requests that fail
  MaxRuns     \* bound: runs of the tool

Jobs == 0..(N - 1)
NoJob == -1

VARIABLES
  accounts,  \* the users registered on the server
  file,      \* the users with a token in the output file
  main,      \* where main is: "admin", "send", "wait", "write", "failed", "printed"
  next,      \* i of the loop that sends
  at,        \* where each worker is
  job,       \* the job it has
  code,      \* what its register call answered
  err,       \* the workers whose err is not nil
  users,     \* users with a token in memory
  firstErr,  \* firstErr is not nil
  registered, preexisting,
  runs, faults,
  before     \* accounts when this run started

setupVars == <<accounts, file, main, next, at, job, code, err, users, firstErr,
               registered, preexisting, runs, faults, before>>
poolVars == <<main, next, runs, before, file>>
workVars == <<users, firstErr, registered, preexisting>>

Goto(w, label) == at' = [at EXCEPT ![w] = label]

\* A request that fails, in transport or with an error status.
Fault ==
  /\ faults < MaxFaults
  /\ faults' = faults + 1
NoFault == UNCHANGED faults

\* The login of the admin, before anything else.
AdminLogin ==
  /\ main = "admin"
  /\ \/ main' = "send" /\ NoFault
     \/ main' = "failed" /\ Fault
  /\ UNCHANGED <<accounts, file, next, at, job, code, err, runs, before>>
  /\ UNCHANGED workVars

MoreJobs == next < N

\* jobs <- i meets the range loop of a worker.
Send(w) ==
  /\ main = "send" /\ MoreJobs
  /\ at[w] = "idle"
  /\ next' = next + 1
  /\ job' = [job EXCEPT ![w] = next]
  /\ err' = err \ {w}
  /\ Goto(w, "register")
  /\ UNCHANGED <<accounts, file, main, code, runs, before>>
  /\ UNCHANGED workVars /\ NoFault

\* close(jobs).
CloseJobs ==
  /\ main = "send" /\ ~MoreJobs
  /\ main' = "wait"
  /\ UNCHANGED <<accounts, file, next, at, job, code, err, runs, before>>
  /\ UNCHANGED workVars /\ NoFault

\* The range loop of a worker ends.
WorkerEnds(w) ==
  /\ main = "wait"
  /\ at[w] = "idle"
  /\ Goto(w, "gone")
  /\ UNCHANGED <<accounts, job, code, err>>
  /\ UNCHANGED poolVars /\ UNCHANGED workVars /\ NoFault

\* A user that exists already is as good as a new one.
Accepted(c) == c \in {201, 409}

\* POST /auth/register.
RegisterUser(w) ==
  /\ at[w] = "register"
  /\ \/ /\ code' = [code EXCEPT ![w] = IF job[w] \in accounts THEN 409 ELSE 201]
        /\ accounts' = accounts \cup {job[w]}
        /\ NoFault
     \/ /\ \E c \in {0, 429, 500} : code' = [code EXCEPT ![w] = c]
        /\ \/ UNCHANGED accounts
           \/ code'[w] # 429 /\ accounts' = accounts \cup {job[w]}
        /\ Fault
  /\ err' = IF Accepted(code'[w]) THEN err ELSE err \cup {w}
  /\ Goto(w, IF w \in err' THEN "record" ELSE "login")
  /\ UNCHANGED job
  /\ UNCHANGED poolVars /\ UNCHANGED workVars

\* POST /auth/login.
LoginUser(w) ==
  /\ at[w] = "login"
  /\ \/ UNCHANGED err /\ NoFault
     \/ err' = err \cup {w} /\ Fault
  /\ Goto(w, "record")
  /\ UNCHANGED <<accounts, job, code>>
  /\ UNCHANGED poolVars /\ UNCHANGED workVars

\* The worker goes on to its next job, whatever became of this one.
AfterJob(w) == "idle"

\* Variant: the first error is overwritten by what comes later.
firstErrLast(w) == w \in err

\* firstErr once there was an error.
firstErrKept(w) == firstErr \/ w \in err

\* The section under mu.
RecordUser(w) ==
  /\ at[w] = "record"
  /\ firstErr' = firstErrKept(w)
  /\ registered' = IF code[w] = 201 THEN registered + 1 ELSE registered
  /\ preexisting' = IF code[w] = 409 THEN preexisting + 1 ELSE preexisting
  /\ users' = IF w \in err THEN users ELSE users \cup {job[w]}
  /\ Goto(w, AfterJob(w))
  /\ UNCHANGED <<accounts, job, code, err>>
  /\ UNCHANGED poolVars /\ NoFault

\* wg.Wait returns.
AllDone ==
  /\ main = "wait"
  /\ \A w \in Workers : at[w] = "gone"
  /\ main' = IF firstErr THEN "failed" ELSE "write"
  /\ UNCHANGED <<accounts, file, next, at, job, code, err, runs, before>>
  /\ UNCHANGED workVars /\ NoFault

\* The file is truncated, written and closed; it may not open, or writing may
\* fail half-way.
WriteFile ==
  /\ main = "write"
  /\ \/ file' = users /\ main' = "printed" /\ NoFault
     \/ file' \in (SUBSET users) \cup {file} /\ main' = "failed" /\ Fault
  /\ UNCHANGED <<accounts, next, at, job, code, err, runs, before>>
  /\ UNCHANGED workVars

\* The operator runs the tool again.
Rerun ==
  /\ main = "failed"
  /\ runs < MaxRuns
  /\ runs' = runs + 1
  /\ main' = "admin" /\ next' = 0
  /\ at' = [w \in Workers |-> "idle"]
  /\ job' = [w \in Workers |-> NoJob]
  /\ code' = [w \in Workers |-> 0]
  /\ err' = {} /\ users' = {} /\ firstErr' = FALSE
  /\ registered' = 0 /\ preexisting' = 0
  /\ before' = accounts
  /\ UNCHANGED <<accounts, file, faults>>

InitSetup ==
  /\ accounts \in SUBSET Jobs
  /\ file = {}
  /\ main = "admin" /\ next = 0
  /\ at = [w \in Workers |-> "idle"]
  /\ job = [w \in Workers |-> NoJob]
  /\ code = [w \in Workers |-> 0]
  /\ err = {} /\ users = {} /\ firstErr = FALSE
  /\ registered = 0 /\ preexisting = 0
  /\ runs = 1 /\ faults = 0
  /\ before = accounts

\* One run of the tool.
RunSetup ==
  \/ AdminLogin \/ CloseJobs \/ AllDone \/ WriteFile
  \/ \E w \in Workers :
       Send(w) \/ WorkerEnds(w) \/ RegisterUser(w) \/ LoginUser(w) \/ RecordUser(w)

NextSetup == RunSetup \/ Rerun

SpecSetup == InitSetup /\ [][NextSetup]_setupVars

-----------------------------------------------------------------------------
\* A run that prints its summary has written a token for every user, and the
\* summary is true: registered_now and already_existed are the users this run
\* has created and found, however many runs were cut short before.
SummaryIsTrue ==
  main = "printed" =>
    /\ file = Jobs /\ accounts = Jobs
    /\ registered = Cardinality(Jobs \ before)
    /\ preexisting = Cardinality(Jobs \cap before)
=============================================================================
