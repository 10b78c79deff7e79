# Formal specification of the lottery system

TLA+ models of the lottery backend (`src/`), the TLC runs that check them on
small instances, and TLAPS proofs of the main safety properties for instances of
any size. `PROJECT.json` lists components, runs, mutants, the line-by-line map
from definitions to source, hazards, findings and theorems.

## The system

One or more identical server replicas (Go) share one PostgreSQL database and one
Redis. An administrator creates an event with a capacity, a number of winners
and a time `draw_at`; users book a seat; the administrator closes the event and,
once `draw_at` has passed, draws it: every booked user gets a rank, the first
ranks win, the others are the waitlist. The ranking goes to an append-only audit
table together with a digest (the seal), and a public page shows it.

### Inventory

| Part | State | Operations | Hard behaviour | What should hold |
|---|---|---|---|---|
| Events (`internal/event`) | `events` rows | Create, Close, Cancel, GetByID, List | races of status changes with bookings and draws; a reply read after the commit | the lifecycle; answers stay true |
| Booking transaction (`internal/booking/service.go`, `createBooking`) | `bookings` rows, row lock | lock, exists, count, insert, commit | oversell; COMMIT whose reply is lost | capacity; answers stay true |
| Booking queue (`gate.go`) | map of gates, reference counts, channel | enter, leave, time-out | deletion races, lost wake-ups, time-out against hand-over | one inside, FIFO, no leak, no starvation |
| Redis lock (`BookWithLock`) | lock key with token and TTL | SET NX with backoff, compare-and-delete | lost replies, repeated and late commands, TTL, crash | exclusion up to the TTL; every request returns |
| Lottery (`internal/lottery/service.go`, `seal.go`) | `lottery_draws`, `lottery_draw_seals` | RunDraw, GetResults | failure in mid-draw, repeated draws, three reads without a transaction | all or nothing, one outcome, seal verifies |
| Draw algorithm (`algorithm.go`) | local array | FairShuffle, SelectWinners | loop bounds, bias | a ranking of everybody, uniform |
| Schema (`internal/db/migrations`) | constraints, triggers | - | what a constraint rejects | part of the actions above |
| Migrations (`migrate.go`) | ledger `schema_migrations`, schema | RunMigrations | replicas of different age that start together, crash between statements, a commit in flight | ledger and schema agree, in order, nobody who migrates serves without its schema |
| Accounts (`internal/auth`, `middleware/auth.go`) | `users` rows, JWT | Register, Login, Me, PromoteToAdmin, BootstrapAdmin | same address twice at once, stale role in a token, bootstrap over an existing account | one account per address, answers and tokens stay true |
| Event list (`event.List`) | none | two queries per page | events come and go between queries and pages; overflow | totals cover pages, nothing is missed |
| Server (`cmd/server`) | lifecycle of the process | start, signal, drain, close | signal during start, handlers that outlive the deadline, order of the deferred calls | a clean stop fails nobody, the process ends |
| HTTP stack (`middleware/http.go`, `httpx`) | the response, the body | down the layers and back | panic and deadline together, a body read twice | logged = sent, one body, handlers see what was sent |
| Client address (`middleware/clientip.go`) | none | scan of X-Forwarded-For | headers of the client, proxies, mapped addresses | the nearest host that is no proxy |
| Load test clients (`loadtest/cmd`) | retry counters, worker pool | oneDraw, setup-users | lost and late requests, reruns | samples are committed draws; summaries are true |

The parts meet in the database (events, bookings and lottery lock the same row
of `events`) and in `BookWithLock` (gate, then Redis lock, then transaction). A
replica with `MIGRATE_ON_START` (the default) migrates (`Migrations`) before it
serves (`Server`); every request passes the middleware (`HttpStack`,
`ClientAddress`, the tokens of `Accounts`) before its handler. These parts share
no state with the handlers' transactions and are modelled each on its own.

## Modules

| Module | Models |
|---|---|
| `Database` | tables, transactions, row locks, clock, and the ways a statement or a connection fails |
| `Booking` | `createBooking` |
| `Events` | `Create`, `Close`, `Cancel` and the `GetByID` that answers them |
| `Ranking` | the value of a draw: rankings and their split |
| `Lottery` | `RunDraw`, `GetResults`, `drawDigest` |
| `LotterySystem` | the three services on one database; the properties |
| `EventLifecycle` | abstract: five atomic operations on an event |
| `LotteryRefinement` | the mapping of `LotterySystem` to `EventLifecycle` (`Promised`) |
| `LotteryInvariant` | the inductive invariants of `LotterySystem`: the tables (`IInv`) and the answers (`AnswersInv`) |
| `LotteryAlgorithm` | `FairShuffle` and `SelectWinners`, swap by swap |
| `EventGates` | `gate.go` |
| `FifoLine` | abstract: a line per event |
| `BookingPath` | `BookWithLock` on several replicas: gates and Redis lock |
| `Migrations` | `RunMigrations` on several replicas |
| `Accounts` | `internal/auth` and the tokens of `middleware/auth.go` |
| `EventList` | `List`, read page by page |
| `Server` | `run` of `cmd/server`: start, serve, shut down |
| `HttpStack` | the middleware, `httpx` and their order in `main.go` |
| `ClientAddress` | `ClientIP` and `parsePrefixes` |
| `FairnessClient` | `oneDraw` and `call` of the fairness test |
| `SetupUsers` | the worker pool of `setup-users` |
| `MCProcess` | `Server`, `ClientAddress` and `HttpStack` in one instance for TLC |
| `MCClients` | `EventList`, `FairnessClient` and `SetupUsers` in one instance for TLC |
| other `MC...` | instances for TLC |
| `LotteryTypeProofs`, `LotterySafetyProofs`, `LotteryClientProofs` | theorems on `LotterySystem`: types; safety of the tables; refinement and answers |
| `EventGatesProofs`, `BookingPathProofs` | theorems on the module of the same name |
| `AccountsProofs` | theorems on `Accounts` and `SetupUsers` |
| `ProcessProofs` | theorems on `Migrations`, `HttpStack`, `Server` and `ClientAddress` |
| `DrawProofs` | theorems on `EventList`, `FairnessClient` and `LotteryAlgorithm` |

### How the models correspond to the code

**Database and the services.** A worker is a handler goroutine with its database
session. One SQL statement is one step; `pc` is the statement that comes next,
`loc` holds the Go variables that live across statements, and `writes` the
uncommitted writes, which `Apply` makes visible at COMMIT. Statements see what is
committed when they run (READ COMMITTED). `rowLock` is `SELECT ... FOR UPDATE`.
Go code between two statements belongs to the step of the statement before it.
Every error return goes through `Refuse` and the deferred `Rollback`.

Failures are those the handlers can meet: a statement that fails
(`StatementFails`, also for a trigger or a unique constraint, `Rejected`), and a
connection that breaks, a context that ends in mid-statement, or a process that
dies (`LoseConnection`). After the latter the server session keeps its lock until
it notices; if COMMIT was on its way it may still take effect, after the client
was told `internal`. `Booking` is entered *without* gate and Redis lock, since
the repository claims that the row lock alone is enough.

Data are abstract: a user is an id, a digest is the tuple it is computed from
(SHA-256 taken as injective), the shuffle is any ordering. The branch of
`createBooking` for a violated foreign key has no counterpart in `Booking`: the
event row is locked and no service deletes users or events. Times of a draw keep
their nanoseconds, because the code truncates them and the database stores
microseconds: `Truncate` and `Stored` are separate definitions.

**EventGates.** What runs under the mutex is one step; the `select` and the
receive of `leave` are steps of their own. A channel of capacity one is the flag
`slot` and the queue of blocked senders, oldest first, which is how the Go
runtime serves them. A `select` with both cases ready takes either. Gate objects
are addresses; one that nothing points to may be used again.

**BookingPath.** It extends `EventGates` with the stages of `BookWithLock`. A
Redis command whose reply is not awaited any longer, or that go-redis sent twice,
stays in `wire` and may run at any later time or never. `Expire` is the TTL, at
any time. `Crash` takes a replica's gates, with whoever is in or before them, and
its requests away.

**LotteryAlgorithm.** One action per loop iteration, with every value that
`rand.Int` can return.

**Migrations.** One SQL statement is one step; the body of a migration and its
ledger row are pending writes until COMMIT. `CREATE TABLE IF NOT EXISTS` is two
steps, as in PostgreSQL: the second of two replicas fails. DDL on the same
objects waits (`Busy`) or fails (`Conflict`). A commit whose sender is gone is in
`limbo`. `Known[r]` is what the binary of a replica embeds; a newer one has all
the files of an older one. `SelfRecord` is migration 1, which writes its own row.
`Migrating` are the replicas with `MIGRATE_ON_START=true` (`main.go:47`); the
others go straight on to serve, and on what schema they do is up to whoever set
the flag. `ServesMigrated` is a promise for the former only, as the README of the
repository says ("applied on boot when `MIGRATE_ON_START=true`"). `Server` starts
with or without the migration phase for the same reason.

**Accounts.** Every operation is one SQL statement with Go code around it:
arrival, statement, and for a login the comparison of the passwords, are steps.
`token` is one valid token, any of those issued: the middleware looks at one at a
time. Signatures are taken to be sound. bcrypt hashes at most 72 bytes
(`Hashable`) and compares at most the first 72 of the password it is given
(`Matches`), so a longer one with the right beginning logs in: `First72` says
which of the passwords those are, and `AccountAnswersHold` says of a login that
the password agreed in this sense. Names and ids in a path are left out.

**EventList.** One client, two queries per request, and administrators in
between. `draw_at` orders the list and leaves ties open. A page is the set of its
events (`Slice`): nothing depends on their order within it. `IntRange` is the
number of values of an int: an offset beyond it wraps around, as in Go.

**Server.** The phases of `run`, with `http.Server` and `pgxpool` as `run` uses
them: Shutdown closes the listener and waits for handlers, Close waits for
connections that are in use. Deferred calls run in reverse order.

**HttpStack.** A request goes through the layers of `main.go` in their order, and
back through their deferred calls by return or by panic. `rw` is the
`responseWriter` of Logger, `sent` and `body` what is on the wire. The comment of
`Recoverer` (`http.go:71`) asks to place it outside of Logger; `main.go` does the
opposite and explains why. The variant `LayersByComment` breaks `LoggedAsSent`:
the code is right. A handler may give any status, 400 included, for reasons of
its own; so `BodyDecodedAsSent` looks at what the handler is about to decode
(`input`) and not at the status. A preflight (204) and chi's 405 have no body; chi
answers 404 with a line of text, like the 429 of the limiter.

**ClientAddress.** A request starts with headers of the client's choice and goes
through hosts that append their peers. A network written as an IPv4-mapped prefix
in TRUSTED_PROXIES contains no address that `isTrusted` ever asks for, since the
addresses are unmapped and the prefix is not; a bare mapped address works.

**FairnessClient, SetupUsers.** The tools of the load test against the API: a
request may be served, lost, or served late, and is sent again. An answer whose
body does not decode is not: `call` returns at once (`CutAnswer`,
`fairness-api/main.go:58-62`), and only the loop around book asks again. So
`LossesAreSurvived` lets a sample fail after such an answer to create, draw or
results, or to the last repetition of a book (`CutCosts`). The server of
`FairnessClient` serves a request in one step, which `EventLifecycle` justifies.

**MCProcess, MCClients.** The parts they extend share no state. The variable
`part` chooses one of them in the initial state, and only its steps are taken, so
that the state spaces add up and do not multiply. `Over` is the one step left
once a part has reached its end; every other state without a successor is
reported as a deadlock, so these runs also show that the tools and the server
never get stuck half-way.

## Runs

Instance sizes are in the `.cfg` files.

| Run | Instance | Shows |
|---|---|---|
| `overlap` | 2 workers, both may fail; 2 users, 1 event, capacities up to 2, 2 clock values, all operations | `TypeOK`, `Serialised`, `CapacityRespected`, `DrawIsComplete`, `DrawIsDue`, the answers (`BookingAnswersHold`, `AdminAnswersHold`, `ResultsVerify`, `ResultsAgree`), `FinalIsFinal`, and refinement of `EventLifecycle` (`Promised`) |
| `contention` | 3 workers, 3 users, bookings only | no overselling and no wrong answer under contention for the last seat |
| `requests_end` | 2 workers, one may fail; book, close, draw | `EveryRequestEnds` |
| `algorithm` | lists of up to 5 participants, all counts | `EveryoneRankedOnce`, `ShuffleIsUniform` |
| `gates` | 4 goroutines, 2 events, 3 gate objects | `OneInside`, `GatesInUse`, `SlotIsOwned`, refinement of `FifoLine` (`FirstComeFirstServed`), `NobodyStarves` |
| `booking_path` | 2 replicas with 2 and 1 goroutines, one may crash, 3 tokens | `ExclusiveUntilExpiry` |
| `booking_returns` | 2 goroutines on a replica that may crash | `EveryBookingReturns` |
| `orphaned_lock` | as `booking_path`, without crash | violates `NoUnknownOwner`: see Finding |
| `migrations` | 4 replicas, one with an older binary and one that does not migrate, 2 faults | `LedgerIsTrue`, `AppliedInOrder`, `ServesMigrated`, `EveryReplicaServes` |
| `accounts` | 2 workers, both may fail; 3 ids, 3 spellings of 2 addresses, 3 passwords, two of them alike in 72 bytes | `TokensAreBacked`, `AccountAnswersHold`, `OnlyAdminsPromote` |
| `process` | server: 3 requests; address: 4 hosts, 2 entries of the client, 2 proxies, both notations; stack: every path, method and body size, CORS on | `OnlyForcedStopFails`, `ProcessEnds`; `ChargedToNearest`; `LoggedAsSent`, `EnvelopeMatches`, `BodyDecodedAsSent` |
| `clients` | list: 3 events, 3 draw times, pages of 1 and 2; fairness test: 3 participants, 3 attempts, 4 losses, one error status, any answer may break off; setup: 2 workers, 3 users, 2 faults, 3 runs | `NothingMissed`; `SampleIsCommitted`, `LossesAreSurvived`; `SummaryIsTrue` |

**Why these bounds.** Two workers give every pairwise race, and workers are
reused, so the length of a history is not bounded: a third request acts on what
two earlier ones left behind. Events do not interact (each transaction touches
one), so one is enough; three workers matter only for several waiters at one
lock, which `contention` adds. Two clock values separate "due" from "not due"; a
capacity of 2 with two users has empty, partly full and full events, and with
one winner a waitlist. Four goroutines give one inside, two waiting and one that
arrives. Three tokens are enough for three requests; a token left on the wire or
in Redis only makes `newToken` wait or fail in the model, which the code may do
as well. The proofs remove the bounds for the properties they cover. Three
replicas that migrate are one that works, one that collides with it and one that
comes late; with two faults a replica can fail, restart and fail again. Three
ids let two rows exist while a turned-down insert has used up one. Four losses
exceed the three attempts of a call, so that calls do run out. Pages of one and
two over three events have full, partial and empty last pages. The passwords
stand for lengths of 8, 72 and 73 bytes, on both sides of what bcrypt takes.

**Symmetry** is used in `overlap`, `contention`, `booking_path`, `accounts` and
`clients` only, which check no liveness, over workers, users, gates, tokens and
the goroutines of one replica, none of which a definition singles out.

**Fairness.** In `FairSpec`, a statement eventually returns or fails, as every
request runs under a 30-second context; the row lock is granted in turn, which
PostgreSQL does (strong fairness of the locking read); orphaned sessions end. In
`FairSpecGates`, goroutines run, and whoever is inside leaves; no deadline is
assumed. In `FairSpecPath`, in addition, the backoff loop sees the end of its
wait (strong fairness of `GiveUp`: once `waitCtx` is over its case is ready in
every iteration), keys do not outlive their TTL, and commands do not stay on the
wire for ever. New requests are never assumed to arrive. In
`FairSpecMigrations` a process that ended is started again, as the compose file
tells the container runtime to do, and the server ends sessions without a client.
In `FairSpecServer` the process runs and a handler gives back its connection,
since its statements end with its context; handlers need not return, and nobody
has to send a signal.

## Finding

A run that TLC refutes, against a sentence of the repository.

`orphaned_lock`: the comment of `acquireRedisLock` says that a deadline can
never fire between Redis applying the SET and the request learning of it. The
one-second deadline of the SET itself, or a broken connection, can: the function
returns an error, the release is not yet deferred, and the key stays until its
TTL. Only waiting time is lost: `EveryBookingReturns` and `ExclusiveUntilExpiry`
hold with such locks left behind.

The models reproduce some more behaviour that differs from what a comment or a
reader may expect. No run is about it, and no property relies on the contrary:

- `RunMigrations` tests the ledger outside of the transaction: of two replicas
  that find a migration missing the second runs its body again. `Migrations`
  takes bodies to be repeatable, as the existing ones are.
- A password of 73 to 128 bytes passes validation, bcrypt refuses it, and the
  answer is 500 (`Accounts`).
- The offset `(page - 1) * limit` of `List` wraps around for a page number that is
  high enough (`EventList`).
- When the listener fails `run` reports a clean stop (`Server`).
- A login with more than 72 bytes succeeds if the first 72 are those of the
  password (`Accounts`).
- A body above the limit is answered with 400, 404 and 429 come as a line of text,
  and 405 without a body (`HttpStack`; `EnvelopeMatches` is about the envelopes
  the API writes).
- A draw that comes due while it waits for the row lock is refused, since `now()`
  is the time of BEGIN (`Lottery`). `DrawIsDue` is about the other direction: no
  draw comes early.
- A network written as an IPv4-mapped prefix trusts nobody (`ClientAddress`).

## Proofs

The theorems hold for every set of workers, users and events and every bound.
Every safety property that a run checks is proved, except for
`ShuffleIsUniform`. Assumptions: the named `ASSUME`s of `Database` (finite set
of users, `None` is no id, the numeric constants are naturals), of
`LotteryAlgorithm` (lists without duplicates, which UNIQUE (event_id, user_id)
gives), of `EventGates` (finitely many goroutines, nil is no gate and no key),
of `BookingPath` (a key is a replica with an event, a goroutine has one replica,
nil is no token), of `Accounts` (lower-casing twice is lower-casing once,
finitely many workers, at most 72 bytes are their own beginning), of
`Migrations` (a newer binary has all the files of an older one; those that
migrate are replicas), of `ClientAddress` (a text that does not parse names no
host), of `HttpStack` (a status is one that net/http accepts), of `EventList`
(the parameters are integers, `DefaultLimit` is positive, and there are fewer
events than half the values of an int) and of `FairnessClient` (at least one
participant and one attempt).

`ProcessProofs`, `AccountsProofs` and `DrawProofs` are each about several models
that share nothing. `SetupUsers` and `Accounts` use some names for different
things, so `AccountsProofs` takes the former in with INSTANCE and calls its `users`
`held`; that N is a natural number is a hypothesis there. INSTANCE also brings a
second `Cardinality`, which `SizeInSetup` shows to be the first one.

| Theorem | Module | States |
|---|---|---|
| `TypeCorrect` | `LotteryTypeProofs` | `Spec => []TypeOK` |
| `MutualExclusion` | `LotterySafetyProofs` | `Spec => []Serialised` |
| `NeverOversold` | `LotterySafetyProofs` | `Spec => []CapacityRespected` |
| `DrawAllOrNothing` | `LotterySafetyProofs` | `Spec => []DrawIsComplete` |
| `NeverDrawnEarly` | `LotterySafetyProofs` | `Spec => []DrawIsDue` |
| `FinalForEver` | `LotteryClientProofs` | `Spec => FinalIsFinal` |
| `ImplementsLifecycle` | `LotteryClientProofs` | `Spec => Promised` |
| `BookingAnswersTrue` | `LotteryClientProofs` | `Spec => []BookingAnswersHold` |
| `AdminAnswersTrue` | `LotteryClientProofs` | `Spec => []AdminAnswersHold` |
| `SealsAlwaysMatch` | `LotteryClientProofs` | `Spec => []ResultsVerify` |
| `OneOutcome` | `LotteryClientProofs` | `Spec => []ResultsAgree` |
| `AlgorithmTypeCorrect` | `DrawProofs` | `SpecAlgorithm => []AlgorithmTypeOK` |
| `SelectWinnersRanks` | `DrawProofs` | `SpecAlgorithm => []EveryoneRankedOnce` |
| `NothingEverMissed` | `DrawProofs` | `SpecList => []NothingMissed` |
| `SampleAlwaysCommitted` | `DrawProofs` | `SpecClient => []SampleIsCommitted` |
| `LossesAlwaysSurvived` | `DrawProofs` | `SpecClient => []LossesAreSurvived` |
| `OneInsideHolds` | `EventGatesProofs` | `SpecGates => []OneInside` |
| `GatesInUseHolds` | `EventGatesProofs` | `SpecGates => []GatesInUse` |
| `SlotIsOwnedHolds` | `EventGatesProofs` | `SpecGates => []SlotIsOwned` |
| `GatesAreLines` | `EventGatesProofs` | `SpecGates => FirstComeFirstServed` |
| `OneInsideDespiteCrashes` | `BookingPathProofs` | `SpecPath => []OneInside` |
| `LockIsExclusive` | `BookingPathProofs` | `SpecPath => []ExclusiveUntilExpiry` |
| `TokensBacked` | `AccountsProofs` | `SpecAccounts => []TokensAreBacked` |
| `AccountAnswersTrue` | `AccountsProofs` | `SpecAccounts => []AccountAnswersHold` |
| `PromotionIsAuthorised` | `AccountsProofs` | `SpecAccounts => OnlyAdminsPromote` |
| `SummaryAlwaysTrue` | `AccountsProofs` | `N \in Nat` gives `SpecSetup => []SummaryIsTrue` |
| `LedgerAlwaysTrue` | `ProcessProofs` | `SpecMigrations => []LedgerIsTrue` |
| `MigrationsInOrder` | `ProcessProofs` | `SpecMigrations => []AppliedInOrder` |
| `ServesOnlyMigrated` | `ProcessProofs` | `SpecMigrations => []ServesMigrated` |
| `CleanStopLosesNothing` | `ProcessProofs` | `SpecServer => []OnlyForcedStopFails` |
| `ChargedAlwaysToNearest` | `ProcessProofs` | `SpecAddress => []ChargedToNearest` |
| `LogsWhatWasSent` | `ProcessProofs` | `SpecHttp => []LoggedAsSent` |
| `EnvelopeAlwaysMatches` | `ProcessProofs` | `SpecHttp => []EnvelopeMatches` |
| `BodyAlwaysAsSent` | `ProcessProofs` | `SpecHttp => []BodyDecodedAsSent` |

**The argument.** `CapacityRespected` is not inductive: a commit adds a booking
that was judged against a count taken two statements earlier. `IInv`
(`LotteryInvariant`) therefore says what a transaction knows at each statement
(`BookKnows`, `TransitionKnows`, `DrawKnows`), that from the locking read to the
commit, an unanswered commit included, it holds the row lock (`LockInv`), and
that it has written nothing before its first write (`FreshInv`). Each step either
keeps all tables, or is the commit of a lock holder; then no other transaction
past its locking read is on that event, so nobody else's knowledge goes stale.
Type correctness needs a part of this already (`Typed`): the row of a locked
event exists and the insert loop stays within the ranking. The refinement follows
from `IInv`: commits map to the operations of `EventLifecycle`, all other steps
to stuttering. For the algorithm the invariant is that the array is always a
rearrangement of the input (`Rearranged`).

An answer is judged long after it was given, when others have booked, closed,
cancelled and drawn. `AnswersInv` says of every code what it tells of the event
(`Told`), in a form that no step of another request can undo: bookings are never
removed and only added while the event is open, a status only moves on, a drawn
or cancelled event stays as it is. A handler decides on its code inside its
transaction and gives it after the rollback or the commit; so `Told` has to hold
from the decision on (`Read`), which for the codes after a commit follows from
what `IInv` says the transaction knows. `Shown` is about what a reply shows
besides its code: the count that `GetByID` reads after the commit is final, since
the event is closed by then, and the three unprotected reads of `GetResults` see
one state, since the event is drawn at the first of them. `SealInv`, that the one
seal of a drawn event is the digest of its rows with the stored time, then makes
every result verify.

For the gates `OneInside` says nothing of how two goroutines of an event come to
the same gate. `GatesInv` adds that whoever is on the way holds the gate the map
has for its key (`HeldInv`), that two keys never share a gate (`OneKey`), that
the counts are exact (`Counts`), that a taken slot has one owner (`Owners`), and
that a queue holds blocked goroutines, each once, and only at a taken slot
(`Queues`). The delicate step is `release`: the last reference is the only
pointer to its gate, so the map entry it removes is nobody else's. For the
refinement the line of an event is its owner followed by the queue (`LineInv`):
a send joins it, a time-out in the queue is `GiveUp`, leave is `Depart`, and
enter and release leave all lines alone.

For the booking path `GatesInv` has to survive a crash, which removes the gates
of one replica at once: it does because a goroutine uses gates of its own replica
only (`HomeInv`). For the lock, a token has one owner (`TokenInv`), a request that
books has its token in Redis or has seen the TTL end (`HeldLock`), and no release
with its token is on the wire before it has booked (`NoEarlyRelease`), so no late
or repeated command of anybody deletes the key of a running request.

For the accounts a worker acts on what an earlier statement has read.
`AccountsInv` says that this is still true of the table (`Fit`): rows are never
deleted, addresses and passwords never change, administrators stay
administrators. The addresses are unique (`UniqueInv`), ids are handed out in
order and suffice for those that will take one (`SerialInv`, the one place where
the set of workers has to be finite), and what a client has heard holds of the
row of its account (`Heard`).

For the migrations none of the three properties is inductive: a commit is judged
by what its transaction holds, and a commit in limbo may run long after its
sender has restarted. `MigrationsInv` adds that a transaction, open or in limbo,
holds one version in both its parts (`TxShape`, `LimboShape`), that a replica is
at a version only when all lower ones of its binary are done (`AtShape`), and
that what is done has taken effect (`DoneApplied`). That lower versions of other
binaries are done as well is the assumption on binaries (`KnownAssumption`).

For the server, `OnlyForcedStopFails` needs to know that both clients are open
whenever a request may run (`OpenShape`) and that nothing is accepted any more
once Shutdown was called (`StopShape`); what is left is that Shutdown returns nil
only when no request runs. For the client address, the end of X-Forwarded-For is
the real route (`TailIsRoute`) and the loop is past trusted proxies only
(`ScanShape`); so it cannot get past the nearest host that is not trusted, and
never reads what the client wrote before it. For the middleware, `HttpInv` says
what is written on the way down (`DownShape`, nothing), under a panic
(`PanicShape`, at most the 504) and after an answer (`Answered`), that Logger's
record is what is on the wire (`WriterShape`), and that its line comes last
(`LogShape`). For `BodyDecodedAsSent`, `BodyInv` says that the
handler's input is what was sent or what the limiter has put back, which decodes
the same.

For the list of events, that nothing is missed is a statement about a client
that is through with it. `ReadingInv` says on the way how far it has come: an
event that it could expect and has not been shown comes after at least as many
others as the pages so far hold (`Reached`), counting those of the filter with
an earlier `draw_at` (`Earlier`). Creating an event only adds to them, so no
event slips back to a page that has been read. At the last query the total is
larger than that number, so a reply that ends the reading leaves nobody out. An
offset is at most the number of events on this way, and so does not overflow
(`WrapSmall`).

For the sample of the fairness test, requests without an answer may still be
served, in any order and after the call was repeated. `InStep` says that none of
them is ahead of the client: a late request is a copy of one that the client has
repeated until it was answered. So whatever is served late leaves what the calls
have achieved (`Achieved`) as it is. `LossesAreSurvived` needs in addition that
call repeats itself only after a loss (`tries <= losses`), and that no complete
answer other than an error of the server or "not due" ends oneDraw: a repeated
book finds its seat taken by itself, a repeated draw an event that is drawn.

For `setup-users`, jobs are handed out once (`PoolInv`), and until the first error
the users with a token are the jobs that are recorded (`TokensInv`). The summary
counts answers, 201 and 409, and is to be about accounts: `KnownInv` says that an
account that was there before the run is always answered with 409, and one that
was not with 201 by the only worker that has its job. So each counter is the size
of a set (`CountersInv`), and `MainInv` carries both past the end of the workers.

**Model-checked only.** The liveness properties (`EveryRequestEnds`,
`NobodyStarves`, `EveryBookingReturns`, `EveryReplicaServes`, `ProcessEnds`) and
`ShuffleIsUniform` (it uses ENABLED and a recursive function), which are out of
the prover's reach.

## Not modelled

- `GetByEvent` and `UserBookings` (booking lists): one query each, no state.
- The probes of `health.go`: they ping the two clients and report the result.
- `SecurityHeaders`, the header values of CORS, JSON, wording, logging: no state
  that a property here is about.
- How httprate counts: a library; `HttpStack` lets it refuse any request.
- The worker pool of `fairness-api`, which has the shape of the one in
  `setup-users`; `aggregate`, `fairness` and the chi-square statistics, which
  compute with floating-point numbers; shell scripts.
- The append-only triggers and grants, which guard against statements that the
  services never issue.
- `Load` of `internal/config`, except for TRUSTED_PROXIES (`ClientAddress`): it
  reads the environment once, and its checks are one comparison each. A LOCK_TTL
  of zero or less is copied unchecked; for it the lock model says nothing.
- That the load test tools end: they are checked to be free of deadlock, but how
  long a call takes is up to the server.
