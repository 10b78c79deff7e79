------------------------------- MODULE Server -------------------------------
(***************************************************************************)
(* The life of one replica: run of cmd/server/main.go.                     *)
(*                                                                         *)
(* It starts in order (migrations if MIGRATE_ON_START is set, PostgreSQL   *)
(* pool, Redis, bootstrap of the administrator, listener), serves requests *)
(* until a signal comes or the listener fails, gives running requests      *)
(* SHUTDOWN_TIMEOUT, and then runs its deferred calls: Redis is closed     *)
(* first, then the pool, whose Close waits for the connections that        *)
(* handlers still hold.  http.Server and pgxpool are modelled from how run *)
(* uses them.                                                              *)
(***************************************************************************)
EXTENDS FiniteSets

CONSTANTS Requests   \* bound: requests the replica gets in its life

VARIABLES
  phase,   \* what run does next
  listen,  \* the listener: "off", "on", "failed" (its error is in serverErr)
  pg, redis,  \* the clients: "none", "open", "closing", "closed"
  quit,    \* a signal is in the channel quit
  timeUp,  \* shutdownCtx has expired
  result,  \* what run returns: "none" before that, "nil" or "error"
  conn     \* each request: "new", "running", "holding" a database connection,
           \* "answered", "failed" because a client was closed, "lost"

serverVars == <<phase, listen, pg, redis, quit, timeUp, result, conn>>

Starting == {"migrate", "pool", "redis", "bootstrap"}
Active == {q \in Requests : conn[q] \in {"running", "holding"}}

-----------------------------------------------------------------------------
(***************************************************************************)
(* Start.                                                                  *)
(***************************************************************************)
\* A step of the start succeeds.
StartStep(from, to) ==
  /\ phase = from
  /\ phase' = to
  /\ UNCHANGED <<listen, quit, timeUp, result, conn>>

\* if cfg.MigrateOnStart (InitServer).
Migrate == StartStep("migrate", "pool") /\ UNCHANGED <<pg, redis>>
OpenPool == StartStep("pool", "redis") /\ pg' = "open" /\ UNCHANGED redis
OpenRedis == StartStep("redis", "bootstrap") /\ redis' = "open" /\ UNCHANGED pg

\* BootstrapAdmin, the routes, and the goroutine that listens; signal.Notify
\* comes after it.
Listen ==
  /\ phase = "bootstrap"
  /\ phase' = "notify"
  /\ listen' = "on"
  /\ UNCHANGED <<pg, redis, quit, timeUp, result, conn>>
Notify == StartStep("notify", "serving") /\ UNCHANGED <<pg, redis>>

\* A step of the start fails: run returns its error.
StartFails ==
  /\ phase \in Starting
  /\ phase' = "defers"
  /\ result' = "error"
  /\ UNCHANGED <<listen, pg, redis, quit, timeUp, conn>>

-----------------------------------------------------------------------------
(***************************************************************************)
(* Requests.                                                               *)
(***************************************************************************)
\* A connection is accepted and its request goes to a handler.
AcceptRequest(q) ==
  /\ listen = "on"
  /\ conn[q] = "new"
  /\ conn' = [conn EXCEPT ![q] = "running"]
  /\ UNCHANGED <<phase, listen, pg, redis, quit, timeUp, result>>

\* The handler takes a connection of the pool, and gives it back.
Acquire(q) ==
  /\ conn[q] = "running"
  /\ conn' = [conn EXCEPT ![q] = IF pg = "open" THEN "holding" ELSE "failed"]
  /\ UNCHANGED <<phase, listen, pg, redis, quit, timeUp, result>>
GiveBack(q) ==
  /\ conn[q] = "holding"
  /\ conn' = [conn EXCEPT ![q] = "running"]
  /\ UNCHANGED <<phase, listen, pg, redis, quit, timeUp, result>>

\* A Redis command of the handler meets a closed client.
MissRedis(q) ==
  /\ conn[q] = "running"
  /\ redis = "closed"
  /\ conn' = [conn EXCEPT ![q] = "failed"]
  /\ UNCHANGED <<phase, listen, pg, redis, quit, timeUp, result>>

\* The handler returns; its context ends it after 30 s at the latest.
AnswerRequest(q) ==
  /\ conn[q] = "running"
  /\ conn' = [conn EXCEPT ![q] = "answered"]
  /\ UNCHANGED <<phase, listen, pg, redis, quit, timeUp, result>>

-----------------------------------------------------------------------------
(***************************************************************************)
(* Shutdown.                                                               *)
(***************************************************************************)
\* SIGINT or SIGTERM: before signal.Notify it kills the process, afterwards it
\* is put into a channel that holds one.
Signal ==
  /\ phase \in Starting \cup {"notify", "serving"}
  /\ IF phase = "serving"
       THEN ~quit /\ quit' = TRUE /\ UNCHANGED <<phase, conn>>
       ELSE /\ phase' = "killed"
            /\ conn' = [q \in Requests |-> IF q \in Active THEN "lost" ELSE conn[q]]
            /\ UNCHANGED quit
  /\ listen' = IF phase = "serving" THEN listen ELSE "off"
  /\ UNCHANGED <<pg, redis, timeUp, result>>

\* ListenAndServe returns an error other than ErrServerClosed.
ListenFails ==
  /\ phase \in {"notify", "serving"} /\ listen = "on"
  /\ listen' = "failed"
  /\ UNCHANGED <<phase, pg, redis, quit, timeUp, result, conn>>

\* Shutdown closes the listener before it waits.
ListenerAfter == IF listen = "on" THEN "off" ELSE listen

\* The select: a signal, or the error of the listener.
BeginShutdown ==
  /\ phase = "serving"
  /\ quit \/ listen = "failed"
  /\ phase' = "draining"
  /\ listen' = ListenerAfter
  /\ UNCHANGED <<pg, redis, quit, timeUp, result, conn>>

\* Variant: Shutdown does not wait for the handlers.
DrainedAlways == TRUE

\* No connection is serving a request.
Drained == Active = {}

\* Shutdown returns nil, "server stopped cleanly".
StopCleanly ==
  /\ phase = "draining"
  /\ Drained
  /\ phase' = "defers"
  /\ result' = "nil"
  /\ UNCHANGED <<listen, pg, redis, quit, timeUp, conn>>

\* Variant: Shutdown gets a context without a deadline.
ExpireNever == FALSE

\* SHUTDOWN_TIMEOUT ends: Shutdown returns the error, "forced shutdown".
ExpireShutdown ==
  /\ phase = "draining"
  /\ Active # {}
  /\ phase' = "defers"
  /\ timeUp' = TRUE
  /\ result' = "error"
  /\ UNCHANGED <<listen, pg, redis, quit, conn>>

\* defer redisClient.Close(), if the client was made.
CloseRedis ==
  /\ phase = "defers"
  /\ phase' = "closePool"
  /\ redis' = IF redis = "open" THEN "closed" ELSE redis
  /\ UNCHANGED <<listen, pg, quit, timeUp, result, conn>>

\* No connection of the pool is in use.
PoolIdle == \A q \in Requests : conn[q] # "holding"

\* defer pgPool.Close(): no new connection from now on, and wait for the rest.
ClosePool ==
  /\ phase = "closePool"
  /\ phase' = "waitPool"
  /\ pg' = IF pg = "open" THEN "closing" ELSE pg
  /\ UNCHANGED <<listen, redis, quit, timeUp, result, conn>>

\* run returns, and main ends the process with whatever still runs in it.
Exit ==
  /\ phase = "waitPool"
  /\ PoolIdle
  /\ phase' = "exited"
  /\ pg' = IF pg = "closing" THEN "closed" ELSE pg
  /\ conn' = [q \in Requests |-> IF q \in Active THEN "lost" ELSE conn[q]]
  /\ UNCHANGED <<listen, redis, quit, timeUp, result>>

\* run has its configuration; without MIGRATE_ON_START it begins with the pool.
InitServer ==
  /\ phase \in {"migrate", "pool"}
  /\ listen = "off"
  /\ pg = "none" /\ redis = "none"
  /\ quit = FALSE /\ timeUp = FALSE
  /\ result = "none"
  /\ conn = [q \in Requests |-> "new"]

StartUp == Migrate \/ OpenPool \/ OpenRedis \/ Listen \/ Notify \/ StartFails
Stop == BeginShutdown \/ StopCleanly \/ ExpireShutdown \/ CloseRedis \/ ClosePool \/ Exit
Handle(q) == Acquire(q) \/ GiveBack(q) \/ MissRedis(q) \/ AnswerRequest(q)

NextServer ==
  \/ StartUp \/ Signal \/ ListenFails \/ Stop
  \/ \E q \in Requests : AcceptRequest(q) \/ Handle(q)

SpecServer == InitServer /\ [][NextServer]_serverVars

\* The process runs, and a handler gives back its connection: its statements
\* end with its context.
FairServer ==
  /\ WF_serverVars(StartUp)
  /\ WF_serverVars(Stop)
  /\ \A q \in Requests : WF_serverVars(GiveBack(q))

FairSpecServer == SpecServer /\ FairServer

-----------------------------------------------------------------------------
\* Unless the shutdown is forced by its timeout, or the process is killed before
\* it listens to signals, no request that was accepted is cut off or meets a
\* closed client, and none is left when run returns.
OnlyForcedStopFails ==
  \/ timeUp \/ phase = "killed"
  \/ /\ \A q \in Requests : conn[q] \notin {"failed", "lost"}
     /\ result # "none" => Active = {}

\* After a signal or a failure the process comes to its end, with requests that
\* run for ever, and with requests that hold a connection when the pool closes.
ProcessEnds ==
  quit \/ listen = "failed" \/ result # "none" ~> phase \in {"exited", "killed"}
=============================================================================
