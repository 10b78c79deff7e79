----------------------------- MODULE Migrations -----------------------------
(***************************************************************************)
(* RunMigrations of internal/db/migrate.go, at the start of every replica  *)
(* that has MIGRATE_ON_START set; the others serve without it.             *)
(*                                                                         *)
(* Replicas start at the same time, with binaries of different ages, and   *)
(* nothing but the database orders them.  One SQL statement is one step;   *)
(* the body of a migration and its ledger row are the pending writes tx[r] *)
(* of a transaction.  A COMMIT whose sender is gone stays in limbo: the    *)
(* server may still carry it out, at any later time, or not.               *)
(***************************************************************************)
EXTENDS Integers

CONSTANTS
  Replicas,
  Migrating,  \* the replicas whose MIGRATE_ON_START is true, as it is by default
  Known,      \* the versions embedded in the binary of each replica
  SelfRecord, \* the versions whose body writes its own ledger row
  MaxFaults   \* bound: crashes and failures of statements

Versions == UNION {Known[r] : r \in Replicas}

\* A newer binary has all the files of an older one.
ASSUME KnownAssumption ==
  /\ Known \in [Replicas -> SUBSET Nat]
  /\ \A r \in Replicas : \A v \in Known[r], w \in Versions : w < v => w \in Known[r]
ASSUME MigratingAssumption == Migrating \subseteq Replicas
ASSUME FaultsAssumption == MaxFaults \in Nat

VARIABLES
  table,   \* whether the table schema_migrations exists
  ledger,  \* the versions recorded in it
  schema,  \* the versions whose statements have taken effect
  limbo,   \* transactions whose COMMIT is on its way and nobody waits for it
  pc,      \* the statement each replica runs next
  cur,     \* the version it is at
  done,    \* the versions its loop is past
  tx,      \* the pending writes of its transaction
  faults   \* faults so far

migrationVars == <<table, ledger, schema, limbo, pc, cur, done, tx, faults>>

NoTx == [schema |-> {}, ledger |-> {}]

Goto(r, label) == pc' = [pc EXCEPT ![r] = label]

\* Postgres tests for the table and creates it in two steps: of two replicas
\* that both find it missing, the second fails.
FindLedger(r) ==
  /\ pc[r] = "find"
  /\ Goto(r, IF table THEN "next" ELSE "create")
  /\ UNCHANGED <<table, ledger, schema, limbo, cur, done, tx, faults>>
CreateLedger(r) ==
  /\ pc[r] = "create"
  /\ ~table
  /\ table' = TRUE
  /\ Goto(r, "next")
  /\ UNCHANGED <<ledger, schema, limbo, cur, done, tx, faults>>

\* Variant: the files are sorted the wrong way round.
PendingHighest(r) == {v \in Known[r] \ done[r] : \A w \in Known[r] \ done[r] : w <= v}

\* The loop takes the files in the order of their version.
Pending(r) == {v \in Known[r] \ done[r] : \A w \in Known[r] \ done[r] : v <= w}

\* SELECT EXISTS: a recorded version is skipped.
CheckMigration(r) ==
  \E v \in Pending(r) :
    /\ pc[r] = "next"
    /\ IF v \in ledger
         THEN done' = [done EXCEPT ![r] = @ \cup {v}] /\ UNCHANGED <<pc, cur>>
         ELSE cur' = [cur EXCEPT ![r] = v] /\ Goto(r, "body") /\ UNCHANGED done
    /\ UNCHANGED <<table, ledger, schema, limbo, tx, faults>>

\* Some other session has the same migration open; its locks keep us waiting.
Busy(r) ==
  \/ \E q \in Replicas : cur[r] \in tx[q].schema
  \/ \E t \in limbo : cur[r] \in t.schema

\* BEGIN and the body: every statement of it is IF NOT EXISTS, OR REPLACE or
\* DROP IF EXISTS, so it also runs where it ran before.
ApplyBody(r) ==
  /\ pc[r] = "body"
  /\ ~Busy(r)
  /\ tx' = [tx EXCEPT ![r] = [schema |-> {cur[r]}, ledger |-> {cur[r]} \cap SelfRecord]]
  /\ Goto(r, "record")
  /\ UNCHANGED <<table, ledger, schema, limbo, cur, done, faults>>

\* INSERT ... ON CONFLICT DO NOTHING in the same transaction.
RecordMigration(r) ==
  /\ pc[r] = "record"
  /\ tx' = [tx EXCEPT ![r].ledger = @ \cup {cur[r]}]
  /\ Goto(r, "commit")
  /\ UNCHANGED <<table, ledger, schema, limbo, cur, done, faults>>

\* Variant: the ledger row is written on a connection of its own.
WriteTwice(t) ==
  /\ schema' = schema \cup t.schema
  /\ UNCHANGED ledger

\* The writes of a transaction become the committed state.
Write(t) ==
  /\ schema' = schema \cup t.schema
  /\ ledger' = ledger \cup t.ledger

Commit(r) ==
  /\ pc[r] = "commit"
  /\ Write(tx[r])
  /\ tx' = [tx EXCEPT ![r] = NoTx]
  /\ done' = [done EXCEPT ![r] = @ \cup {cur[r]}]
  /\ Goto(r, "next")
  /\ UNCHANGED <<table, limbo, cur, faults>>

\* Variant: run goes on to serve although RunMigrations returned an error.
FinishedOrFailed(r) == pc[r] \in {"next", "create", "body"}

\* Every file is dealt with.
Finished(r) == pc[r] = "next" /\ Known[r] \subseteq done[r]

\* RunMigrations returns nil, or is not called at all, and run opens its pools
\* and listens.
Serve(r) ==
  /\ Finished(r) \/ pc[r] = "skip"
  /\ Goto(r, "serving")
  /\ UNCHANGED <<table, ledger, schema, limbo, cur, done, tx, faults>>

-----------------------------------------------------------------------------
\* Variant: the Rollback is missing, and the session stays open.
GiveUpOpen(r) ==
  /\ Goto(r, "down")
  /\ UNCHANGED tx

\* RunMigrations returns an error after its Rollback, if a transaction is open.
GiveUp(r) ==
  /\ Goto(r, "down")
  /\ tx' = [tx EXCEPT ![r] = NoTx]

\* Two sessions run the same DDL: Postgres turns one of them down, because the
\* other has created the object meanwhile or because they deadlock.
Conflict(r) ==
  /\ \/ pc[r] = "create" /\ table
     \/ pc[r] = "body" /\ (cur[r] \in ledger \/ Busy(r)
                             \/ \E q \in Replicas \ {r} : tx[q] # NoTx)
  /\ GiveUp(r)
  /\ UNCHANGED <<table, ledger, schema, limbo, cur, done, faults>>

\* A statement fails, or the process dies.  What was not committed is undone,
\* except for a COMMIT that the server has received.
Fail(r) ==
  /\ faults < MaxFaults
  /\ pc[r] # "down"
  /\ faults' = faults + 1
  /\ \/ pc[r] = "commit" /\ limbo' = limbo \cup {tx[r]}
     \/ UNCHANGED limbo
  /\ GiveUp(r)
  /\ UNCHANGED <<table, ledger, schema, cur, done>>

\* The server carries out a COMMIT from limbo, or drops it.
Late(t) ==
  /\ Write(t) \/ UNCHANGED <<schema, ledger>>
  /\ limbo' = limbo \ {t}
  /\ UNCHANGED <<table, pc, cur, done, tx, faults>>

\* The process is started, or started again by the container runtime; it runs the
\* migrations if cfg.MigrateOnStart.
Start(r) ==
  /\ pc[r] = "down"
  /\ Goto(r, IF r \in Migrating THEN "find" ELSE "skip")
  /\ done' = [done EXCEPT ![r] = {}]
  /\ UNCHANGED <<table, ledger, schema, limbo, cur, tx, faults>>

InitMigrations ==
  /\ table = FALSE
  /\ ledger = {} /\ schema = {} /\ limbo = {}
  /\ pc = [r \in Replicas |-> "down"]
  /\ cur = [r \in Replicas |-> 0]
  /\ done = [r \in Replicas |-> {}]
  /\ tx = [r \in Replicas |-> NoTx]
  /\ faults = 0

Run(r) ==
  \/ Start(r) \/ FindLedger(r) \/ CreateLedger(r) \/ CheckMigration(r) \/ ApplyBody(r)
  \/ RecordMigration(r) \/ Commit(r) \/ Serve(r)

NextMigrations ==
  \/ \E r \in Replicas : Run(r) \/ Conflict(r) \/ Fail(r)
  \/ \E t \in limbo : Late(t)

SpecMigrations == InitMigrations /\ [][NextMigrations]_migrationVars

\* Statements return, a process that ended is restarted, and the server ends
\* the sessions of clients that are gone.
FairMigrations ==
  /\ \A r \in Replicas : WF_migrationVars(Run(r) \/ Conflict(r))
  /\ WF_migrationVars(\E t \in limbo : Late(t))

FairSpecMigrations == SpecMigrations /\ FairMigrations

-----------------------------------------------------------------------------
\* Every variable has its type.
MigrationsTypeOK ==
  /\ table \in BOOLEAN
  /\ ledger \subseteq Versions /\ schema \subseteq Versions
  /\ limbo \subseteq [schema : SUBSET Versions, ledger : SUBSET Versions]
  /\ pc \in [Replicas -> {"down", "find", "create", "next", "body", "record",
                          "commit", "skip", "serving"}]
  /\ cur \in [Replicas -> Versions \cup {0}]
  /\ done \in [Replicas -> SUBSET Versions]
  /\ tx \in [Replicas -> [schema : SUBSET Versions, ledger : SUBSET Versions]]
  /\ faults \in 0..MaxFaults

\* A version is in schema_migrations exactly when its statements have taken
\* effect, wherever replicas fail, collide or commit late.
LedgerIsTrue == ledger = schema

\* A migration takes effect only on top of all the lower-numbered ones, however
\* the replicas and their binaries mix.
AppliedInOrder ==
  \A v \in schema, w \in Versions : w < v => w \in schema

\* A replica with MIGRATE_ON_START serves requests only where every table and
\* trigger its binary was built for is there, also when another replica did the
\* work.  (Nothing is promised of the others: they leave it to somebody else.)
ServesMigrated ==
  \A r \in Migrating : pc[r] = "serving" => Known[r] \subseteq schema

\* Every replica that is started gets to serve, although replicas that start
\* together can make each other fail.
EveryReplicaServes == \A r \in Replicas : []<>(pc[r] = "serving")
=============================================================================
