---------------------------- MODULE ProcessProofs ----------------------------
(***************************************************************************)
(* The parts of a replica that work on their own, for any number of        *)
(* replicas, files, requests, proxies and hosts and any handlers: the      *)
(* migrations, the way of a request through the middleware, start and stop *)
(* of the process, and the address a request is charged to.                *)
(***************************************************************************)
EXTENDS Migrations, HttpStack, Server, ClientAddress, TLAPS

-----------------------------------------------------------------------------
(***************************************************************************)
(* The migrations (Migrations).                                            *)
(***************************************************************************)
\* The versions below a version.
Lower(v) == {w \in Versions : w < v}

\* A transaction holds the body and the row of one version, nothing else.
TxShape ==
  \A r \in Replicas :
    /\ pc[r] \notin {"record", "commit"} => tx[r] = NoTx
    /\ pc[r] = "record" => tx[r].schema = {cur[r]} /\ tx[r].ledger \subseteq {cur[r]}
    /\ pc[r] = "commit" => tx[r] = [schema |-> {cur[r]}, ledger |-> {cur[r]}]

\* A replica works on a version of its binary, above what is applied; only one
\* without MIGRATE_ON_START does not.
AtShape ==
  \A r \in Replicas :
    /\ pc[r] \in {"body", "record", "commit"} =>
         cur[r] \in Known[r] /\ Lower(cur[r]) \subseteq schema
    /\ pc[r] = "skip" => r \notin Migrating

\* What a loop is past has taken effect.
DoneApplied == \A r \in Replicas : done[r] \subseteq schema

\* A COMMIT in limbo is one whose order was right when it was sent.
LimboShape ==
  \A t \in limbo :
    \E v \in Versions : t = [schema |-> {v}, ledger |-> {v}] /\ Lower(v) \subseteq schema

MigrationsInv ==
  /\ MigrationsTypeOK /\ LedgerIsTrue /\ AppliedInOrder /\ ServesMigrated
  /\ TxShape /\ AtShape /\ DoneApplied /\ LimboShape

-----------------------------------------------------------------------------
\* The empty database satisfies the invariant.
LEMMA MigrationsInit == InitMigrations => MigrationsInv
<1> SUFFICES ASSUME InitMigrations PROVE MigrationsInv
  OBVIOUS
<1>1. MigrationsTypeOK
  <2>1. NoTx \in [schema : SUBSET Versions, ledger : SUBSET Versions]
    BY DEF NoTx
  <2>2. tx \in [Replicas -> [schema : SUBSET Versions, ledger : SUBSET Versions]]
    BY <2>1 DEF InitMigrations
  <2>3. pc \in [Replicas -> {"down", "find", "create", "next", "body", "record",
                            "commit", "skip", "serving"}]
    BY DEF InitMigrations
  <2>4. cur \in [Replicas -> Versions \cup {0}] /\ done \in [Replicas -> SUBSET Versions]
    BY DEF InitMigrations
  <2>5. faults \in 0..MaxFaults
    BY FaultsAssumption DEF InitMigrations
  <2> QED
    BY <2>2, <2>3, <2>4, <2>5, Zenon DEF InitMigrations, MigrationsTypeOK
<1>2. LedgerIsTrue /\ AppliedInOrder /\ ServesMigrated
  BY MigratingAssumption DEF InitMigrations, LedgerIsTrue, AppliedInOrder, ServesMigrated
<1>3. TxShape /\ AtShape /\ DoneApplied /\ LimboShape
  BY DEF InitMigrations, TxShape, AtShape, DoneApplied, LimboShape
<1> QED
  BY <1>1, <1>2, <1>3 DEF MigrationsInv

\* The versions of a binary are versions.
LEMMA KnownVersions == \A r \in Replicas : Known[r] \subseteq Versions /\ Versions \subseteq Nat
BY KnownAssumption, Zenon DEF Versions

\* Steps of one replica that leave the database alone.
LEMMA QuietKeeps ==
  ASSUME MigrationsInv, NEW r \in Replicas,
         FindLedger(r) \/ CreateLedger(r) \/ Serve(r) \/ Start(r)
  PROVE  MigrationsInv'
<1> USE DEF MigrationsInv
<1>1. UNCHANGED <<ledger, schema, limbo, cur, tx, faults>>
  BY DEF FindLedger, CreateLedger, Serve, Start
<1>2. PICK l \in {"find", "create", "next", "skip", "serving"} : pc' = [pc EXCEPT ![r] = l]
  BY DEF FindLedger, CreateLedger, Serve, Start, Goto
<1>3. pc[r] \notin {"record", "commit"}
  BY DEF FindLedger, CreateLedger, Serve, Finished, Start
<1>4. done' = done \/ done' = [done EXCEPT ![r] = {}]
  BY DEF FindLedger, CreateLedger, Serve, Start
<1>5. table' \in BOOLEAN
  BY Zenon DEF FindLedger, CreateLedger, Serve, Start, MigrationsTypeOK
<1>6. pc \in [Replicas -> {"down", "find", "create", "next", "body", "record",
                          "commit", "skip", "serving"}]
  BY DEF MigrationsTypeOK
<1>7. pc'[r] = l /\ \A q \in Replicas \ {r} : pc'[q] = pc[q]
  BY <1>2, <1>6
<1>8. MigrationsTypeOK'
  <2>1. pc' \in [Replicas -> {"down", "find", "create", "next", "body", "record",
                          "commit", "skip", "serving"}]
    BY <1>2, <1>6
  <2>2. done' \in [Replicas -> SUBSET Versions]
    BY <1>4 DEF MigrationsTypeOK
  <2> QED
    BY <1>1, <1>5, <2>1, <2>2 DEF MigrationsTypeOK
<1>9. LedgerIsTrue' /\ AppliedInOrder'
  BY <1>1 DEF LedgerIsTrue, AppliedInOrder
<1>10. DoneApplied'
  BY <1>1, <1>4 DEF DoneApplied, MigrationsTypeOK
<1>11. ServesMigrated'
  <2>1. ASSUME l = "serving" PROVE Serve(r)
    BY <1>2, <1>6, <2>1 DEF FindLedger, CreateLedger, Start, Goto
  <2>2. ASSUME l = "serving", r \in Migrating PROVE Known[r] \subseteq schema
    <3>1. Finished(r)
      BY <2>1, <2>2 DEF Serve, AtShape
    <3> QED
      BY <3>1 DEF Finished, DoneApplied
  <2> QED
    BY <1>1, <1>7, <2>2, MigratingAssumption DEF ServesMigrated
<1>12. TxShape'
  BY <1>1, <1>3, <1>7 DEF TxShape
<1>13. AtShape'
  <2>1. ASSUME l = "skip" PROVE r \notin Migrating
    BY <1>2, <1>6, <2>1 DEF FindLedger, CreateLedger, Serve, Start, Goto
  <2> QED
    BY <1>1, <1>7, <2>1 DEF AtShape
<1>14. LimboShape'
  BY <1>1 DEF LimboShape
<1> QED
  BY <1>8, <1>9, <1>10, <1>11, <1>12, <1>13, <1>14

\* One round of the loop: a recorded version has taken effect, and the first
\* version that is not done has all the lower ones below it done.
LEMMA CheckKeeps ==
  ASSUME MigrationsInv, NEW r \in Replicas, CheckMigration(r)
  PROVE  MigrationsInv'
<1> USE DEF MigrationsInv
<1>1. PICK v \in Pending(r) :
        /\ pc[r] = "next"
        /\ IF v \in ledger
             THEN done' = [done EXCEPT ![r] = @ \cup {v}] /\ UNCHANGED <<pc, cur>>
             ELSE cur' = [cur EXCEPT ![r] = v] /\ Goto(r, "body") /\ UNCHANGED done
        /\ UNCHANGED <<table, ledger, schema, limbo, tx, faults>>
  BY DEF CheckMigration
<1>2. v \in Known[r] /\ v \in Versions /\ v \in Nat
  BY KnownVersions DEF Pending
<1>3. Lower(v) \subseteq schema
  <2> SUFFICES ASSUME NEW w \in Versions, w < v PROVE w \in schema
    BY DEF Lower
  <2>1. w \in Known[r]
    BY <1>2, KnownAssumption
  <2>2. w \in done[r]
    BY <2>1, <1>2, KnownVersions DEF Pending
  <2> QED
    BY <2>2 DEF DoneApplied
<1>4. CASE v \in ledger
  <2>1. done' = [done EXCEPT ![r] = @ \cup {v}] /\ UNCHANGED <<pc, cur, table, ledger, schema, limbo, tx, faults>>
    BY <1>1, <1>4
  <2>2. DoneApplied'
    BY <2>1, <1>4 DEF DoneApplied, LedgerIsTrue, MigrationsTypeOK
  <2>3. done' \in [Replicas -> SUBSET Versions]
    BY <2>1, <1>2 DEF MigrationsTypeOK
  <2>4. MigrationsTypeOK'
    BY <2>1, <2>3 DEF MigrationsTypeOK
  <2>5. (LedgerIsTrue /\ AppliedInOrder /\ ServesMigrated)'
    BY <2>1 DEF LedgerIsTrue, AppliedInOrder, ServesMigrated
  <2>6. (TxShape /\ AtShape /\ LimboShape)'
    BY <2>1 DEF TxShape, AtShape, LimboShape
  <2> QED
    BY <2>2, <2>4, <2>5, <2>6
<1>5. CASE v \notin ledger
  <2>1. /\ cur' = [cur EXCEPT ![r] = v]
        /\ pc' = [pc EXCEPT ![r] = "body"]
        /\ UNCHANGED <<done, table, ledger, schema, limbo, tx, faults>>
    BY <1>1, <1>5 DEF Goto
  <2>2. /\ pc'[r] = "body" /\ cur'[r] = v
        /\ \A q \in Replicas \ {r} : pc'[q] = pc[q] /\ cur'[q] = cur[q]
    BY <2>1 DEF MigrationsTypeOK
  <2>3. pc' \in [Replicas -> {"down", "find", "create", "next", "body", "record",
                             "commit", "skip", "serving"}]
    BY <2>1 DEF MigrationsTypeOK
  <2>4. cur' \in [Replicas -> Versions \cup {0}]
    BY <2>1, <1>2 DEF MigrationsTypeOK
  <2>5. MigrationsTypeOK'
    BY <2>1, <2>3, <2>4 DEF MigrationsTypeOK
  <2>6. (LedgerIsTrue /\ AppliedInOrder /\ DoneApplied)'
    BY <2>1 DEF LedgerIsTrue, AppliedInOrder, DoneApplied
  <2>7. ServesMigrated'
    BY <2>1, <2>2, MigratingAssumption DEF ServesMigrated
  <2>8. TxShape'
    BY <1>1, <2>1, <2>2, Zenon DEF TxShape
  <2>9. AtShape'
    BY <1>2, <1>3, <2>1, <2>2 DEF AtShape
  <2>10. LimboShape'
    BY <2>1 DEF LimboShape
  <2> QED
    BY <2>5, <2>6, <2>7, <2>8, <2>9, <2>10
<1> QED
  BY <1>4, <1>5

\* The body and the row go into the transaction of the replica only.
LEMMA TransactionKeeps ==
  ASSUME MigrationsInv, NEW r \in Replicas, ApplyBody(r) \/ RecordMigration(r)
  PROVE  MigrationsInv'
<1> USE DEF MigrationsInv
<1>1. UNCHANGED <<table, ledger, schema, limbo, cur, done, faults>>
  BY DEF ApplyBody, RecordMigration
<1>2. PICK l \in {"record", "commit"} :
        /\ pc' = [pc EXCEPT ![r] = l]
        /\ l = "record" => ApplyBody(r)
        /\ l = "commit" => RecordMigration(r)
  BY DEF ApplyBody, RecordMigration, Goto
<1>3. pc'[r] = l /\ \A q \in Replicas \ {r} : pc'[q] = pc[q]
  BY <1>2 DEF MigrationsTypeOK
<1>4. cur[r] \in Known[r] /\ cur[r] \in Versions /\ Lower(cur[r]) \subseteq schema
  BY KnownVersions DEF ApplyBody, RecordMigration, AtShape
<1>5. tx \in [Replicas -> [schema : SUBSET Versions, ledger : SUBSET Versions]]
  BY DEF MigrationsTypeOK
<1>6. \A q \in Replicas \ {r} : tx'[q] = tx[q]
  BY <1>5 DEF ApplyBody, RecordMigration
<1>7. l = "record" => tx'[r] = [schema |-> {cur[r]}, ledger |-> {cur[r]} \cap SelfRecord]
  BY <1>2, <1>5 DEF ApplyBody
<1>8. l = "commit" => tx'[r] = [schema |-> {cur[r]}, ledger |-> {cur[r]}]
  <2> SUFFICES ASSUME l = "commit" PROVE tx'[r] = [schema |-> {cur[r]}, ledger |-> {cur[r]}]
    OBVIOUS
  <2>1. pc[r] = "record" /\ tx' = [tx EXCEPT ![r].ledger = @ \cup {cur[r]}]
    BY <1>2 DEF RecordMigration
  <2>2. tx[r].schema = {cur[r]} /\ tx[r].ledger \subseteq {cur[r]}
    BY <2>1, Zenon DEF TxShape
  <2>3. tx[r].ledger \cup {cur[r]} = {cur[r]}
    BY <2>2
  <2>4. tx'[r] = [tx[r] EXCEPT !.ledger = tx[r].ledger \cup {cur[r]}]
    BY <2>1, <1>5
  <2> QED
    BY <2>2, <2>3, <2>4, <1>5, Zenon
<1>9. MigrationsTypeOK'
  <2>1. pc' \in [Replicas -> {"down", "find", "create", "next", "body", "record",
                             "commit", "skip", "serving"}]
    BY <1>2 DEF MigrationsTypeOK
  <2>2. tx'[r] \in [schema : SUBSET Versions, ledger : SUBSET Versions]
    <3>1. CASE l = "record"
      BY <1>4, <1>7, <3>1
    <3>2. CASE l = "commit"
      BY <1>4, <1>8, <3>2
    <3> QED
      BY <3>1, <3>2
  <2>3. DOMAIN tx' = Replicas /\ tx' = [q \in Replicas |-> tx'[q]]
    BY <1>5 DEF ApplyBody, RecordMigration
  <2>4. \A q \in Replicas : tx'[q] \in [schema : SUBSET Versions, ledger : SUBSET Versions]
    BY <2>2, <1>5, <1>6
  <2>5. tx' \in [Replicas -> [schema : SUBSET Versions, ledger : SUBSET Versions]]
    BY <2>3, <2>4
  <2> QED
    BY <1>1, <2>1, <2>5 DEF MigrationsTypeOK
<1>10. (LedgerIsTrue /\ AppliedInOrder /\ DoneApplied /\ LimboShape)'
  BY <1>1 DEF LedgerIsTrue, AppliedInOrder, DoneApplied, LimboShape
<1>11. ServesMigrated'
  BY <1>1, <1>3, MigratingAssumption DEF ServesMigrated
<1>12. TxShape'
  <2> SUFFICES ASSUME NEW q \in Replicas
               PROVE  (/\ pc[q] \notin {"record", "commit"} => tx[q] = NoTx
                       /\ pc[q] = "record" => tx[q].schema = {cur[q]} /\ tx[q].ledger \subseteq {cur[q]}
                       /\ pc[q] = "commit" => tx[q] = [schema |-> {cur[q]}, ledger |-> {cur[q]}])'
    BY DEF TxShape
  <2>1. CASE q = r
    <3>1. CASE l = "record"
      <4>1. tx'[r].schema = {cur[r]} /\ tx'[r].ledger \subseteq {cur[r]}
        BY <1>7, <3>1
      <4> QED
        BY <2>1, <1>1, <1>3, <3>1, <4>1
    <3>2. CASE l = "commit"
      <4>1. tx'[r] = [schema |-> {cur[r]}, ledger |-> {cur[r]}]
        BY <1>8, <3>2
      <4> QED
        BY <2>1, <1>1, <1>3, <3>2, <4>1
    <3> QED
      BY <3>1, <3>2
  <2>2. CASE q # r
    BY <2>2, <1>1, <1>3, <1>6 DEF TxShape
  <2> QED
    BY <2>1, <2>2
<1>13. AtShape'
  BY <1>1, <1>3, <1>4 DEF AtShape
<1> QED
  BY <1>9, <1>10, <1>11, <1>12, <1>13

\* Committing one version on top of all the lower ones keeps the ledger true and
\* the order, and takes nothing away.
LEMMA WriteOne ==
  ASSUME MigrationsInv, NEW v \in Versions, Lower(v) \subseteq schema,
         Write([schema |-> {v}, ledger |-> {v}])
  PROVE  /\ schema' = schema \cup {v} /\ ledger' = ledger \cup {v}
         /\ ledger' \subseteq Versions /\ schema' \subseteq Versions
         /\ LedgerIsTrue' /\ AppliedInOrder'
<1>1. schema' = schema \cup {v} /\ ledger' = ledger \cup {v}
  BY DEF Write
<1>2. ledger' \subseteq Versions /\ schema' \subseteq Versions
  BY <1>1 DEF MigrationsInv, MigrationsTypeOK
<1>3. LedgerIsTrue'
  BY <1>1 DEF MigrationsInv, LedgerIsTrue
<1>4. AppliedInOrder'
  <2> SUFFICES ASSUME NEW x \in schema', NEW w \in Versions, w < x
               PROVE  w \in schema'
    BY DEF AppliedInOrder
  <2>1. CASE x = v
    BY <2>1, <1>1 DEF Lower
  <2>2. CASE x \in schema
    BY <2>2, <1>1 DEF MigrationsInv, AppliedInOrder
  <2> QED
    BY <2>1, <2>2, <1>1
<1> QED
  BY <1>1, <1>2, <1>3, <1>4

\* COMMIT of the loop.
LEMMA CommitKeeps ==
  ASSUME MigrationsInv, NEW r \in Replicas, Commit(r)
  PROVE  MigrationsInv'
<1> USE DEF MigrationsInv
<1> DEFINE v == cur[r]
<1>1. pc[r] = "commit" /\ tx[r] = [schema |-> {v}, ledger |-> {v}]
  BY DEF Commit, TxShape
<1>2. v \in Versions /\ Lower(v) \subseteq schema
  BY <1>1, KnownVersions DEF AtShape
<1>3. Write([schema |-> {v}, ledger |-> {v}])
  BY <1>1 DEF Commit
<1> HIDE DEF v
<1>4. /\ schema' = schema \cup {v} /\ ledger' = ledger \cup {v}
      /\ ledger' \subseteq Versions /\ schema' \subseteq Versions
      /\ LedgerIsTrue' /\ AppliedInOrder'
  BY <1>2, <1>3, WriteOne
<1>5. /\ pc' = [pc EXCEPT ![r] = "next"]
      /\ tx' = [tx EXCEPT ![r] = NoTx]
      /\ done' = [done EXCEPT ![r] = @ \cup {v}]
      /\ UNCHANGED <<table, limbo, cur, faults>>
  BY DEF Commit, Goto, v
<1>6. /\ pc'[r] = "next" /\ tx'[r] = NoTx
      /\ \A q \in Replicas \ {r} : pc'[q] = pc[q] /\ tx'[q] = tx[q]
  BY <1>5 DEF MigrationsTypeOK
<1>7. MigrationsTypeOK'
  <2>1. pc' \in [Replicas -> {"down", "find", "create", "next", "body", "record",
                             "commit", "skip", "serving"}]
    BY <1>5 DEF MigrationsTypeOK
  <2>2. NoTx \in [schema : SUBSET Versions, ledger : SUBSET Versions]
    BY DEF NoTx
  <2>3. tx' \in [Replicas -> [schema : SUBSET Versions, ledger : SUBSET Versions]]
    BY <1>5, <2>2 DEF MigrationsTypeOK
  <2>4. done' \in [Replicas -> SUBSET Versions]
    BY <1>2, <1>5 DEF MigrationsTypeOK
  <2> QED
    BY <1>4, <1>5, <2>1, <2>3, <2>4 DEF MigrationsTypeOK
<1>8. ServesMigrated'
  BY <1>4, <1>6, MigratingAssumption DEF ServesMigrated
<1>9. TxShape'
  BY <1>5, <1>6 DEF TxShape
<1>10. AtShape'
  BY <1>4, <1>5, <1>6 DEF AtShape
<1>11. DoneApplied'
  BY <1>4, <1>5 DEF DoneApplied, MigrationsTypeOK
<1>12. LimboShape'
  BY <1>4, <1>5 DEF LimboShape
<1> QED
  BY <1>4, <1>7, <1>8, <1>9, <1>10, <1>11, <1>12

\* An error or a crash: the transaction is gone, or its COMMIT is in limbo.
LEMMA FailKeeps ==
  ASSUME MigrationsInv, NEW r \in Replicas, Conflict(r) \/ Fail(r)
  PROVE  MigrationsInv'
<1> USE DEF MigrationsInv
<1>1. /\ pc' = [pc EXCEPT ![r] = "down"]
      /\ tx' = [tx EXCEPT ![r] = NoTx]
      /\ UNCHANGED <<table, ledger, schema, cur, done>>
  BY DEF Conflict, Fail, GiveUp, Goto
<1>2. limbo' = limbo \/ (pc[r] = "commit" /\ limbo' = limbo \cup {tx[r]})
  BY DEF Conflict, Fail
<1>3. faults' \in 0..MaxFaults
  <2>1. CASE Conflict(r)
    BY <2>1 DEF Conflict, MigrationsTypeOK
  <2>2. CASE Fail(r)
    BY <2>2, FaultsAssumption DEF Fail, MigrationsTypeOK
  <2> QED
    BY <2>1, <2>2
<1>4. /\ pc'[r] = "down" /\ tx'[r] = NoTx
      /\ \A q \in Replicas \ {r} : pc'[q] = pc[q] /\ tx'[q] = tx[q]
  BY <1>1 DEF MigrationsTypeOK
<1>5. MigrationsTypeOK'
  <2>1. pc' \in [Replicas -> {"down", "find", "create", "next", "body", "record",
                             "commit", "skip", "serving"}]
    BY <1>1 DEF MigrationsTypeOK
  <2>2. NoTx \in [schema : SUBSET Versions, ledger : SUBSET Versions]
    BY DEF NoTx
  <2>3. tx' \in [Replicas -> [schema : SUBSET Versions, ledger : SUBSET Versions]]
    BY <1>1, <2>2 DEF MigrationsTypeOK
  <2>4. limbo' \subseteq [schema : SUBSET Versions, ledger : SUBSET Versions]
    BY <1>2 DEF MigrationsTypeOK
  <2> QED
    BY <1>1, <1>3, <2>1, <2>3, <2>4 DEF MigrationsTypeOK
<1>6. (LedgerIsTrue /\ AppliedInOrder /\ DoneApplied)'
  BY <1>1 DEF LedgerIsTrue, AppliedInOrder, DoneApplied
<1>7. ServesMigrated'
  BY <1>1, <1>4, MigratingAssumption DEF ServesMigrated
<1>8. TxShape'
  BY <1>1, <1>4 DEF TxShape
<1>9. AtShape'
  BY <1>1, <1>4 DEF AtShape
<1>10. LimboShape'
  <2>1. ASSUME pc[r] = "commit"
        PROVE  /\ cur[r] \in Versions /\ Lower(cur[r]) \subseteq schema
               /\ tx[r] = [schema |-> {cur[r]}, ledger |-> {cur[r]}]
    BY <2>1, KnownVersions, Zenon DEF AtShape, TxShape
  <2> QED
    BY <1>1, <1>2, <2>1 DEF LimboShape
<1> QED
  BY <1>5, <1>6, <1>7, <1>8, <1>9, <1>10

\* A COMMIT from limbo that is carried out late finds its lower versions still
\* there, since nothing is ever taken away.
LEMMA LateKeeps ==
  ASSUME MigrationsInv, NEW t \in limbo, Late(t)
  PROVE  MigrationsInv'
<1> USE DEF MigrationsInv
<1>1. limbo' = limbo \ {t} /\ UNCHANGED <<table, pc, cur, done, tx, faults>>
  BY DEF Late
<1>2. PICK v \in Versions : t = [schema |-> {v}, ledger |-> {v}] /\ Lower(v) \subseteq schema
  BY DEF LimboShape
<1>3. /\ schema \subseteq schema'
      /\ ledger' \subseteq Versions /\ schema' \subseteq Versions
      /\ LedgerIsTrue' /\ AppliedInOrder'
  <2>1. CASE Write(t)
    <3>1. Write([schema |-> {v}, ledger |-> {v}])
      BY <1>2, <2>1
    <3> QED
      BY <3>1, <1>2, WriteOne
  <2>2. CASE UNCHANGED <<schema, ledger>>
    BY <2>2 DEF LedgerIsTrue, AppliedInOrder, MigrationsTypeOK
  <2> QED
    BY <2>1, <2>2 DEF Late
<1>4. MigrationsTypeOK'
  BY <1>1, <1>3 DEF MigrationsTypeOK
<1>5. (ServesMigrated /\ DoneApplied)'
  BY <1>1, <1>3 DEF ServesMigrated, DoneApplied
<1>6. TxShape'
  BY <1>1 DEF TxShape
<1>7. AtShape'
  BY <1>1, <1>3 DEF AtShape
<1>8. LimboShape'
  BY <1>1, <1>3 DEF LimboShape
<1> QED
  BY <1>3, <1>4, <1>5, <1>6, <1>7, <1>8

-----------------------------------------------------------------------------
\* Every step of every replica and of the server keeps the invariant.
LEMMA MigrationsStep == MigrationsInv /\ [NextMigrations]_migrationVars => MigrationsInv'
<1> SUFFICES ASSUME MigrationsInv, [NextMigrations]_migrationVars PROVE MigrationsInv'
  OBVIOUS
<1>1. ASSUME NEW r \in Replicas, Run(r) \/ Conflict(r) \/ Fail(r) PROVE MigrationsInv'
  BY <1>1, QuietKeeps, CheckKeeps, TransactionKeeps, CommitKeeps, FailKeeps DEF Run
<1>2. ASSUME NEW t \in limbo, Late(t) PROVE MigrationsInv'
  BY <1>2, LateKeeps
<1>3. CASE UNCHANGED migrationVars
  <2>1. UNCHANGED <<table, ledger, schema, limbo, pc, cur, done, tx, faults>>
    BY <1>3 DEF migrationVars
  <2>2. (MigrationsTypeOK /\ LedgerIsTrue /\ AppliedInOrder /\ ServesMigrated)'
    BY <2>1 DEF MigrationsInv, MigrationsTypeOK, LedgerIsTrue, AppliedInOrder, ServesMigrated
  <2>3. (TxShape /\ AtShape /\ DoneApplied /\ LimboShape)'
    BY <2>1, Zenon DEF MigrationsInv, TxShape, AtShape, DoneApplied, LimboShape
  <2> QED
    BY <2>2, <2>3 DEF MigrationsInv
<1> QED
  BY <1>1, <1>2, <1>3 DEF NextMigrations

\* The inductive invariant holds throughout.
THEOREM MigrationsInvariant == SpecMigrations => []MigrationsInv
BY MigrationsInit, MigrationsStep, PTL DEF SpecMigrations

\* schema_migrations is the truth about the schema, however many replicas start
\* together, fail half-way or have a COMMIT carried out behind their back.
THEOREM LedgerAlwaysTrue == SpecMigrations => []LedgerIsTrue
<1>1. MigrationsInv => LedgerIsTrue
  BY DEF MigrationsInv
<1> QED
  BY <1>1, MigrationsInvariant, PTL

\* Migrations take effect in the order of their versions, with old and new
\* binaries side by side.
THEOREM MigrationsInOrder == SpecMigrations => []AppliedInOrder
<1>1. MigrationsInv => AppliedInOrder
  BY DEF MigrationsInv
<1> QED
  BY <1>1, MigrationsInvariant, PTL

\* No replica with MIGRATE_ON_START serves a request before every version that its
\* binary knows has taken effect.
THEOREM ServesOnlyMigrated == SpecMigrations => []ServesMigrated
<1>1. MigrationsInv => ServesMigrated
  BY DEF MigrationsInv
<1> QED
  BY <1>1, MigrationsInvariant, PTL

-----------------------------------------------------------------------------
(***************************************************************************)
(* The middleware (HttpStack).                                             *)
(***************************************************************************)
HttpTypeOK ==
  /\ req \in Request
  /\ layer \in 0..6 /\ going \in {"down", "back", "done"}
  /\ panicking \in BOOLEAN /\ late \in BOOLEAN
  /\ rw \in [status : Nat, wrote : BOOLEAN] /\ sent \in Nat

\* Nothing is written on the way down.
DownShape ==
  going = "down" =>
    ~panicking /\ sent = 0 /\ ~rw.wrote /\ body = <<>> /\ logged = <<>>

\* A panic is inside of Recoverer, and Timeout alone can have written meanwhile.
PanicShape ==
  panicking =>
    /\ going = "back" /\ layer >= 2
    /\ body = <<>> /\ sent \in {0, 504} /\ (sent = 504 => late)

\* responseWriter knows what is on the wire.
WriterShape ==
  /\ rw.wrote <=> sent # 0
  /\ rw.wrote => rw.status = sent

\* EnvelopeMatches, on the whole way back.
Answered ==
  /\ sent # 0
  /\ \/ body = <<>> /\ sent \in {204, 405}
     \/ Len(body) = 1 /\ body[1].status = sent
     \/ body = <<Envelope(500)>> /\ sent = 504 /\ late

\* Logger is the outermost layer, and writes its line when it is left.
LogShape ==
  /\ going = "done" => layer = 0
  /\ going # "down" =>
       IF layer = 0 THEN req.path # "probe" => logged = <<sent>> ELSE logged = <<>>

HttpInv ==
  /\ HttpTypeOK /\ DownShape /\ PanicShape /\ WriterShape /\ LogShape
  /\ going # "down" /\ ~panicking => Answered

\* What is left in r.Body is what was sent, or what LoginAccountKey put back.
BodyInv ==
  /\ req \in Request
  /\ input = req.size \/ input = Restored(req.size)

\* Where each layer is.
LEMMA LayerFacts ==
  /\ Len(Layers) = 6
  /\ Layers[1] = "Logger" /\ Layers[2] = "Recoverer" /\ Layers[3] = "BodyLimit"
  /\ Layers[4] = "Timeout" /\ Layers[5] = "CORS" /\ Layers[6] = "Limiter"
  /\ Depth("Logger") = 1 /\ Depth("Timeout") = 4 /\ Depth("CORS") = 5
<1>1. /\ Len(Layers) = 6 /\ DOMAIN Layers = 1..6
      /\ Layers[1] = "Logger" /\ Layers[2] = "Recoverer" /\ Layers[3] = "BodyLimit"
      /\ Layers[4] = "Timeout" /\ Layers[5] = "CORS" /\ Layers[6] = "Limiter"
  BY DEF Layers
<1>2. \A n \in 1..6 : n = 1 \/ n = 2 \/ n = 3 \/ n = 4 \/ n = 5 \/ n = 6
  OBVIOUS
<1>3. \A n \in DOMAIN Layers :
        /\ Layers[n] = "Logger" <=> n = 1
        /\ Layers[n] = "Timeout" <=> n = 4
        /\ Layers[n] = "CORS" <=> n = 5
  BY <1>1, <1>2
<1>4. Depth("Logger") = 1 /\ Depth("Timeout") = 4 /\ Depth("CORS") = 5
  BY <1>1, <1>3 DEF Depth
<1> QED
  BY <1>1, <1>4

\* A layer is entered and left at its place.
LEMMA LayerPlace ==
  ASSUME HttpTypeOK
  PROVE  /\ Enter("CORS") => layer = 4
         /\ Enter("Limiter") => layer = 5
         /\ Leave("Logger") => layer = 1
         /\ Leave("Recoverer") => layer = 2
         /\ Leave("Timeout") => layer = 4
         /\ \A name \in {"BodyLimit", "CORS", "Limiter"} : Leave(name) => layer \in {3, 5, 6}
<1>1. layer = 0 \/ layer = 1 \/ layer = 2 \/ layer = 3 \/ layer = 4 \/ layer = 5 \/ layer = 6
  BY DEF HttpTypeOK
<1>2. Enter("CORS") => layer = 4
  BY <1>1, LayerFacts DEF Enter
<1>3. Enter("Limiter") => layer = 5
  BY <1>1, LayerFacts DEF Enter
<1>4. Leave("Logger") => layer = 1
  BY <1>1, LayerFacts DEF Leave
<1>5. Leave("Recoverer") => layer = 2
  BY <1>1, LayerFacts DEF Leave
<1>6. Leave("Timeout") => layer = 4
  BY <1>1, LayerFacts DEF Leave
<1>7. \A name \in {"BodyLimit", "CORS", "Limiter"} : Leave(name) => layer \in {3, 5, 6}
  BY <1>1, LayerFacts DEF Leave
<1> QED
  BY <1>2, <1>3, <1>4, <1>5, <1>6, <1>7

\* A status goes out and is recorded, with the body that belongs to it.
Sends == rw' = [status |-> sent', wrote |-> TRUE] /\ sent' \in 100..999
Fills == \/ body' = <<>> /\ sent' \in {204, 405}
         \/ Len(body') = 1 /\ body'[1].status = sent'

\* An answer on the way down, by anybody.
LEMMA TurnKeeps ==
  ASSUME HttpInv, going = "down", going' = "back", layer' \in 1..6, Sends, Fills,
         UNCHANGED <<req, panicking, late, logged>>
  PROVE  HttpInv'
<1> USE DEF HttpInv, Sends, Fills
<1>1. HttpTypeOK'
  BY DEF HttpTypeOK
<1>2. DownShape' /\ PanicShape' /\ LogShape'
  BY DEF DownShape, PanicShape, LogShape
<1>3. WriterShape'
  BY DEF WriterShape
<1>4. Answered'
  <2>1. sent' # 0
    OBVIOUS
  <2> QED
    BY <2>1, Zenon DEF Answered
<1> QED
  BY <1>1, <1>2, <1>3, <1>4

\* A layer that lets the request through.
LEMMA PassKeeps ==
  ASSUME HttpInv, going = "down", layer < 6, layer' = layer + 1, NothingWritten,
         UNCHANGED <<req, going, panicking, late, logged>>
  PROVE  HttpInv'
<1> USE DEF HttpInv, NothingWritten
<1>1. HttpTypeOK'
  BY DEF HttpTypeOK
<1>2. DownShape' /\ LogShape'
  BY DEF DownShape, LogShape
<1>3. PanicShape'
  BY DEF DownShape, PanicShape
<1>4. WriterShape'
  BY DEF WriterShape
<1> QED
  BY <1>1, <1>2, <1>3, <1>4

\* chi or httprate answers.
LEMMA TextKeeps ==
  ASSUME HttpInv, going = "down", layer \in 1..6, NEW code \in 100..999, Turn(code),
         layer' \in 1..6
  PROVE  HttpInv' /\ sent' = code
<1>1. Sends /\ sent' = code
  BY LayerFacts DEF Turn, RespondText, WriteHeader, Recorded, HttpInv, DownShape, Sends
<1>2. Fills
  BY <1>1 DEF Turn, RespondText, HttpInv, DownShape, Fills
<1>3. going' = "back" /\ UNCHANGED <<req, panicking, late, logged>>
  BY DEF Turn
<1>4. HttpInv'
  BY <1>1, <1>2, <1>3, TurnKeeps
<1> QED
  BY <1>1, <1>4

\* The answers without a body.
LEMMA EmptyKeeps ==
  ASSUME HttpInv, going = "down", layer \in 1..6, NEW code \in {204, 405}, TurnEmpty(code),
         layer' \in 1..6
  PROVE  HttpInv'
<1>1. Sends /\ sent' = code
  BY LayerFacts DEF TurnEmpty, WriteHeader, Recorded, HttpInv, DownShape, Sends
<1>2. Fills
  BY <1>1 DEF TurnEmpty, HttpInv, DownShape, Fills
<1>3. going' = "back" /\ UNCHANGED <<req, panicking, late, logged>>
  BY DEF TurnEmpty
<1> QED
  BY <1>1, <1>2, <1>3, TurnKeeps

\* The layers on the way down.
LEMMA DownKeeps ==
  ASSUME HttpInv, GoDown \/ CORS \/ RefuseRoute \/ Limiter
  PROVE  HttpInv'
<1>1. HttpTypeOK
  BY DEF HttpInv
<1>2. CASE GoDown
  BY <1>2, PassKeeps, LayerFacts DEF GoDown, Enter, Pass
<1>3. CASE CORS
  <2>1. going = "down" /\ layer = 4 /\ layer' = 5
    BY <1>1, <1>3, LayerPlace DEF CORS, Enter
  <2>2. CASE Pass
    BY <2>1, <2>2, PassKeeps DEF Pass
  <2>3. CASE Preflight
    BY <2>1, <2>3, EmptyKeeps DEF Preflight
  <2> QED
    BY <1>3, <2>2, <2>3 DEF CORS
<1>4. CASE RefuseRoute
  <2>1. going = "down" /\ layer = 5 /\ layer' = 5
    BY <1>4, LayerFacts DEF RefuseRoute
  <2>2. Turn(404) \/ TurnEmpty(405)
    BY <1>4 DEF RefuseRoute
  <2> QED
    BY <2>1, <2>2, TextKeeps, EmptyKeeps
<1>5. CASE Limiter
  <2>1. going = "down" /\ layer = 5 /\ layer' = 6
    BY <1>1, <1>5, LayerPlace DEF Limiter, Enter
  <2>2. CASE Turn(429)
    BY <2>1, <2>2, TextKeeps
  <2>3. CASE NothingWritten /\ UNCHANGED <<req, going, panicking, late, logged>>
    BY <2>1, <2>3, PassKeeps
  <2> QED
    BY <1>5, <2>2, <2>3 DEF Limiter
<1> QED
  BY <1>2, <1>3, <1>4, <1>5

\* What a handler answers.
LEMMA HandlerAnswers ==
  ASSUME HttpInv, Handler
  PROVE  \E code \in {400} \cup HandlerCodes : Respond(code, 7)
<1>1. layer + 1 = 7
  BY LayerFacts DEF Handler
<1>2. CASE Reads /\ ~DecodeJSON(input)
  <2>1. Respond(400, 7)
    BY <1>1, <1>2 DEF Handler, Answer
  <2> QED
    BY <1>2, <2>1
<1>3. CASE ~(Reads /\ ~DecodeJSON(input))
  <2>1. PICK code \in HandlerCodes : Respond(code, 7)
    BY <1>1, <1>3, Zenon DEF Handler, Answer
  <2> QED
    BY <2>1, Zenon
<1> QED
  BY <1>2, <1>3

\* The handler, which answers or panics.
LEMMA HandlerKeeps ==
  ASSUME HttpInv, Handler \/ HandlerPanics
  PROVE  HttpInv'
<1>1. going = "down" /\ layer = 6 /\ layer' = 6
  BY LayerFacts DEF Handler, HandlerPanics
<1>2. CASE Handler
  <2>1. PICK code \in {400} \cup HandlerCodes : Respond(code, 7)
    BY <1>2, HandlerAnswers
  <2>2. code \in 100..999
    BY CodesAssumption
  <2>3. Sends /\ sent' = code
    BY <1>1, <2>1, <2>2, LayerFacts DEF Respond, WriteHeader, Recorded, HttpInv, DownShape, Sends
  <2>4. Fills
    BY <1>1, <2>1, <2>3 DEF Respond, Envelope, HttpInv, DownShape, Fills
  <2>5. going' = "back" /\ UNCHANGED <<req, panicking, late, logged>>
    BY <1>2 DEF Handler
  <2>6. layer' \in 1..6
    BY <1>1
  <2> QED
    BY <1>1, <2>3, <2>4, <2>5, <2>6, TurnKeeps
<1>3. CASE HandlerPanics
  BY <1>1, <1>3 DEF HandlerPanics, NothingWritten, HttpInv, HttpTypeOK, DownShape, PanicShape,
                    WriterShape, LogShape
<1> QED
  BY <1>2, <1>3

\* Layers that only pass the response on.
LEMMA QuietBackKeeps ==
  ASSUME HttpInv, LeaveQuietly
  PROVE  HttpInv'
<1>1. going = "back" /\ layer \in {3, 5, 6} /\ layer' = layer - 1
  BY LayerPlace DEF LeaveQuietly, Leave, HttpInv
<1>2. UNCHANGED <<req, going, panicking, late, rw, sent, body, logged>>
  BY DEF LeaveQuietly, Leave, NothingWritten
<1>3. HttpTypeOK' /\ layer' >= 2
  BY <1>1, <1>2 DEF HttpInv, HttpTypeOK
<1> QED
  BY <1>1, <1>2, <1>3 DEF HttpInv, DownShape, PanicShape, WriterShape, Answered, LogShape

\* Timeout: 504 is sent only where nothing was, which is after a panic.
LEMMA TimeoutKeeps ==
  ASSUME HttpInv, LeaveTimeout
  PROVE  HttpInv'
<1>1. going = "back" /\ layer = 4 /\ layer' = 3
  BY LayerPlace DEF LeaveTimeout, Leave, HttpInv
<1>2. UNCHANGED <<req, going, panicking, late, body, logged>>
  BY DEF LeaveTimeout, Leave
<1>3. CASE UNCHANGED <<rw, sent>>
  BY <1>1, <1>2, <1>3 DEF HttpInv, HttpTypeOK, DownShape, PanicShape, WriterShape,
                          Answered, LogShape
<1>4. CASE late /\ WriteHeader(504, 4)
  <2>1. /\ rw' = IF rw.wrote THEN rw ELSE [status |-> 504, wrote |-> TRUE]
        /\ sent' = IF sent = 0 THEN 504 ELSE sent
    BY <1>4, LayerFacts DEF WriteHeader, Recorded
  <2>2. CASE sent # 0
    <3>1. UNCHANGED <<rw, sent>>
      BY <2>1, <2>2 DEF HttpInv, WriterShape
    <3> QED
      BY <1>3, <3>1
  <2>3. CASE sent = 0
    <3>1. rw' = [status |-> 504, wrote |-> TRUE] /\ sent' = 504
      BY <2>1, <2>3 DEF HttpInv, WriterShape
    <3>2. panicking
      BY <1>1, <2>3 DEF HttpInv, HttpTypeOK, Answered
    <3>3. HttpTypeOK'
      BY <1>1, <1>2, <3>1 DEF HttpInv, HttpTypeOK
    <3> QED
      BY <1>1, <1>2, <1>4, <3>1, <3>2, <3>3 DEF HttpInv, DownShape, PanicShape, WriterShape, LogShape
  <2> QED
    BY <2>2, <2>3
<1> QED
  BY <1>1, <1>3, <1>4 DEF LeaveTimeout

\* Recoverer: a panic becomes an envelope of its own.
LEMMA RecovererKeeps ==
  ASSUME HttpInv, LeaveRecoverer
  PROVE  HttpInv'
<1>1. going = "back" /\ layer = 2 /\ layer' = 1 /\ ~panicking' /\ panicking' \in BOOLEAN
  <2>1. going = "back" /\ layer = 2 /\ layer' = layer - 1
    BY LayerPlace DEF LeaveRecoverer, Leave, HttpInv
  <2>2. ~panicking' /\ panicking' \in BOOLEAN
    BY Zenon DEF LeaveRecoverer
  <2> QED
    BY <2>1, <2>2
<1>2. UNCHANGED <<req, going, late, logged>>
  BY DEF LeaveRecoverer, Leave
<1>3. CASE ~panicking
  <2>1. UNCHANGED <<rw, sent, body, panicking>>
    BY <1>1, <1>3 DEF LeaveRecoverer, NothingWritten, HttpInv, HttpTypeOK
  <2> QED
    BY <1>1, <1>2, <1>3, <2>1 DEF HttpInv, HttpTypeOK, DownShape, PanicShape, WriterShape,
                                  Answered, LogShape
<1>4. CASE panicking
  <2>1. /\ rw' = IF rw.wrote THEN rw ELSE [status |-> 500, wrote |-> TRUE]
        /\ sent' = IF sent = 0 THEN 500 ELSE sent
        /\ body' = Append(body, Envelope(500))
    BY <1>1, <1>4, LayerFacts DEF LeaveRecoverer, AnswerPanic, Respond, WriteHeader, Recorded
  <2>2. body' = <<Envelope(500)>>
    BY <1>4, <2>1 DEF HttpInv, PanicShape
  <2>3. CASE sent = 0
    <3>1. sent' = 500 /\ rw' = [status |-> 500, wrote |-> TRUE]
      BY <2>1, <2>3 DEF HttpInv, WriterShape
    <3>2. Answered'
      BY <2>2, <3>1 DEF Answered, Envelope
    <3>3. HttpTypeOK'
      BY <1>1, <1>2, <3>1 DEF HttpInv, HttpTypeOK
    <3>4. WriterShape'
      BY <3>1 DEF WriterShape
    <3> QED
      BY <1>1, <1>2, <3>2, <3>3, <3>4 DEF HttpInv, DownShape, PanicShape, LogShape
  <2>4. CASE sent # 0
    <3>1. sent = 504 /\ late
      BY <1>4, <2>4 DEF HttpInv, PanicShape
    <3>2. UNCHANGED <<rw, sent>>
      BY <2>1, <2>4 DEF HttpInv, WriterShape
    <3>3. Answered'
      BY <1>2, <2>2, <3>1, <3>2 DEF Answered
    <3>4. HttpTypeOK' /\ WriterShape'
      BY <1>1, <1>2, <3>2 DEF HttpInv, HttpTypeOK, WriterShape
    <3> QED
      BY <1>1, <1>2, <3>3, <3>4 DEF HttpInv, DownShape, PanicShape, LogShape
  <2> QED
    BY <2>3, <2>4
<1> QED
  BY <1>3, <1>4

\* Logger, net/http at the end, and the deadline at any moment.
LEMMA EndKeeps ==
  ASSUME HttpInv, LeaveLogger \/ Finish \/ Deadline
  PROVE  HttpInv'
<1>1. CASE LeaveLogger
  <2>1. going = "back" /\ layer = 1 /\ layer' = 0 /\ ~panicking
    BY <1>1, LayerPlace DEF LeaveLogger, Leave, HttpInv, PanicShape
  <2>2. UNCHANGED <<req, going, panicking, late, rw, sent, body>>
    BY <1>1 DEF LeaveLogger, Leave, NothingWritten
  <2>3. rw.status = sent /\ logged = <<>>
    BY <2>1 DEF HttpInv, WriterShape, Answered, LogShape
  <2>4. req.path # "probe" => logged' = <<sent>>
    BY <1>1, <2>3 DEF LeaveLogger
  <2>5. HttpTypeOK'
    BY <2>1, <2>2 DEF HttpInv, HttpTypeOK
  <2> QED
    BY <2>1, <2>2, <2>4, <2>5 DEF HttpInv, DownShape, PanicShape, WriterShape, Answered, LogShape
<1>2. CASE Finish
  <2>1. going = "back" /\ layer = 0 /\ ~panicking /\ sent # 0
    BY <1>2 DEF Finish, HttpInv, PanicShape, Answered
  <2>2. /\ going' = "done"
        /\ UNCHANGED <<req, layer, panicking, late, rw, sent, body, logged>>
    BY <1>2, <2>1 DEF Finish
  <2>3. HttpTypeOK' /\ LogShape'
    BY <2>1, <2>2 DEF HttpInv, HttpTypeOK, LogShape
  <2>4. Answered'
    BY <2>1, <2>2 DEF HttpInv, Answered
  <2>5. DownShape' /\ PanicShape' /\ WriterShape'
    BY <2>1, <2>2 DEF HttpInv, DownShape, PanicShape, WriterShape
  <2> QED
    BY <2>2, <2>3, <2>4, <2>5 DEF HttpInv
<1>3. CASE Deadline
  <2>1. late' /\ UNCHANGED <<req, layer, going, panicking, rw, sent, body, logged>>
    BY <1>3 DEF Deadline
  <2> QED
    BY <2>1 DEF HttpInv, HttpTypeOK, DownShape, PanicShape, WriterShape, Answered, LogShape
<1> QED
  BY <1>1, <1>2, <1>3

\* Every step of a request keeps the invariant.
LEMMA HttpStep == HttpInv /\ [NextHttp]_httpVars => HttpInv'
<1> SUFFICES ASSUME HttpInv, [NextHttp]_httpVars PROVE HttpInv'
  OBVIOUS
<1>1. CASE NextHttp
  BY <1>1, DownKeeps, HandlerKeeps, QuietBackKeeps, TimeoutKeeps, RecovererKeeps, EndKeeps
     DEF NextHttp
<1>2. CASE UNCHANGED httpVars
  <2>1. UNCHANGED <<req, layer, going, panicking, late, rw, sent, body, logged>>
    BY <1>2 DEF httpVars
  <2>2. HttpTypeOK'
    BY <2>1 DEF HttpInv, HttpTypeOK
  <2>3. DownShape' /\ PanicShape'
    BY <2>1 DEF HttpInv, DownShape, PanicShape
  <2>4. WriterShape' /\ LogShape'
    BY <2>1 DEF HttpInv, WriterShape, LogShape
  <2>5. (going # "down" /\ ~panicking => Answered)'
    BY <2>1 DEF HttpInv, Answered
  <2> QED
    BY <2>2, <2>3, <2>4, <2>5 DEF HttpInv
<1> QED
  BY <1>1, <1>2

\* A request that has just come satisfies it.
LEMMA HttpInit == InitHttp => HttpInv
<1> SUFFICES ASSUME InitHttp PROVE HttpInv
  OBVIOUS
<1>1. HttpTypeOK
  <2>1. rw \in [status : Nat, wrote : BOOLEAN]
    BY DEF InitHttp
  <2>2. panicking \in BOOLEAN /\ late \in BOOLEAN
    BY Zenon DEF InitHttp
  <2>3. req \in Request /\ layer \in 0..6 /\ going \in {"down", "back", "done"} /\ sent \in Nat
    BY DEF InitHttp
  <2> QED
    BY <2>1, <2>2, <2>3 DEF HttpTypeOK
<1>2. DownShape /\ PanicShape /\ WriterShape /\ LogShape
  BY DEF InitHttp, DownShape, PanicShape, WriterShape, LogShape
<1> QED
  BY <1>1, <1>2 DEF InitHttp, HttpInv

\* Through panics, deadlines and both, the line of Logger has the status that the
\* client got.
THEOREM LogsWhatWasSent == SpecHttp => []LoggedAsSent
<1>1. HttpInv => LoggedAsSent
  BY DEF HttpInv, LogShape, LoggedAsSent
<1> QED
  BY <1>1, HttpInit, HttpStep, PTL DEF SpecHttp

\* Through the same, what the client reads after the status belongs to it.
THEOREM EnvelopeAlwaysMatches == SpecHttp => []EnvelopeMatches
<1>1. HttpInv => EnvelopeMatches
  BY DEF HttpInv, PanicShape, Answered, EnvelopeMatches
<1> QED
  BY <1>1, HttpInit, HttpStep, PTL DEF SpecHttp

\* LoginAccountKey reads the body at most once, and what it puts back is left
\* alone by a second reading.
LEMMA BodyStep == BodyInv /\ [NextHttp]_httpVars => BodyInv'
<1> SUFFICES ASSUME BodyInv, [NextHttp]_httpVars PROVE BodyInv'
  OBVIOUS
<1>1. req' = req /\ (input' = input \/ input' = Restored(input))
  <2>1. CASE GoDown \/ CORS \/ RefuseRoute \/ Limiter
    BY <2>1 DEF GoDown, CORS, RefuseRoute, Limiter, Pass, Turn, TurnEmpty, Preflight
  <2>2. CASE Handler \/ HandlerPanics \/ Finish \/ Deadline \/ UNCHANGED httpVars
    BY <2>2 DEF Handler, HandlerPanics, Finish, Deadline, httpVars
  <2>3. CASE LeaveQuietly \/ LeaveTimeout \/ LeaveRecoverer \/ LeaveLogger
    BY <2>3 DEF LeaveQuietly, LeaveTimeout, LeaveRecoverer, LeaveLogger, Leave
  <2> QED
    BY <2>1, <2>2, <2>3 DEF NextHttp
<1>2. Restored(Restored(req.size)) = Restored(req.size)
  BY DEF BodyInv, Request, Sizes, Restored
<1> QED
  BY <1>1, <1>2 DEF BodyInv

\* Whatever the statuses that handlers choose: a handler decodes the body that
\* was sent, also the one that LoginAccountKey has read before it.
THEOREM BodyAlwaysAsSent == SpecHttp => []BodyDecodedAsSent
<1>1. InitHttp => BodyInv
  BY DEF InitHttp, BodyInv
<1>2. BodyInv => BodyDecodedAsSent
  <2> SUFFICES ASSUME BodyInv
               PROVE  /\ req.size \in {"fits", "two"} => input = req.size
                      /\ DecodeJSON(input) = DecodeJSON(req.size)
    BY DEF BodyDecodedAsSent
  <2>1. req.size \in Sizes
    BY DEF BodyInv, Request
  <2> QED
    BY <2>1 DEF BodyInv, Sizes, Restored, DecodeJSON
<1> QED
  BY <1>1, <1>2, BodyStep, PTL DEF SpecHttp

-----------------------------------------------------------------------------
(***************************************************************************)
(* Start and stop (Server).                                                *)
(***************************************************************************)
\* run is on its way out: its deferred calls, and after them.
Ending == {"defers", "closePool", "waitPool", "exited"}

ServerTypeOK ==
  /\ phase \in Starting \cup {"notify", "serving", "draining", "killed"} \cup Ending
  /\ listen \in {"off", "on", "failed"}
  /\ quit \in BOOLEAN /\ timeUp \in BOOLEAN
  /\ result \in {"none", "nil", "error"}
  /\ conn \in [Requests -> {"new", "running", "holding", "answered", "failed", "lost"}]

\* Nothing is accepted before both clients are open, and they stay open until
\* Shutdown has result.
OpenShape ==
  /\ phase \in Starting => listen = "off" /\ \A q \in Requests : conn[q] = "new"
  /\ phase = "redis" => pg = "open"
  /\ phase \in {"bootstrap", "notify", "serving", "draining"} =>
       pg = "open" /\ redis = "open"

\* Nothing is accepted from the moment Shutdown is called.
StopShape ==
  /\ phase \in {"draining", "killed"} \cup Ending => listen # "on"
  /\ result # "none" => phase \in Ending

\* OnlyForcedStopFails, with the phases in place of the result.
Unharmed ==
  \/ timeUp \/ phase = "killed"
  \/ /\ \A q \in Requests : conn[q] \notin {"failed", "lost"}
     /\ phase \in Ending => \A q \in Requests : conn[q] \notin {"running", "holding"}

ServerInv == ServerTypeOK /\ OpenShape /\ StopShape /\ Unharmed

\* A process that has just been started satisfies the invariant.
LEMMA ServerInit == InitServer => ServerInv
BY Zenon DEF InitServer, ServerInv, ServerTypeOK, OpenShape, StopShape, Unharmed, Starting, Ending

\* Steps of the start, also one that fails: no request has come yet.
LEMMA StartKeeps ==
  ASSUME ServerInv, StartUp
  PROVE  ServerInv'
<1> USE DEF ServerInv, Starting, Ending
<1>1. ASSUME Migrate \/ OpenPool \/ OpenRedis \/ Notify PROVE ServerInv'
  BY <1>1 DEF Migrate, OpenPool, OpenRedis, Notify, StartStep,
              ServerTypeOK, OpenShape, StopShape, Unharmed
<1>2. CASE Listen
  BY <1>2 DEF Listen, ServerTypeOK, OpenShape, StopShape, Unharmed
<1>3. CASE StartFails
  BY <1>3 DEF StartFails, ServerTypeOK, OpenShape, StopShape, Unharmed
<1> QED
  BY <1>1, <1>2, <1>3 DEF StartUp

\* Steps of a request: while one can run and no timeout has passed, both clients
\* are open.
LEMMA RequestKeeps ==
  ASSUME ServerInv, NEW q \in Requests, AcceptRequest(q) \/ Handle(q)
  PROVE  ServerInv'
<1> USE DEF ServerInv
<1>1. UNCHANGED <<phase, listen, pg, redis, quit, timeUp, result>>
  BY DEF AcceptRequest, Handle, Acquire, GiveBack, MissRedis, AnswerRequest
<1>2. PICK s \in {"running", "holding", "answered", "failed"} :
        /\ conn' = [conn EXCEPT ![q] = s]
        /\ s = "failed" => pg # "open" \/ redis = "closed"
  BY DEF AcceptRequest, Handle, Acquire, GiveBack, MissRedis, AnswerRequest
<1>3. conn'[q] = s /\ \A p \in Requests \ {q} : conn'[p] = conn[p]
  BY <1>2 DEF ServerTypeOK
<1>4. \/ conn[q] = "new" /\ listen = "on"
      \/ conn[q] \in {"running", "holding"}
  BY DEF AcceptRequest, Handle, Acquire, GiveBack, MissRedis, AnswerRequest
<1>5. phase \notin Starting
  BY <1>4 DEF OpenShape
<1>6. ServerTypeOK'
  BY <1>1, <1>2 DEF ServerTypeOK
<1>7. OpenShape' /\ StopShape'
  BY <1>1, <1>5 DEF OpenShape, StopShape
<1>8. ASSUME ~timeUp, phase # "killed" PROVE phase \notin Ending
  BY <1>4, <1>8 DEF StopShape, Unharmed
<1>9. Unharmed'
  BY <1>1, <1>2, <1>3, <1>5, <1>8 DEF Unharmed, OpenShape, ServerTypeOK
<1> QED
  BY <1>6, <1>7, <1>9

\* A signal, or the end of the listener.
LEMMA EventKeeps ==
  ASSUME ServerInv, Signal \/ ListenFails
  PROVE  ServerInv'
<1> USE DEF ServerInv, Starting, Ending
<1>1. CASE ListenFails
  BY <1>1, Zenon DEF ListenFails, ServerTypeOK, OpenShape, StopShape, Unharmed
<1>2. CASE Signal /\ phase = "serving"
  BY <1>2, Zenon DEF Signal, ServerTypeOK, OpenShape, StopShape, Unharmed
<1>3. CASE Signal /\ phase # "serving"
  <2>1. /\ phase' = "killed" /\ listen' = "off"
        /\ conn' = [q \in Requests |-> IF q \in Active THEN "lost" ELSE conn[q]]
        /\ phase \notin Ending
        /\ UNCHANGED <<pg, redis, quit, timeUp, result>>
    BY <1>3 DEF Signal
  <2>2. conn' \in [Requests -> {"new", "running", "holding", "answered", "failed", "lost"}]
    BY <2>1 DEF ServerTypeOK
  <2> QED
    BY <2>1, <2>2 DEF ServerTypeOK, OpenShape, StopShape, Unharmed
<1> QED
  BY <1>1, <1>2, <1>3

\* Steps of the stop: Shutdown waits for the requests, and the clients are closed
\* after it.
LEMMA StopKeeps ==
  ASSUME ServerInv, Stop
  PROVE  ServerInv'
<1> USE DEF ServerInv, Starting, Ending
<1>1. CASE BeginShutdown
  BY <1>1 DEF BeginShutdown, ListenerAfter, ServerTypeOK, OpenShape, StopShape, Unharmed
<1>2. CASE StopCleanly
  <2>1. \A q \in Requests : conn[q] \notin {"running", "holding"}
    BY <1>2 DEF StopCleanly, Drained, Active
  <2> QED
    BY <1>2, <2>1 DEF StopCleanly, ServerTypeOK, OpenShape, StopShape, Unharmed
<1>3. CASE ExpireShutdown
  BY <1>3 DEF ExpireShutdown, ServerTypeOK, OpenShape, StopShape, Unharmed
<1>4. CASE CloseRedis \/ ClosePool
  BY <1>4, Zenon DEF CloseRedis, ClosePool, ServerTypeOK, OpenShape, StopShape, Unharmed
<1>5. CASE Exit
  <2>1. /\ phase = "waitPool" /\ phase' = "exited"
        /\ conn' = [q \in Requests |-> IF q \in Active THEN "lost" ELSE conn[q]]
        /\ UNCHANGED <<listen, redis, quit, timeUp, result>>
    BY <1>5 DEF Exit
  <2>2. conn' \in [Requests -> {"new", "running", "holding", "answered", "failed", "lost"}]
    BY <2>1 DEF ServerTypeOK
  <2>3. ASSUME ~timeUp PROVE \A q \in Requests : conn'[q] = conn[q]
    BY <2>1, <2>3 DEF Unharmed, Active
  <2> QED
    BY <2>1, <2>2, <2>3, Zenon DEF ServerTypeOK, OpenShape, StopShape, Unharmed
<1> QED
  BY <1>1, <1>2, <1>3, <1>4, <1>5 DEF Stop

\* Every step keeps the invariant.
LEMMA ServerStep == ServerInv /\ [NextServer]_serverVars => ServerInv'
<1> SUFFICES ASSUME ServerInv, [NextServer]_serverVars PROVE ServerInv'
  OBVIOUS
<1>1. CASE NextServer
  BY <1>1, StartKeeps, RequestKeeps, EventKeeps, StopKeeps DEF NextServer
<1>2. CASE UNCHANGED serverVars
  BY <1>2 DEF serverVars, ServerInv, ServerTypeOK, OpenShape, StopShape, Unharmed
<1> QED
  BY <1>1, <1>2

\* However signals, failures of the start and requests interleave, a stop that is
\* not forced cuts off no request, and no request meets a closed client.
THEOREM CleanStopLosesNothing == SpecServer => []OnlyForcedStopFails
<1>1. ServerInv => OnlyForcedStopFails
  BY DEF ServerInv, ServerTypeOK, StopShape, Unharmed, OnlyForcedStopFails, Active
<1> QED
  BY <1>1, ServerInit, ServerStep, PTL DEF SpecServer

-----------------------------------------------------------------------------
(***************************************************************************)
(* The client address (ClientAddress).                                     *)
(***************************************************************************)
AddressTypeOK ==
  /\ route \in Seq(Hosts) /\ Len(route) >= 1
  /\ header \in Seq(Entry) /\ i \in 0..Len(header)
  /\ stage \in {"travelling", "scanning", "done"}

\* The entry of X-Forwarded-For that the proxy after host k of the route wrote.
EntryOf(k) == Len(header) - Len(route) + 1 + k

\* The header ends with the real route up to the peer.
TailIsRoute ==
  /\ Len(route) - 1 <= Len(header)
  /\ \A k \in 1..(Len(route) - 1) :
       header[EntryOf(k)] \in Address /\ header[EntryOf(k)].host = route[k]
  /\ peer = Plain(route[Len(route)])
  /\ stage # "done" => remote = peer

\* What the loop is past are trusted proxies.
ScanShape ==
  stage = "scanning" =>
    /\ Listed(route[Len(route)])
    /\ \A j \in (i + 1)..Len(header) : header[j] # Malformed /\ isTrusted(Unmap(header[j]))

AddressInv == AddressTypeOK /\ TailIsRoute /\ ScanShape /\ ChargedToNearest

\* An address is trusted for its host, however it is written, and is not
\* malformed.
LEMMA TrustOfHost ==
  ASSUME NEW a \in Address
  PROVE  /\ Unmap(a) = Plain(a.host) /\ a # Malformed
         /\ isTrusted(Unmap(a)) <=> Listed(a.host)
<1>1. Unmap(a) = Plain(a.host)
  <2>1. PICK h \in Hosts, b \in BOOLEAN : a = [host |-> h, mapped |-> b]
    BY DEF Address
  <2>2. \A f : [a EXCEPT !.mapped = f] = [host |-> a.host, mapped |-> f]
    BY <2>1
  <2>3. [a EXCEPT !.mapped = FALSE] = [host |-> a.host, mapped |-> FALSE]
    BY <2>2, Zenon
  <2> QED
    BY <2>3, Zenon DEF Unmap, Plain
<1>2. a # Malformed
  BY HostsAssumption DEF Address, Malformed
<1> QED
  BY <1>1, <1>2 DEF Listed

\* The loop ends at the nearest host that is not trusted, or has not got there.
LEMMA ScanReaches ==
  ASSUME AddressInv, stage = "scanning",
         NEW k \in DOMAIN route, ~Listed(route[k]), Nearest(k)
  PROVE  /\ i # 0 /\ header[i] \in Address
         /\ isTrusted(Unmap(header[i])) \/ header[i].host = route[k]
<1> DEFINE n == Len(route)
           m == Len(header)
           p == EntryOf(k)
<1>1. n \in Nat /\ m \in Nat /\ i \in 0..m /\ n - 1 <= m /\ n >= 1 /\ k \in 1..n
  <2>1. /\ route \in Seq(Hosts) /\ header \in Seq(Entry) /\ Len(route) >= 1
        /\ i \in 0..Len(header) /\ Len(route) - 1 <= Len(header)
    BY Zenon DEF AddressInv, AddressTypeOK, TailIsRoute
  <2> QED
    BY <2>1
<1>2. k \in 1..(n - 1)
  BY <1>1 DEF AddressInv, ScanShape
<1>3. p = m - n + 1 + k /\ p \in 1..m
  BY <1>1, <1>2 DEF EntryOf
<1>4. header[p] \in Address /\ header[p].host = route[k]
  BY <1>2, Zenon DEF AddressInv, TailIsRoute
<1>5. ~isTrusted(Unmap(header[p]))
  BY <1>4, TrustOfHost, Zenon
<1>6. ~(p \in (i + 1)..m)
  BY <1>5 DEF AddressInv, ScanShape
<1>7. p <= i
  BY <1>1, <1>3, <1>6
<1>8. CASE p = i
  <2>1. i # 0
    BY <1>3, <1>8
  <2> QED
    BY <1>4, <1>8, <2>1, Zenon
<1>9. CASE p < i
  <2> DEFINE l == i - (m - n + 1)
  <2>1. l \in (k + 1)..(n - 1) /\ EntryOf(l) = i
    BY <1>1, <1>2, <1>3, <1>9 DEF EntryOf
  <2>2. l \in 1..(n - 1) /\ l \in (k + 1)..n
    BY <1>1, <1>2, <2>1
  <2>3. header[i] \in Address /\ header[i].host = route[l]
    BY <2>1, <2>2 DEF AddressInv, TailIsRoute
  <2>4. Listed(route[l])
    BY <2>2 DEF Nearest
  <2> QED
    BY <1>3, <1>9, <2>3, <2>4, TrustOfHost
<1>10. i # 0 /\ (p = i \/ p < i)
  BY <1>1, <1>3, <1>7
<1> QED
  BY <1>8, <1>9, <1>10, Zenon

\* A request at the first host.
LEMMA AddressInit ==
  ASSUME InitAddress
  PROVE  AddressInv
<1>1. PICK h \in Hosts : route = <<h>> /\ peer = Plain(h) /\ remote = peer
  BY DEF InitAddress
<1>2. header \in Seq(Entry)
  <2>1. PICK l \in 0..MaxOwn : header \in [1..l -> Entry]
    BY DEF InitAddress
  <2>2. l \in Nat
    BY HostsAssumption
  <2> QED
    BY <2>1, <2>2
<1>3. AddressTypeOK
  BY <1>1, <1>2 DEF InitAddress, AddressTypeOK
<1>4. TailIsRoute
  BY <1>1, <1>2 DEF TailIsRoute, InitAddress
<1>5. ScanShape /\ ChargedToNearest
  BY DEF InitAddress, ScanShape, ChargedToNearest
<1> QED
  BY <1>3, <1>4, <1>5 DEF AddressInv

\* A proxy adds the host before it to the header.
LEMMA ForwardKeeps ==
  ASSUME AddressInv, Forward
  PROVE  AddressInv'
<1>1. PICK h \in Hosts, written \in BOOLEAN :
        /\ header' = Append(header, [peer EXCEPT !.mapped = written])
        /\ peer' = Plain(h) /\ remote' = peer' /\ route' = Append(route, h)
  BY DEF Forward
<1>2. stage = "travelling" /\ UNCHANGED <<stage, i>>
  BY DEF Forward
<1> DEFINE n == Len(route)
           m == Len(header)
           e == [peer EXCEPT !.mapped = written]
<1>3. /\ route \in Seq(Hosts) /\ header \in Seq(Entry) /\ n \in Nat /\ m \in Nat
      /\ n >= 1 /\ n - 1 <= m /\ i \in 0..m /\ route[n] \in Hosts
  BY DEF AddressInv, AddressTypeOK, TailIsRoute
<1>4. e \in Address /\ e.host = route[n]
  BY <1>3 DEF AddressInv, TailIsRoute, Plain, Address
<1>5. /\ route' \in Seq(Hosts) /\ Len(route') = n + 1
      /\ route'[n + 1] = h /\ \A k \in 1..n : route'[k] = route[k]
  BY <1>1, <1>3
<1>6. /\ header' \in Seq(Entry) /\ Len(header') = m + 1
      /\ header'[m + 1] = e /\ \A j \in 1..m : header'[j] = header[j]
  BY <1>1, <1>3, <1>4 DEF Entry
<1>7. AddressTypeOK'
  BY <1>2, <1>3, <1>5, <1>6 DEF AddressInv, AddressTypeOK
<1>8. TailIsRoute'
  <2>1. ASSUME NEW k \in 1..n
        PROVE  header'[(EntryOf(k))'] \in Address /\ header'[(EntryOf(k))'].host = route'[k]
    <3>1. (EntryOf(k))' = m - n + 1 + k
      BY <1>3, <1>5, <1>6 DEF EntryOf
    <3>2. CASE k = n
      <4>1. (EntryOf(k))' = m + 1
        BY <1>3, <3>1, <3>2
      <4>2. header'[(EntryOf(k))'] = e /\ route'[k] = route[n]
        BY <1>3, <1>5, <1>6, <3>2, <4>1
      <4> QED
        BY <1>4, <4>2
    <3>3. CASE k \in 1..(n - 1)
      <4>1. EntryOf(k) = m - n + 1 + k /\ EntryOf(k) \in 1..m
        BY <1>3, <3>3 DEF EntryOf
      <4> QED
        BY <1>5, <1>6, <3>1, <3>3, <4>1 DEF AddressInv, TailIsRoute
    <3> QED
      BY <1>3, <3>2, <3>3
  <2>2. Len(route') - 1 = n /\ n <= Len(header')
    BY <1>3, <1>5, <1>6
  <2>3. peer' = Plain(route'[Len(route')]) /\ remote' = peer'
    BY <1>1, <1>5
  <2> QED
    BY <2>1, <2>2, <2>3 DEF TailIsRoute
<1>9. ScanShape' /\ ChargedToNearest'
  BY <1>2, Zenon DEF ScanShape, ChargedToNearest
<1> QED
  BY <1>7, <1>8, <1>9 DEF AddressInv

\* The request is at the server: headers are read only if the peer is trusted.
LEMMA ArriveKeeps ==
  ASSUME AddressInv, Arrive
  PROVE  AddressInv'
<1>1. /\ stage = "travelling" /\ i' = Len(header)
      /\ stage' = IF Believes THEN "scanning" ELSE "done"
      /\ UNCHANGED <<route, peer, header, remote>>
  BY DEF Arrive, LastEntry
<1>2. /\ peer = Plain(route[Len(route)]) /\ remote = peer
      /\ Len(route) \in Nat /\ Len(header) \in Nat /\ Len(route) \in DOMAIN route
      /\ DOMAIN route = 1..Len(route)
  BY <1>1 DEF AddressInv, AddressTypeOK, TailIsRoute
<1>3. Believes <=> Listed(route[Len(route)])
  BY <1>2 DEF Believes, Listed, isTrusted
<1>4. AddressTypeOK' /\ TailIsRoute'
  <2>1. i' \in 0..Len(header')
    BY <1>1, <1>2
  <2>2. AddressTypeOK'
    BY <1>1, <2>1, Zenon DEF AddressInv, AddressTypeOK
  <2>3. TailIsRoute'
    BY <1>1, <1>2, Zenon DEF AddressInv, TailIsRoute, EntryOf
  <2> QED
    BY <2>2, <2>3, Zenon
<1>5. ScanShape'
  BY <1>1, <1>2, <1>3 DEF ScanShape, Listed, isTrusted
<1>6. ChargedToNearest'
  <2> SUFFICES ASSUME stage' = "done", NEW k \in DOMAIN route, ~Listed(route[k]),
                      \A j \in (k + 1)..Len(route) : Listed(route[j])
               PROVE  remote.host = route[k]
    BY <1>1, Zenon DEF ChargedToNearest, Nearest, Listed, isTrusted
  <2>1. ~Listed(route[Len(route)])
    BY <1>1, <1>3
  <2>2. k = Len(route)
    BY <1>2, <2>1
  <2> QED
    BY <1>2, <2>2 DEF Plain
<1> QED
  BY <1>4, <1>5, <1>6 DEF AddressInv

\* One round of the loop.
LEMMA ScanKeeps ==
  ASSUME AddressInv, Scan
  PROVE  AddressInv'
<1>1. stage = "scanning" /\ UNCHANGED <<route, peer, header>>
  BY DEF Scan
<1>2. Len(header) \in Nat /\ i \in 0..Len(header)
  BY DEF AddressInv, AddressTypeOK
<1>3. CASE stage' = "done" /\ UNCHANGED i
  <2>1. AddressTypeOK' /\ TailIsRoute' /\ ScanShape'
    BY <1>1, <1>3, Zenon DEF AddressInv, AddressTypeOK, TailIsRoute, EntryOf, ScanShape
  <2>2. ChargedToNearest'
    <3> SUFFICES ASSUME NEW k \in DOMAIN route, ~Listed(route[k]), Nearest(k)
                 PROVE  remote'.host = route[k]
      BY <1>1, Zenon DEF ChargedToNearest, Nearest, Listed, isTrusted
    <3>1. /\ i # 0 /\ header[i] \in Address
          /\ isTrusted(Unmap(header[i])) \/ header[i].host = route[k]
      BY <1>1, ScanReaches
    <3>2. header[i] # Malformed
      BY <3>1, TrustOfHost, Zenon
    <3>3. ~isTrusted(Unmap(header[i])) /\ remote' = Unmap(header[i])
      BY <1>1, <1>3, <3>1, <3>2, Zenon DEF Scan
    <3>4. header[i].host = route[k] /\ remote' = Plain(route[k])
      BY <3>1, <3>3, TrustOfHost, Zenon
    <3> QED
      BY <3>4 DEF Plain
  <2> QED
    BY <2>1, <2>2, Zenon DEF AddressInv
<1>4. CASE /\ i # 0 /\ header[i] # Malformed /\ isTrusted(Unmap(header[i]))
           /\ i' = i - 1 /\ UNCHANGED <<remote, stage>>
  <2>1. AddressTypeOK' /\ TailIsRoute' /\ ChargedToNearest'
    <3>1. i' \in 0..Len(header)
      BY <1>2, <1>4
    <3>2. AddressTypeOK'
      BY <1>1, <1>4, <3>1 DEF AddressInv, AddressTypeOK
    <3>3. TailIsRoute'
      BY <1>1, <1>4 DEF AddressInv, TailIsRoute, EntryOf
    <3> QED
      BY <1>1, <1>4, <3>2, <3>3, Zenon DEF ChargedToNearest
  <2>2. \A j \in (i' + 1)..Len(header) : j = i \/ j \in (i + 1)..Len(header)
    BY <1>2, <1>4
  <2>3. \A j \in (i' + 1)..Len(header) : header[j] # Malformed /\ isTrusted(Unmap(header[j]))
    BY <1>1, <1>4, <2>2 DEF AddressInv, ScanShape
  <2>4. ScanShape'
    BY <1>1, <1>4, <2>3 DEF AddressInv, ScanShape, Listed, isTrusted
  <2> QED
    BY <2>1, <2>4 DEF AddressInv
<1> QED
  BY <1>1, <1>3, <1>4 DEF Scan, FallBack, MalformedEntry

\* However many proxies and however long a header, and whatever the client wrote
\* into it, the request is charged to the nearest host outside of the trusted ones.
THEOREM ChargedAlwaysToNearest == SpecAddress => []ChargedToNearest
<1>1. ASSUME AddressInv, [NextAddress]_addressVars PROVE AddressInv'
  <2>1. CASE NextAddress
    BY <1>1, <2>1, ForwardKeeps, ArriveKeeps, ScanKeeps DEF NextAddress
  <2>2. CASE UNCHANGED addressVars
    <3>1. UNCHANGED <<route, peer, header, stage, i, remote>>
      BY <2>2 DEF addressVars
    <3>2. AddressTypeOK' /\ TailIsRoute'
      BY <1>1, <3>1, Zenon DEF AddressInv, AddressTypeOK, TailIsRoute, EntryOf
    <3>3. ScanShape' /\ ChargedToNearest'
      BY <1>1, <3>1, Zenon DEF AddressInv, ScanShape, ChargedToNearest, Nearest, Listed, isTrusted
    <3> QED
      BY <3>2, <3>3 DEF AddressInv
  <2> QED
    BY <1>1, <2>1, <2>2
<1>2. AddressInv => ChargedToNearest
  BY DEF AddressInv
<1>3. InitAddress => AddressInv
  BY AddressInit
<1> QED
  BY <1>1, <1>2, <1>3, PTL DEF SpecAddress
=============================================================================
