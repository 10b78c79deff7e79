---------------------------- MODULE MCMigrations ----------------------------
(***************************************************************************)
(* Small instances of Migrations: an old binary with file 001 only, new    *)
(* ones with 001 and 002, and a new one without MIGRATE_ON_START.          *)
(***************************************************************************)
EXTENDS Migrations, TLC

CONSTANTS r1, r2, r3, r4

FourReplicas == {r1, r2, r3, r4}
ThreeReplicas == FourReplicas \ {r4}
OldAndNew == (r1 :> {1}) @@ [r \in FourReplicas \ {r1} |-> {1, 2}]
=============================================================================
