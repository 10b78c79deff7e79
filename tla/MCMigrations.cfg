SPECIFICATION FairSpecMigrations
CONSTANTS
  r1 = r1
  r2 = r2
  r3 = r3
  r4 = r4
  Replicas <- FourReplicas
  Migrating <- ThreeReplicas
  Known <- OldAndNew
  SelfRecord = {1}
  MaxFaults = 2
INVARIANTS
  LedgerIsTrue
  AppliedInOrder
  ServesMigrated
PROPERTY EveryReplicaServes
CHECK_DEADLOCK FALSE
