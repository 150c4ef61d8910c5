SPECIFICATION FairSpec
CONSTANTS
  Instances = {i1, i2}
  Schema = "public"
  StoreJSON = FALSE
  MaxFaults = 1
INVARIANTS
  TypeOK
  MigratedOnce
  RecoveryInv
PROPERTIES
  ClearedOnlyWhenPresent
  Recovers
