SPECIFICATION FairSpec
CONSTANTS
  Instances = {i1}
  Schema = "other"
  StoreJSON = FALSE
  MaxFaults = 0
PROPERTY
  MigratesConfiguredSchema
