SPECIFICATION FairSpec
CONSTANTS
  Instances = {i1}
  Schema = "public"
  StoreJSON = TRUE
  MaxFaults = 0
PROPERTY
  InsertsRecover
