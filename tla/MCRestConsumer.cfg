SPECIFICATION FairSpec
CONSTANTS
  Consumers = {c1, c2}
  Events = {e1, e2}
  Foreign = Foreign
  MaxLog = 3
  MaxFaults = 2
INVARIANTS
  TypeOK
  AnsweredIsAccounted
  OneProcess
PROPERTY
  EventuallyAccounted
CHECK_DEADLOCK FALSE
