SPECIFICATION FairSpec
CONSTANTS
  InitCallers = {i1, i2}
  StopCallers = {s1, s2}
  Events = {e1}
  BatchSizes = {0, 1}
  Nobody = Nobody
INVARIANTS
  TypeOK
  NilMeansStarted
  PanicNeedsTwo
PROPERTIES
  ShutdownStops
  AcceptedIsSent
CHECK_DEADLOCK FALSE
