SPECIFICATION FairSpec
CONSTANTS
  a = a
  b = b
  garbage = garbage
  Consumers = {c1, c2}
  Partitions = {p1}
  Messages = {a, b, garbage}
  Undecodable = {garbage}
  EventId <- MCEventId
  MaxLog = 3
  MaxFaults = 2
INVARIANTS
  TypeOK
  CommittedIsAccounted
  SinkInv
PROPERTY
  EventuallyAccounted
CHECK_DEADLOCK FALSE
