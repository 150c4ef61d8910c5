SPECIFICATION Spec
CONSTANTS
  a = a
  b = b
  garbage = garbage
  Consumers = {c1, c2}
  Partitions = {p1}
  Messages = {a, b, garbage}
  Undecodable = {garbage}
  EventId <- MCEventId
  MaxLog = 2
  MaxFaults = 1
SYMMETRY Symmetry
INVARIANT
  FailedIsNotCommitted
