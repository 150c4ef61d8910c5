SPECIFICATION Spec
CONSTANTS
  Instances = {i1, i2}
  Rows = {r1, r2, r3}
  Poison = {}
  BatchSize = 2
  Mode = "binary"
  MaxFaults = 2
  NoRow = NoRow
SYMMETRY Symmetry
INVARIANTS
  TypeOK
  PublishedIsDelivered
  RealTimeOrder
  DuplicatesBounded
  RelayInv
PROPERTY
  KeepsPromise
