SPECIFICATION FairSpec
CONSTANTS
  Instances = {i1}
  Rows = {r1, r2, p1}
  Poison = {p1}
  BatchSize = 2
  Mode = "binary"
  MaxFaults = 2
  NoRow = NoRow
PROPERTY
  EventuallyPublished
