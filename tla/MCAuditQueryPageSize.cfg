SPECIFICATION Spec
CONSTANTS
  e1 = e1
  e2 = e2
  e3 = e3
  e4 = e4
  Events = {e1, e2, e3, e4}
  Timestamp <- MCTimestamp
  Satisfies <- MCSatisfies
  Requests <- MCRequests
  PageSizes <- MCPageSizes
  Omitted = Omitted
  DefaultSize = 2
  MaximumSize = 2
  ExportLimit = 2
INVARIANT
  PageIsBounded
