SPECIFICATION Spec
CONSTANTS
  IdModulus = 4
  Nil = Nil
  NilMap = NilMap
  Text <- MCText
  p1 = p1
  p2 = p2
  Pointers = {p1, p2}
  Literals <- MCLiterals
  Actors <- MCActors
  DetailMaps <- MCDetailMaps
  Requests <- MCRequests
  Setups <- MCSetups
  MaxPublishes = 2
SYMMETRY Symmetry
INVARIANTS
  TypeOK
  AuthorPrevails
  FirstRequestPrevails
  StoredOnce
  StoredWhenSameWire
PROPERTIES
  RetryChangesNothing
CHECK_DEADLOCK FALSE
