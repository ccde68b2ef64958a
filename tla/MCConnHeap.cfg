CONSTANTS
  Conns = {c1, c2, c3, c4}
  NoConn = NoConn
  MaxConnection = 4
  Timeout = 2
  StartTime = 3
  MaxTime = 6
  ClockSetBack = FALSE
SPECIFICATION Spec
SYMMETRY Perms
INVARIANTS
  TypeOK
  HeapIndexed
  HeapHoldsOpen
  HeapHasRoom
  HeapInvariant
PROPERTIES
  ImplementsTable
