CONSTANTS
  Conns = {c1, c2, c3, c4}
  NoConn = NoConn
  MaxConnection = 4
  Timeout = 2
  StartTime = 3
  MaxTime = 5
  ClockSetBack = TRUE
SPECIFICATION Spec
SYMMETRY Perms
INVARIANT
  MinHeap
