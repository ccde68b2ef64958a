CONSTANTS
  Conns = {0, 1, 2}
  NoConn = NoConn
  Timeout = 1
  StartTime = 2
  MaxTime = 4
  MaxArrivals = 4
SPECIFICATION PooledFairSpec
INVARIANTS
  TypeOK
  NoDanglingEvent
  FailedIsGone
  PoolSound
PROPERTIES
  DueIsClosed
  
  ImplementsLoop
