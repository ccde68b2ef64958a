CONSTANTS
  Procs = {p1, p2, p3, p4}
  First = p1
  Workers = {0, 1, 2}
  NoProc = NoProc
SPECIFICATION FairSpec
CHECK_DEADLOCK FALSE
INVARIANTS
  ForksBounded
  PortIsShared
PROPERTIES
  CtrlCStopsAll
  DeadWorkerEndsMaster
