CONSTANTS
  RequestLines = {"get11", "get10", "missing", "bad"}
  Headers = {"keepalive", "close", "clen", "bad"}
  FileLen = 2
  FileSizes = {2}
  DirLen = 1
  ErrLen = 1
  BodyLen = 2
  RcvCap = 3
  SndCap = 1
  MaxHeaders = 2
  MaxOwed = 2
  Pipelining = TRUE
  ClientQuits = TRUE
  Timeouts = TRUE
SPECIFICATION Spec
INVARIANTS
  TypeOK
  OneDirection
  NoLostWakeup
  WellFramed
  CutShortOnlyErrors
PROPERTIES
  FailedIsClosed
