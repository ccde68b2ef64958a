CONSTANTS
  RequestLines = {"get11", "get10"}
  Headers = {"plain", "keepalive", "close", "clen"}
  FileLen = 2
  FileSizes = {2}
  DirLen = 1
  ErrLen = 1
  BodyLen = 2
  RcvCap = 3
  SndCap = 2
  MaxHeaders = 2
  MaxOwed = 2
  Pipelining = FALSE
  ClientQuits = FALSE
  Timeouts = FALSE
SPECIFICATION FairSpec
INVARIANTS
  NoFdLeak
PROPERTIES
  Answered
