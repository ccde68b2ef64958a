CONSTANTS
  RequestLines = {"get11"}
  Headers = {"keepalive", "chunked"}
  FileLen = 2
  FileSizes = {2}
  DirLen = 1
  ErrLen = 1
  BodyLen = 2
  RcvCap = 2
  SndCap = 1
  MaxHeaders = 1
  MaxOwed = 2
  Pipelining = TRUE
  ClientQuits = FALSE
  Timeouts = FALSE
SPECIFICATION Spec
INVARIANTS
  WellFramed
