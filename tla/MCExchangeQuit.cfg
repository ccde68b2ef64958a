CONSTANTS
  RequestLines = {"get11", "get10", "noindex", "ver2", "bad"}
  Headers = {"clen", "clenwrap", "chunked", "badconn"}
  FileLen = 2
  FileSizes = {1, 2, 3}
  DirLen = 1
  ErrLen = 1
  BodyLen = 2
  RcvCap = 2
  SndCap = 1
  MaxHeaders = 1
  MaxOwed = 2
  Pipelining = FALSE
  ClientQuits = TRUE
  Timeouts = TRUE
SPECIFICATION TimedSpec
PROPERTIES
  QuitterIsClosed
  WaitEnds
