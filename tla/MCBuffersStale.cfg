CONSTANTS
  Addrs = {a1, a2, a3}
  BUFSIZ = 16
  BufferLimit = 40
  PageSizes = {6}
  MaxRequest = 17
  MaxResponses = 1
SPECIFICATION Spec
INVARIANTS
  NoStalePointer
