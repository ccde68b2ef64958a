CONSTANTS
  Addrs = {a1, a2, a3}
  BUFSIZ = 16
  BufferLimit = 40
  PageSizes = {8, 15}
  MaxRequest = 16
  MaxResponses = 2
SPECIFICATION Spec
SYMMETRY AddrSymmetry
INVARIANTS
  TypeOK
  BuffersOwned
  
  SizesAgree
  InputWhole
  ResponseWhole
