CONSTANTS
  BufLen = 9
  Word = 1
  NULL = NULL
  Lens = {0, 1, 2, 3, 5, 7, 8}
  Rooms = {1, 9}
  MaxMsgs = 4
SPECIFICATION Spec
INVARIANTS TypeOK CopiesInBuffer
PROPERTIES FifoImplSpec
