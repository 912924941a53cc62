CONSTANTS
  BufLen = 9
  ItemSize = 9
  MaxMsg = 9
  Total = 10
SPECIFICATION FairSockSpec
PROPERTY Drained
