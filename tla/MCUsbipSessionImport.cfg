CONSTANTS
  BufLen = 256
  ItemSize = 4
  MaxMsg = 64
  Total = 256
  Requests = {"devlist", "import", "import_unknown", "command", "submit_out"}
  MaxReq = 1
  HdrLen = 2
  BusidLen = 8
  CmdLen = 12
  DataLen = 1
  DevlistLen = 3
  PathLen = 64
  InfoLen = 6
SPECIFICATION SessionSpec
INVARIANT RepliesWhole
CHECK_DEADLOCK FALSE
