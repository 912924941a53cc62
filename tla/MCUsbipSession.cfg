CONSTANTS
  BufLen = 32
  ItemSize = 4
  MaxMsg = 5
  Total = 32
  Requests = {"devlist", "import", "import_unknown", "command", "submit_out"}
  MaxReq = 2
  HdrLen = 2
  BusidLen = 3
  CmdLen = 3
  DataLen = 1
  DevlistLen = 3
  PathLen = 4
  InfoLen = 3
SPECIFICATION FairSessionSpec
INVARIANTS InSync AnswersRequests
PROPERTY DevlistServed
CHECK_DEADLOCK FALSE
