CONSTANTS
  Nodes = {n1, n2, n3}
  Data = {c1, c2, c3}
  Socks = {s1, s2, s3}
  NULL = NULL
  JUNK = JUNK
  StopsPerPass = 1
SPECIFICATION FairServerSpec
INVARIANTS ClientsMatch HandlesLiveClient
PROPERTIES BrokenIsClosed PassesEnd
CHECK_DEADLOCK FALSE
