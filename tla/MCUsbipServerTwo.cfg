CONSTANTS
  Nodes = {n1, n2, n3}
  Data = {c1, c2, c3}
  Socks = {s1, s2, s3}
  NULL = NULL
  JUNK = JUNK
  StopsPerPass = 2
SPECIFICATION ServerSpec
INVARIANT ClientsMatch
CHECK_DEADLOCK FALSE
