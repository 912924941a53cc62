CONSTANTS
  Devs = {d1, d2, d3}
  Vdevs = {v1, v2, v3}
  NULL = NULL
  DevMax = 2
  BusMod = 8
  MaxCalls = 6
SPECIFICATION Spec
INVARIANTS TypeOK ListedOnce NeverAnotherDevice ImportReachesDevice
CHECK_DEADLOCK FALSE
