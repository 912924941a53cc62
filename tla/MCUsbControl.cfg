CONSTANTS
  c0 = c0
  c1 = c1
  g0 = g0
  g1 = g1
  i0 = i0
  i1 = i1
  e0 = e0
  e1 = e1
  Dev = Dev
  NULL = NULL
  Confs <- MCConfs
  Groups = {g0, g1}
  Ifs <- MCIfs
  Eps <- MCEps
  ConfValue <- MCConfValue
  IfNum <- MCIfNum
  IfAlt <- MCIfAlt
  EpNb <- MCEpNb
  EpDir <- MCEpDir
  BufLens = {0, 1, 6, 7, 16, 23, 64}
SPECIFICATION ControlSpec
INVARIANTS ChainsAsAdded DevlistMatches FoundAgain CurrentConfigExists ConfigurationFits
CHECK_DEADLOCK FALSE
