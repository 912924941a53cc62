SPECIFICATION FairSpec
CONSTANTS
  Pool = 4
  PoolBytes = 19
  Align = 2
  Hdr = 2
  SizeMod = 256
  Sizes = {1, 2, 3, 6}
INVARIANTS TilesPool ObjectsApart NoMemoryIsHonest ObjectsAligned
PROPERTIES HandsOutFree AllocReturns
