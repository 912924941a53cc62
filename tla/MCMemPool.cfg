\* Four 8-byte objects asked for as 4-byte ones, in 36 bytes of memory.
CONSTANTS
  PoolStart = 16
  ReqObjSize = 4
  PoolBytes = 36
  PtrSize = 8
  InitBy = "init_mem_pool"
  UserWords = {0, 1, 24}
SPECIFICATION Spec
INVARIANTS TypeOK FreeListIntact
PROPERTY AllocatorSpec
