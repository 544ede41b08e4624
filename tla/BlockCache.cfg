SPECIFICATION Spec
CONSTANTS
  BLOCK_CACHE_SIZE = 2
  Blocks = {b1, b2, b3}
  Data = {0, 1}
  Blank = 0
  MaxHolds = 2
INVARIANTS
  CacheInv
  HeldStays
PROPERTIES
  IsDisk
