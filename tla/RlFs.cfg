SPECIFICATION Spec
CONSTANTS
  BLOCKS = 13
  ROOT = 2
  UNITS = 2
  DIRECT_INDEXES_CNT = 1
  INDEXES = 1
  ENTRIES = 3
  SIZE_RANGE = 2048
  MAX_FILES = 1
  Paths <- MCPaths
  Modes <- MCModes
  Vals = {v1, v2}
  Sizes = {2}
  MaxSize = 3
  MaxEntries = 5
  MaxBlkdev = 1
  Abuses = {}
SYMMETRY MCSymmetry
INVARIANTS
  TreeSound
  BlocksPrivate
  UsedIsMarked
  FilesMapped
  FileCallsKeepNone
PROPERTIES
  IsFileStore
