SPECIFICATION AtaSpec
CONSTANTS
  Devices = {0}
  SECTORS = 2
  SECTOR_WORDS = 2
  Words = {0, 1}
INVARIANTS
  AtaInv
PROPERTIES
  IsPowerDisk
