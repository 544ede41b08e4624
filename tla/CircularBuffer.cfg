SPECIFICATION cbSpec
CONSTANTS
  Capacity = 4
  Words = {1, 2, 3}
PROPERTIES
  IsFifo
