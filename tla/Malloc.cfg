SPECIFICATION Spec
CONSTANTS
  BEGIN = 1
  END = 33
  HDR = 4
  SIZE_RANGE = 65536
  Pointers = {p1, p2, p3, p4}
  Requests = {1, 2, 3, 5, 8}
  Abuses = {}
SYMMETRY MCSymmetry
INVARIANTS
  ListCoversHeap
  BlocksInUse
  Coalesced
PROPERTIES
  IsAllocator
