SPECIFICATION Spec
CONSTANTS
  MAXPROC = 3
  NCODE_PAGES = 0
  NDATA_PAGES = 2
  KERNEL_PAGES = 1
  WINDOW = 1
  pageMapSize = 5
  CowBuilds = {TRUE, FALSE}
  Values = {0, 1}
  Nothing = Nothing
INVARIANTS
  MemInv
  CountsUsers
  SharedIsReadOnly
PROPERTIES
  IsPrivate
CHECK_DEADLOCK FALSE
