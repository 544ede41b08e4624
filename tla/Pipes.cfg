SPECIFICATION FairSpec
CONSTANTS
  Readers = {1}
  Writers = {2}
  IoSizes = {1, 2, 4}
  PIPE_MAX_LENGTH = 4
  WAITQ_LENGTH = 4
  WAITQ_PENDING_LENGTH = 5
  Reopens = FALSE
  Burst = 4
INVARIANTS
  PipesInv
  NoLostWakeup
  FreeIsFresh
PROPERTIES
  CallFinished
