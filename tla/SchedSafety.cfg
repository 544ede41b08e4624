SPECIFICATION Spec
CONSTANTS
  MAXPROC = 3
  MAX_QUEUE_SIZE = 3
  mmuSelectorNum = 3
  UINT_RANGE = 65536
  MaxPid = 4
  Calls = {"fork", "clone", "execve", "waitpid", "exit", "kill", "yield", "fault"}
  Sigs = {3}
INVARIANTS
  ParkedHasTask
  TaskHasParked
  SelectorsPrivate
  SchedInv
PROPERTIES
  DeadStaysDead
