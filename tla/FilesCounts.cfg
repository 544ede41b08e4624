SPECIFICATION Spec
CONSTANTS
  MAXPROC = 3
  MAX_FILES_PER_PROC = 2
  MAX_FILES = 3
  STDIO = 1
  UINT_RANGE = 65536
  Names = {a}
  Tty = tty
  Pipe = pipe
  MaxRefs = 3
  Calls = {"open", "close", "dup", "dup2", "pipe", "fork", "clone", "execve", "exit"}
INVARIANTS
  FilesInv
  CountsHolders
PROPERTIES
  OpenStays
CHECK_DEADLOCK FALSE
