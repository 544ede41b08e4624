SPECIFICATION TSpec
CONSTANTS
  MAXPROC = 3
  MAX_QUEUE_SIZE = 3
  mmuSelectorNum = 3
  UINT_RANGE = 65536
  MaxPid = 3
  Calls = {"fork", "clone", "execve", "waitpid", "exit", "yield", "fault"}
  Sigs = {3}
  Ttys = {1}
  ReadSizes = {1, 2}
  UART_BUFFER_SIZE = 2
  WAITQ_LENGTH = 3
  WAITQ_PENDING_LENGTH = 2
  Burst = 2
INVARIANTS
  TtyInv
  NoPanic
  NoLostWakeup
