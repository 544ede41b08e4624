SPECIFICATION TFairSpec
CONSTANTS
  MAXPROC = 3
  MAX_QUEUE_SIZE = 3
  mmuSelectorNum = 3
  UINT_RANGE = 65536
  MaxPid = 2
  Calls = {"fork", "waitpid", "exit", "kill", "fault"}
  Sigs = {3}
  Ttys = {1}
  ReadSizes = {1}
  UART_BUFFER_SIZE = 1
  WAITQ_LENGTH = 3
  WAITQ_PENDING_LENGTH = 2
  Burst = 1
PROPERTIES
  NoStarvation
  ReaderWoken
  TasksServed
  WaitedForIsReaped
  FaultKills
