CONSTANTS
  Thread = {main, t1, t2, t3}
  MainThread = main
  NoThread = NoThread
  Semaphore <- ProcessSemaphores
  NoSemaphore = NoSemaphore
  InitialValue <- SemaphoreInit
  IntSemaphore = {}
  MaxValue = 0
  Name = {a, b}
  Program = {a, b}
  MainProgram = shell
  MainName = mainName
  NoName = NoName
  MAX_PROCESS = 3
  NumPhysPages = 4
  Pages <- MCPages
  ExitCode = {1}
  UniqueNames = TRUE
  Usages = {FALSE}
SPECIFICATION PSpec
SYMMETRY MCSymmetry
PROPERTIES
  JoinReturnsExitStatus
CHECK_DEADLOCK FALSE
