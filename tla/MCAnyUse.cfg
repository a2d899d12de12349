CONSTANTS
  Thread = {main, t1, t2, t3}
  MainThread = main
  NoThread = NoThread
  Semaphore <- ProcessSemaphores
  NoSemaphore = NoSemaphore
  InitialValue <- SemaphoreInit
  IntSemaphore = {}
  MaxValue = 0
  Name = {a, b, mainName}
  Program = {a, b, mainName}
  MainProgram = shell
  MainName = mainName
  NoName = NoName
  MAX_PROCESS = 3
  NumPhysPages = 3
  Pages <- MCPages
  ExitCode = {1}
  UniqueNames = FALSE
  Usages = {FALSE}
SPECIFICATION PSpec
SYMMETRY MCSymmetry
INVARIANTS
  ExecExclusive
  UniqueSpaceIds
CHECK_DEADLOCK FALSE
