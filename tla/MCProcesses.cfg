CONSTANTS
  Thread = {main, t1, t2, t3}
  MainThread = main
  NoThread = NoThread
  Semaphore <- ProcessSemaphores
  NoSemaphore = NoSemaphore
  InitialValue <- SemaphoreInit
  IntSemaphore = {}
  MaxValue = 0
  Name = {a, b, missing}
  Program = {a, b}
  MainProgram = shell
  MainName = mainName
  NoName = NoName
  MAX_PROCESS = 3
  NumPhysPages = 3
  Pages <- MCPages
  ExitCode = {1}
  UniqueNames = TRUE
  Usages = {TRUE}
SPECIFICATION PSpec
INVARIANTS
  CallerIsSelf
  RemovedOnlyWhenJoined
PROPERTIES
  JoinReturnsExitStatus
  JoinReturns
CHECK_DEADLOCK FALSE
