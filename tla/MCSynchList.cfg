CONSTANTS
  Thread = {main, t1, t2}
  MainThread = main
  NoThread = NoThread
  Semaphore <- MonitorSemaphores
  NoSemaphore = NoSemaphore
  InitialValue <- MonitorInit
  IntSemaphore = {}
  MaxValue = 0
  Item = {x, y}
  NoItem = NoItem
  MaxApply = 1
SPECIFICATION LSpec
PROPERTIES
  ImplementsAtomicQueue
CHECK_DEADLOCK FALSE
