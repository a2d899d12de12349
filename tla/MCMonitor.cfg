CONSTANTS
  Thread = {main, t1, t2, t3}
  MainThread = main
  NoThread = NoThread
  Semaphore <- MonitorSemaphores
  NoSemaphore = NoSemaphore
  InitialValue <- MonitorInit
  IntSemaphore = {}
  MaxValue = 0
SPECIFICATION MSpec
PROPERTIES
  ImplementsAtomicMonitor
CHECK_DEADLOCK FALSE
