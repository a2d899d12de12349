CONSTANTS
  a = a
  Thread = {main, t1, t2, t3}
  MainThread = main
  NoThread = NoThread
  Semaphore = {a, b}
  NoSemaphore = NoSemaphore
  InitialValue <- MCInitialValue
  IntSemaphore = {b}
  MaxValue = 2
SPECIFICATION Spec
INVARIANTS
  SafeDestruction
  NoLostWakeup
PROPERTIES
  ImplementsAtomicSemaphores
CHECK_DEADLOCK FALSE
