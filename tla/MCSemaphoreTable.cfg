CONSTANTS
  Thread = {main, t1, t2}
  MainThread = main
  NoThread = NoThread
  Semaphore <- Slot
  NoSemaphore = NoSemaphore
  InitialValue <- Unmade
  IntSemaphore = {}
  MaxValue = 0
  SemName = {full, empty, accessItem}
  NoName = NoName
  MAX_SEMAPHORE = 2
  SemVal <- FromMinusOne
  MaxCalls = 2
SPECIFICATION SSpec
SYMMETRY MCSymmetry
INVARIANTS
  UnitsConserved
CHECK_DEADLOCK FALSE
