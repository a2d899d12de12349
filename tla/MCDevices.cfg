CONSTANTS
  Thr = {t1, t2, t3}
  Nobody = Nobody
  UserTick = 1
  SystemTick = 2
  TimerTicks = 3
  PollTime = 3
  Latency = {1, 4}
  Reader = {r1}
  Writer = {w1}
  Echo = {e1}
  Inputs <- MCInputs
  LineSize = 2
  Message <- MCMessage
  Client = {c1, c2}
  SectorsPerTrack = 3
  NumTracks = 2
  SeekTime = 3
  RotationTime = 2
  MaxTicks = 18
  Options = {"-K", "-C", "-N", "-r", "-x"}
  Rounds = 10
SPECIFICATION Spec
INVARIANTS
  InterruptsOnTime
  ConsoleDiscipline
  TypedOnceInOrder
  DiskDiscipline
  LatencyIsMechanical
  UsedWhileAlive
  DeletedAfterLastUse
PROPERTIES
  ThreadsRun
  ConsoleServes
CHECK_DEADLOCK FALSE
