CONSTANTS
  Busy = {0}
  MaxTries = 2
  NumBoxes = 2
  MayHalt = {1}
SPECIFICATION PSpec
INVARIANTS
  NothingLostOnReceipt
  InOrderAtMostOnce
  AckMeansReceived
PROPERTIES
  NetworkTestEnds
CHECK_DEADLOCK FALSE
