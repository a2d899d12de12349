CONSTANTS
  A = A
  B = B
  UserThread = {A, B}
  ByteBits = 2
  PageSize = 8
  NumPhysPages = 10
  RegionBits = 6
  UserStackSize = 8
  CopySize = 4
  MaxFileLength = 4
  Workloads <- WorkloadSet
  x1 = x1
  x2 = x2
  x3 = x3
  x4 = x4
  Item = {x1, x2, x3, x4}
  Rank <- MCRank
  MaxCells = 5
  Key <- MCKey
  Hash <- MCHash
  InitialBuckets = 1
  ResizeRatio = 1
  IncreaseSizeBy = 2
  BitsInWord = 3
  NumBits = 7
  StackSizes = {1, 2, 4}
  FirstValue = 17
  MAX_ITEMS = 2
  MAX_ITEMS_PRODUCE = 4
  MAX_ITEM_CONSUME = 2
  Digit = 3
  MaxBoots = 3
SPECIFICATION Spec
INVARIANTS
  AsIfAlone
  ProgramOrder
  UnalignedPairs
  ListIsSequence
  FindsWhatWasInserted
  BitmapIsSet
  LastInFirstOut
  NothingLost
PROPERTIES
  ArithmeticRight
  PreciseExceptions
  ItemProgramsHalt
CHECK_DEADLOCK FALSE
