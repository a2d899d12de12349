CONSTANTS
  f = f
  F = F
  d = d
  Name = {f, F, d}
  Fold <- MCFold
  Creatable = {f, F}
  NoName = NoName
  Capacity = 4
  HostFd <- MCHostFd
  Position <- MCPosition
  MaxLength = 2
SPECIFICATION FSpec
INVARIANTS
  UnopenedIdRefused
CHECK_DEADLOCK FALSE
