CONSTANTS
  f = f
  F = F
  d = d
  Name = {f, F, d}
  Fold <- MCFold
  Creatable = {f, F}
  NoName = NoName
  Capacity = 4
  HostFd <- MCHostFd
  Position <- MCPosition
  MaxLength = 2
  a = a
  b = b
  c = c
  a2 = a2
  PathName = {a, b, c, a2}
  Stored <- MCStored
  NumSectors = 9
  NumDirEntries = 2
  Split = 1
  SectorSize = 2
  Size = {1, 3}
  Handle = {h1}
  NoHdr = NoHdr
  Garbage = 0
  Data <- MCData
  SeekTo <- MCSeekTo
SPECIFICATION Spec
SYMMETRY MCSymmetry
INVARIANTS
  TableMatchesHost
  OffsetWithinFile
  MetadataConsistent
  ReadsWhatWasWritten
CHECK_DEADLOCK FALSE
