SPECIFICATION Spec
CONSTANTS
  NDIRECT = 1
  NINDIRECT = 2
  BSIZE = 2
  NBlocks = 4
  MaxSize = 5
  MaxWrite = 2
  Reopens <- PlainFiles
  Unlinks <- PlainFiles
  CrashesAt <- WhileWriting
  Corrupts = TRUE
INVARIANTS
  ReadsAreRight
  DiskIsConsistent
