SPECIFICATION Spec
CONSTANTS
  NrInodes = 3
  InodeBits = 4
  BlockBits = 8
  MaxCsums = 7
  NrDirect = 1
  BlockSize = 4
  DataStart = 10
  Offsets = {0, 5}
  Lengths = {4, 9, 21}
  MaxCmds = 4
  MaxCrashes = 2
INVARIANTS
  FsckClean
  CrashSafe
  NamedAreMarked
  FreeBlocksAreZero
  
PROPERTIES
  ImplementsVolume
CHECK_DEADLOCK FALSE
