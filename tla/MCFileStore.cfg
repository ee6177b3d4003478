SPECIFICATION Spec
CONSTANTS
  NrInodes = 3
  InodeBits = 3
  BlockBits = 7
  MaxCsums = 7
  NrDirect = 2
  BlockSize = 4
  DataStart = 10
  Offsets = {0, 5}
  Lengths = {8, 13}
  MaxCmds = 5
  MaxCrashes = 0
INVARIANTS
  TypeOK
  FsckClean
  ChecksumsKeepUp
  UnsyncedIsDirty
  FreeBlocksAreZero
  OnlyKnownFaults
  NothingHeldTwice
  EntriesFit
  Consistency
  Accounted
PROPERTIES
  ImplementsVolume
  Terminates
CHECK_DEADLOCK FALSE
