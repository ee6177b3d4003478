SPECIFICATION Spec
CONSTANTS
  NrInodes = 3
  InodeBits = 3
  BlockBits = 7
  MaxCsums = 7
  NrDirect = 2
  BlockSize = 4
  DataStart = 10
  Offsets = {0, 5}
  Lengths = {8, 13}
  MaxCmds = 5
  MaxCrashes = 0
INVARIANTS
  TruncateFindsNoIndirect
CHECK_DEADLOCK FALSE
