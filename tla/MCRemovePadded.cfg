SPECIFICATION Spec
CONSTANTS
  BlockSize = 14
  Names = {1, 2, 3, 4, 5}
  NameLen <- MCNameLen
  Dot = 8
  DotDot = 9
  Numbers = {1, 2, 3, 4}
  Limit = 56
  MaxCmds = 6
INVARIANTS
  OnlyNumberErased
CHECK_DEADLOCK FALSE
