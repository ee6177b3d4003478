SPECIFICATION Spec
CONSTANTS
  NrInodes = 4
  MaxArgs = 5
  Programs = {"testfs", "testfs_single_argument"}
  Characters <- MCCharacters
  Lines <- MCLines
  MaxDepth = 4
INVARIANTS
  TypeOK
  CountsBalance
  OnlyKnownFaults
  ComesBack
  TreeSound
PROPERTIES
  ImplementsNamespace
