SPECIFICATION Spec
CONSTANTS
  NrInodes = 3
  MaxArgs = 5
  Programs = {"testfs", "testfs_single_argument"}
  Characters <- MCCharacters
  Lines <- MCLines
  MaxDepth = 4
INVARIANT
  CreatedWhereAsked
