SPECIFICATION Spec
CONSTANTS
  BitsPerWord = 2
  WordsPerBlock = 2
  MapBlocks = 2
INVARIANTS
  TypeOK
  OneAhead
PROPERTY
  ImplementsPool
