SPECIFICATION Spec
CONSTANTS
  Instance = {i1, i2, i3}
  Byte = {1}
  MaxSize = 4
  MaxWrite = 2
  BlockSize = 3
  MaxOps = 3
  Image <- PreparedImage
SYMMETRY Interchangeable
CHECK_DEADLOCK FALSE
INVARIANTS
  RootsPassCheck
  MappingOutlivesReaders
  DiscardLeavesNothing
PROPERTIES
  FilesAreIndependent
