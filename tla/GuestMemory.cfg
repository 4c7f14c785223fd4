CONSTANTS
  PageSize = 2
  MaxAddress = 5
  Byte = {0, 1}
  Buffers <- MCBuffers
  MaxSize = 4
  MapRights <- MCMapRights
SPECIFICATION Spec
INVARIANTS
  TypeOK
  LoopInRange
  CopyIsAuthorised
  MapKeepsToItsPages
  IInv
PROPERTIES
  ImplementsFlatMemory
  CallsReturn
