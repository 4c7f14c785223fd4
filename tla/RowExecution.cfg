CONSTANTS
  PageSize = 2
  MaxAddress = 5
  Byte = {0, 1}
  Exceptions = {"divide", "overflow"}
  Rows <- MCRows
  Values <- MCValues
  MaxCalls = 2
SPECIFICATION Spec
INVARIANTS
  TypeOK
  SetUpIsSilent
  RowIsLoaded
  ReadModifyWriteIsWhole
  VerdictIsWarranted
PROPERTIES
  RowEnds
CHECK_DEADLOCK FALSE
