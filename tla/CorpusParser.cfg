CONSTANTS
  Register = {"rax"}
  Address = {4}
  Bytes = {b1, b2}
  Counts = {0, 1, 2}
  Headers <- MCHeaders
  Kinds = {"divide"}
  RowLines <- MCRowLines
  MaxLines = 7
SPECIFICATION Spec
INVARIANTS
  TypeOK
  ParsedIsRight
  HeadersAgree
CHECK_DEADLOCK FALSE
