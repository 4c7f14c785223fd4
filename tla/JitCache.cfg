CONSTANTS
  Keys <- MCKeys
  Environments = {TRUE, FALSE}
SPECIFICATION Spec
INVARIANTS
  TypeOK
  OwnCode
  NoKeyIsForgotten
  VerdictsAreTrue
  PreparedNeverBackend
  PreparedKeysAnswerAtOnce
  IInv
PROPERTIES
  VerdictsAreFinal
  ImplementsCompileService
  RequestsEnd
CHECK_DEADLOCK FALSE
