CONSTANTS
  Keys <- MCKeys
  Environments = {FALSE}
SPECIFICATION Spec
INVARIANT
  GapsStayApart
CHECK_DEADLOCK FALSE
