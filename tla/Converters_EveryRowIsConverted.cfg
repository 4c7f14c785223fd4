CONSTANTS
  FileName <- MCFileName
  Mem0 = 1000
  Jobs <- MCJobs
SPECIFICATION Spec
INVARIANT
  EveryRowIsConverted
CHECK_DEADLOCK FALSE
