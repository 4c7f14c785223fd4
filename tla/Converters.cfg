CONSTANTS
  FileName <- MCFileName
  Mem0 = 1000
  Jobs <- MCJobs
SPECIFICATION Spec
INVARIANTS
  TypeOK
  FilesHoldTheirRows
  ReportIsOnDisk
PROPERTIES
  FilesStay
CHECK_DEADLOCK FALSE
