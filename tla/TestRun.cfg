CONSTANTS
  Keys <- MCKeys
  Paths = {"dir/a.txt", "dir/b.txt"}
  Unwritable = {"no/x"}
  Scenarios <- MCScenarios
  Dashed <- MCDashed
  Csv <- MCCsv
  Number <- MCNumber
  Directory <- MCDirectory
  PathOrder <- MCPathOrder
SPECIFICATION Spec
INVARIANTS
  TypeOK
  SummaryIsRight
  MismatchesReachTheExitCode
  BatchIsSelected
  ReportsMatchTheSummary
PROPERTIES
  OnlyTrapsCompileOnDemand
  RunEnds
CHECK_DEADLOCK FALSE
