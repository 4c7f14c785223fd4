CONSTANTS
  Keys <- MCKeys
  Paths = {"dir/a.txt", "dir/b.txt"}
  Unwritable = {"no/x"}
  Scenarios <- MCScenarios
  Dashed <- MCDashed
  Csv <- MCCsv
  Number <- MCNumber
  Directory <- MCDirectory
  PathOrder <- MCPathOrder
SPECIFICATION Spec
INVARIANT
  SkipsDoNotFailTheRun
CHECK_DEADLOCK FALSE
