SPECIFICATION Spec
CHECK_DEADLOCK FALSE
CONSTANTS
  FdLimit = 6
  Codes <- MCCodes
  Files <- MCFiles
  FirstFiles <- MCFirstFiles
  Lines <- MCLines
  MaxLines = 2
  MaxChanges = 1
  MaxFaults = 1
INVARIANTS
  RunsWithItsFiles
  TableRestored
  LinesDoAsSh
