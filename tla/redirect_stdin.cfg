SPECIFICATION Spec
CHECK_DEADLOCK FALSE
CONSTANTS
  FdLimit = 6
  Codes <- MCCodes
  Files <- MCFiles
  FirstFiles <- MCFirstFiles
  Lines <- FewLines
  MaxLines = 2
  MaxChanges = 1
  MaxFaults = 1
INVARIANTS
  StdioRestored
