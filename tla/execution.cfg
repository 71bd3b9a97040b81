SPECIFICATION Spec
CHECK_DEADLOCK FALSE
CONSTANTS
  Codes <- MCCodes
  Places <- MCPlaces
  Starts <- MCStarts
  MaxChanges = 2
INVARIANTS
  TypeOK
  FirstExecutable
  FailureCode
  ExitMeansItsNumber
