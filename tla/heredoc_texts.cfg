SPECIFICATION Spec
CHECK_DEADLOCK FALSE
CONSTANTS
  Shells = {sh1}
  MaxHeredocs = 2
  MaxLines = 1
  MaxWrites = 2
  MaxFaults = 0
INVARIANTS
  EachReadsItsOwn
