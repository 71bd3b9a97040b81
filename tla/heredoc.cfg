SPECIFICATION Spec
CHECK_DEADLOCK FALSE
SYMMETRY SymmetricShells
CONSTANTS
  Shells = {sh1, sh2}
  MaxHeredocs = 2
  MaxLines = 3
  MaxWrites = 3
  MaxFaults = 1
INVARIANTS
  OwnText
  NoStaleText
