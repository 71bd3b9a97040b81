SPECIFICATION Spec
CONSTANTS
  Codes = {0, 1, 2, 3, 126, 127}
  Keys <- MCKeys
  Strings <- MCStrings
  Dirs <- MCDirs
  Paths <- MCPaths
  Garbage <- MCGarbage
  MaxInt = 3
  Envps <- MCEnvps
  Commands <- MCCommands
  MaxLines = 4
  MaxDepth = 2
INVARIANTS
  KeysUnique
  PwdFollows
  ArgumentsApplied
  ShlvlInRange
PROPERTIES
  BindingsSpec
