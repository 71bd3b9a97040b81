SPECIFICATION Spec
CONSTANTS
  Lines <- MCLines
  Env <- MCEnv
  Status <- MCStatus
  CommandWords <- MCCommandWords
CHECK_DEADLOCK FALSE
INVARIANTS
  TypeOK
  PlainLinesRead
  OperatorsAreTyped
  NothingLost
  EmptyCommandsQuoted
  ParserStaysInList
  HeadStays
PROPERTIES
  EveryLineEnds
