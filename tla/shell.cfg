SPECIFICATION Spec
CONSTANTS
  Codes <- MCCodes
  Lines <- MCLines
  MaxLines = 3
  MaxSignals = 3
  MaxFaults = 1
INVARIANTS
  StatusOfLine
  PromptReady
  ChildAwaited
  TerminalOwned
  InterruptedHeredocNeverRuns
PROPERTIES
  InterruptReturnsToPrompt
  CommandsComeBack
