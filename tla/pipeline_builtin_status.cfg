SPECIFICATION Spec
CONSTANTS
  N = 3
  FdLimit = 14
  Capacity = 1
  MaxInterrupts = 1
  Codes <- MCCodes
  EntryEnv <- Entries
  Pipelines <- MCPipelines
PROPERTY SuccessfulBuiltinExitsZero
