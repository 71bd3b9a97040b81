SPECIFICATION Spec
CONSTANTS
  N = 4
  FdLimit = 7
  Capacity = 1
  MaxInterrupts = 0
  Codes <- MCCodes
  EntryEnv <- Fresh
  Pipelines <- LivePipelines
INVARIANTS
  DescriptorsBalanced
PROPERTIES
  EofPropagates
  BrokenPipePropagates
