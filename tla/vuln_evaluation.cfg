CONSTANTS
  FromZero = FromZero
  Invalid = Invalid
  None = None
  MaxUint = 2
  Beta = 1
  RC = 2
  MaxEvents = 4
  Tasks <- MCTasks
SPECIFICATION Spec
INVARIANTS
  RangeMatchesReference
  NeverMissesOsv
  FindingsMatchRecords
  ClearsOnlyOnEvidence
  ToolchainsInOrder
CHECK_DEADLOCK FALSE
