CONSTANTS
  FromZero = FromZero
  Invalid = Invalid
  None = None
  MaxUint = 2
  Beta = 1
  RC = 2
  MaxEvents = 4
  Tasks <- MCToolchainTasks
SPECIFICATION Spec
INVARIANT MalformedInputIsUnknown
CHECK_DEADLOCK FALSE
