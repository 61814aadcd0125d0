CONSTANTS
  a = a
  b = b
  Name = {a, b}
  Crc = {0, 1}
  ZeroCrc = 0
  Sizes = {0, 7, 8}
  Counts = {0, 1, 2, 3}
  CSizes = {0, 1}
  USizes = {0, 1, 2, 3}
  MaxBytes = 7
  MaxMemory = 3
  MaxFiles = 2
  MaxRatio = 2
  NoRecord = NoRecord
SPECIFICATION Spec
INVARIANTS
  PublishedIsWhole
  MemoryIsBounded
PROPERTY StopsOnTime
CHECK_DEADLOCK FALSE
