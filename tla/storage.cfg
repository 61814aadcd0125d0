CONSTANTS
  small = small
  large = large
  c1 = c1
  c2 = c2
  Analysis = {a, b}
  Key = {k}
  Blob = {small, large}
  Size <- MCSize
  Quota = 2
  Call = {c1, c2}
  MaxFaults = 1
  Absent = Absent
  Created = Created
  NoRequest = NoRequest
SPECIFICATION Spec
INVARIANTS
  TypeOK
  DiskWithinQuota
  BooksCoverDisk
  NothingHalfWritten
PROPERTIES
  KeepsThePromise
  ClosedIsQuiet
  EveryCallSettles
CHECK_DEADLOCK FALSE
