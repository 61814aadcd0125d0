CONSTANTS
  small = small
  large = large
  c1 = c1
  c2 = c2
  Analysis = {a}
  Key = {k}
  Blob = {small, large}
  Size <- MCSize
  Quota = 2
  Call = {c1}
  MaxFaults = 0
  Absent = Absent
  Created = Created
  NoRequest = NoRequest
SPECIFICATION Safety
INVARIANT ClosedWritesAreAborted
CHECK_DEADLOCK FALSE
