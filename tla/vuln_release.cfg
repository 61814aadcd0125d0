CONSTANTS
  r1 = r1
  r2 = r2
  again = again
  long = long
  bad = bad
  id1 = id1
  id2 = id2
  p = p
  q = q
  Raw = {r1, r2, again, long, bad}
  Parsed <- MCParsed
  Id = {id1, id2}
  Name = {p, q}
  RawBytes <- MCRawBytes
  DeflatedBytes <- MCDeflatedBytes
  Bulk <- MCBulk
  Descriptions <- MCDescriptions
  DescriptorBytes = 5
  EntryBytes = 3
  FileBytes = 4
  Powers = {1, 10, 100, 1000}
  MaxArchiveBytes = 270
  MaxRecordBytes = 110
  MaxRecords = 2
  MaxAlterations = 2
  Key = Key
  OtherKey = OtherKey
  Corrupt = Corrupt
  Torn = Torn
  Absent = Absent
SPECIFICATION Spec
INVARIANTS
  Stabilizes
  LoadsUnlessTooLarge
  LoadedIsRelease
CHECK_DEADLOCK FALSE
