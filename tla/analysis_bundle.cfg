CONSTANTS
  x_go = x_go
  sub_go = sub_go
  more_go = more_go
  plain = plain
  usesSub = usesSub
  usesNested = usesNested
  usesFar = usesFar
  File = {x_go, sub_go, more_go}
  PackageOf <- MCPackageOf
  Found <- MCFound
  Text = {plain, usesSub, usesNested, usesFar}
  Imports <- MCImports
  Inside = {"x", "x/sub", "x/nested"}
  Ref = {"x/nested@v1"}
  Sum = {s1, s2}
  Provides <- MCProvides
  Header = {h1, h2, bad}
  Supported = {h1, h2}
  Options = h1
  MaxEdits = 1
  MaxTampers = 2
  Absent = Absent
  OnlyTests = OnlyTests
  Main = Main
  MainRef = Main
  Fits <- MCFits
  MaxFiles = 3
  Torn = Torn
  Zero = Zero
  None = None
SPECIFICATION Spec
INVARIANTS
  TamperEvident
  SnapshotIsClosed
  CapturesHydrate
CHECK_DEADLOCK FALSE
