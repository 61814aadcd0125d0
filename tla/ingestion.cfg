CONSTANTS
  None = None
  Coordinate = Coordinate
  Route = Route
  Local = Local
  Bundle = Bundle
  Public = {Route}
  Archives = {Local}
  Bundles = {Bundle}
  Analysis <- MCAnalysis
  MaximumBytes = 2
  QuotaBytes = 3
  LocalSizes = {2}
  ChunkSizes = {1, 2}
SPECIFICATION Spec
INVARIANTS
  TypeOK
  ConsentComesFirst
  VouchedFor
PROPERTIES
  AbortStopsTheWork
  EveryMessageIsAnswered
CHECK_DEADLOCK FALSE
