CONSTANTS
  a = a
  b = b
  Worker = {w1}
  Job = {a, b}
  Packages <- MCPackages
  TimeCode = {"analysis-cpu-limit", "analysis-wall-limit"}
  OutputCode = {"analysis-output-limit", "analysis-memory-limit"}
  NoJob = NoJob
  MaxPosts = 3
SPECIFICATION Spec
INVARIANTS
  OneAnswerEach
PROPERTIES
  CancelledRunStops
  EveryRunEnds
CHECK_DEADLOCK FALSE
