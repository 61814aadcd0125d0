CONSTANTS
  j1 = j1
  j2 = j2
  j3 = j3
  d1 = d1
  d2 = d2
  Job = {j1, j2, j3}
  Digest = {d1, d2}
  Submitted = {d1}
  Progress = {}
  WorkerCode = {"analysis-memory-limit"}
  Detachable <- MCDetachable
  Listenable <- MCDetachable
  NoJob = NoJob
  NoReport = NoReport
  NoResult = NoResult
  NoProgress = NoProgress
SPECIFICATION Spec
INVARIANTS
  ReportOnlyWhenWanted
  HostReasonWins
  ExclusiveWorker
  WorkConserving
PROPERTIES
  KeepsThePromise
  FirstComeFirstServed
  EveryJobSettles
CHECK_DEADLOCK FALSE
