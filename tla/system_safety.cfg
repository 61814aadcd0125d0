CONSTANTS
  j1 = j1
  j2 = j2
  Job = {j1, j2}
  Digest = {d1}
  Submitted = {d1}
  Packages <- MCPackages
  Progress <- MCProgress
  WorkerCode <- MCWorkerCode
  Detachable = {j1, j2}
  Listenable = {j1, j2}
  TimeCode = {"analysis-cpu-limit"}
  OutputCode = {"analysis-output-limit"}
  NoJob = NoJob
  NoReport = NoReport
  NoResult = NoResult
  NoProgress = NoProgress
SPECIFICATION SystemSafety
INVARIANTS
  WorkerServesOneJob
PROPERTIES
  ProgressAdvances
CHECK_DEADLOCK FALSE
