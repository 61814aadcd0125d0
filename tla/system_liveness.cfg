CONSTANTS
  j1 = j1
  j2 = j2
  Job = {j1}
  Digest = {d1}
  Submitted = {d1}
  Packages <- MCPackages
  Progress <- MCProgress
  WorkerCode <- MCWorkerCode
  Detachable = {}
  Listenable = {j1}
  TimeCode = {"analysis-cpu-limit"}
  OutputCode = {"analysis-output-limit"}
  NoJob = NoJob
  NoReport = NoReport
  NoResult = NoResult
  NoProgress = NoProgress
SPECIFICATION SystemSpec
PROPERTIES
  SettlesWithoutTimers
CHECK_DEADLOCK FALSE
