---------------------------- MODULE AnalysisSystem ----------------------------
(***************************************************************************)
(* The coordinator with the real workers: each spawned worker runs          *)
(* AnalysisWorker, its messages and events travel in order but take their   *)
(* time, a worker may crash or hang, and terminating it ends it between two *)
(* of its tasks.                                                            *)
(*                                                                         *)
(* Every step is a step of AnalysisCoordinator or leaves the coordinator    *)
(* alone: what holds there for any worker holds here.  What is new is what  *)
(* an honest worker lets the host promise, and what it does not.            *)
(***************************************************************************)
EXTENDS AnalysisCoordinator

CONSTANTS
  Packages,               \* the number of package facts of each job
  TimeCode, OutputCode    \* the limit codes of the workers

\* The workers are a browser's, whose addEventListener does not throw; a run has a
\* package, its progress counts packages, and the codes of its limits are codes of the
\* worker protocol.
ASSUME SystemAssumption ==
  /\ Listenable = Job
  /\ Packages \in [Job -> Nat \ {0}]
  /\ \A j \in Job : 0 .. Packages[j] \subseteq Progress
  /\ TimeCode \cup OutputCode \cup {"analysis-cancelled"} \subseteq WorkerCode

VARIABLES
  handled, control, emitted,   \* of AnalysisWorker, one worker per job
  delivered                    \* how many of its events the host has seen

systemVars == <<vars, handled, control, emitted, delivered>>

W == INSTANCE AnalysisWorker WITH
  Worker <- Job,
  MaxPosts <- 2,
  sent <- [j \in Job |-> [i \in DOMAIN posted[j] |->
                            [type |-> posted[j][i], job_id |-> j]]]

\* The worker reports on the facts it was sent, and applies to its report and
\* its clock the limits the host checks again: only the package count is left.
AsReceived(j, v) ==
  IF v.type = "analysis-completed"
  THEN [type |-> v.type, job_id |-> v.job_id, bundle_digest |-> facts[j],
        within_budget |-> v.package_count = Packages[j]]
  ELSE v

----------------------------------------------------------------------------
SystemInit == Init /\ W!WorkerInit /\ delivered = [j \in Job |-> 0]

Host == HostNext /\ UNCHANGED <<handled, control, emitted, delivered>>

\* A task of a live worker.
Work(j) ==
  /\ j \in live
  /\ W!WorkerStep(j)
  /\ UNCHANGED <<vars, delivered>>

InFlight(j) == j \in listening /\ delivered[j] < Len(emitted[j])

\* The oldest event in flight reaches its listener, which acts on it ...
Deliver(j) ==
  /\ InFlight(j)
  /\ delivered' = [delivered EXCEPT ![j] = @ + 1]
  /\ HandleWorkerEvent(j, AsReceived(j, emitted[j][delivered[j] + 1]))
  /\ UNCHANGED <<handled, control, emitted>>

\* ... or ignores it: the job is over, or the event is progress of a job that is
\* being cancelled.
Ignore(j) ==
  /\ ~Spawning
  /\ InFlight(j)
  /\ delivered' = [delivered EXCEPT ![j] = @ + 1]
  /\ \/ ~Heeded(j)
     \/ /\ emitted[j][delivered[j] + 1].type = "analysis-progress"
        /\ state[j] # "running"
  /\ UNCHANGED <<vars, handled, control, emitted>>

Crash(j) ==
  /\ j \in live
  /\ WorkerError(j)
  /\ UNCHANGED <<handled, control, emitted, delivered>>

SystemNext ==
  \/ Host
  \/ \E j \in Job : Work(j) \/ Deliver(j) \/ Ignore(j) \/ Crash(j)

SystemSafety == SystemInit /\ [][SystemNext]_systemVars

\* The two event loops run, and events arrive.  A worker that never comes back
\* from a task is covered by AnalysisCoordinator, which asks nothing of it.
SystemSpec ==
  /\ SystemSafety
  /\ WF_systemVars(Host /\ Spawn)
  /\ \A j \in Job :
       /\ WF_systemVars(Work(j))
       /\ WF_systemVars(Deliver(j) \/ Ignore(j))

----------------------------------------------------------------------------
\* A worker serves one job: it is never found busy, and never gets a message it
\* must reject, whatever cancels and timeouts the host goes through.
WorkerServesOneJob ==
  \A j \in Job :
    /\ control[j].job \in {j, NoJob}
    /\ \A i \in DOMAIN emitted[j] :
         /\ emitted[j][i].job_id = j
         /\ emitted[j][i].type \in W!Final => i = Len(emitted[j])

\* The progress a caller sees never goes back, and skips nothing.
ShownAdvances ==
  \A j \in Job : shown'[j] # shown[j] =>
    IF shown[j] = NoProgress THEN shown'[j] = 0
    ELSE shown'[j] = shown[j] + 1

ProgressAdvances == [][ShownAdvances]_systemVars

\* With workers that run and neither crash nor hang, a job is settled even if no
\* timer ever fires: cancellation is cooperative first.
SettlesWithoutTimers ==
  \A j \in Job : state[j] # "absent" ~> state[j] \in Terminal
=============================================================================
