---------------------------- MODULE AnalysisWorker ----------------------------
(***************************************************************************)
(* The worker side: the message handler of src/web/analysis-worker-runtime  *)
(* and the executor of src/web/analysis-worker-executor it starts, one copy *)
(* per dedicated worker.                                                    *)
(*                                                                         *)
(* One action is one task of the worker's event loop: a message handled, or *)
(* the executor resumed after a yield.  Promise callbacks run before the    *)
(* task ends, so the end of a run, its final event and the release of the   *)
(* worker are one step.  A cancel message can be handled only between tasks.*)
(*                                                                         *)
(* Time is not modelled: a clock check may find its limit passed each time. *)
(* The facts of an accepted start message fit the memory budget (the handler*)
(* checks them against the same limit the executor does), so only the report*)
(* can exceed it.                                                           *)
(***************************************************************************)
EXTENDS Naturals, Sequences, FiniteSets

CONSTANTS
  Worker,     \* the dedicated workers
  Job,        \* job ids
  Packages,   \* the number of package facts of each job
  TimeCode,   \* the codes for a run past its cpu or wall-time limit
  OutputCode, \* the codes for a report past its output or memory limit
  NoJob,
  MaxPosts    \* bound: messages a host posts to one worker (standalone runs)

ASSUME WorkerJobAssumption == NoJob \notin Job
ASSUME PackagesAssumption == Packages \in [Job -> Nat \ {0}]

VARIABLES
  sent,     \* the messages posted to each worker, oldest first
  handled,  \* how many of them it has handled
  control,  \* its entry of the active map: the job it runs, its cancelled flag
            \* and the number of packages completed
  emitted   \* the events it has posted, oldest first

workerVars == <<handled, control, emitted>>

----------------------------------------------------------------------------
\* A message that assertAnalysisWorkerMessage rejects is "invalid"; its job_id is
\* NoJob when it is not even a string.
ToWorker ==
  [type : {"analysis-start", "analysis-cancel"}, job_id : Job]
  \cup [type : {"invalid"}, job_id : Job \cup {NoJob}]

Idle == [job |-> NoJob, cancelled |-> FALSE, done |-> 0]

ProgressEvent(j, n) ==
  [type |-> "analysis-progress", job_id |-> j, completed |-> n]
CompletedEvent(j, n) ==
  [type |-> "analysis-completed", job_id |-> j, package_count |-> n]
CancelledEvent(j) ==
  [type |-> "analysis-cancelled", job_id |-> j, code |-> "analysis-cancelled"]
FailedEvent(j, c) == [type |-> "analysis-failed", job_id |-> j, code |-> c]

Final == {"analysis-completed", "analysis-cancelled", "analysis-failed"}

WorkerInit ==
  /\ handled = [w \in Worker |-> 0]
  /\ control = [w \in Worker |-> Idle]
  /\ emitted = [w \in Worker |-> <<>>]

Emit(w, events) == emitted' = [emitted EXCEPT ![w] = @ \o events]

----------------------------------------------------------------------------
\* The handler rejects the message, and says so if it can name a job.
RejectMessage(w, m) ==
  /\ m.type = "invalid"
  /\ Emit(w, IF m.job_id = NoJob THEN <<>>
             ELSE <<FailedEvent(m.job_id, "analysis-worker-protocol-invalid")>>)
  /\ control' = control

CancelRun(w, m) ==
  /\ m.type = "analysis-cancel"
  /\ control' = [control EXCEPT ![w].cancelled =
                   IF control[w].job = m.job_id THEN TRUE ELSE @]
  /\ emitted' = emitted

\* Broken variants of a definition stand before it, each named for its bug.
RefuseBusySilently(w, m) ==
  /\ m.type = "analysis-start"
  /\ control[w].job # NoJob
  /\ UNCHANGED <<emitted, control>>

RefuseBusy(w, m) ==
  /\ m.type = "analysis-start"
  /\ control[w].job # NoJob
  /\ Emit(w, <<FailedEvent(m.job_id, "analysis-worker-busy")>>)
  /\ control' = control

StartRunUnannounced(w, m) ==    \* no opening progress event
  /\ m.type = "analysis-start"
  /\ control[w].job = NoJob
  /\ Emit(w, <<ProgressEvent(m.job_id, 1)>>)
  /\ control' = [control EXCEPT ![w] =
                   [job |-> m.job_id, cancelled |-> FALSE, done |-> 1]]

\* The executor runs until it first yields: the opening progress event, the first
\* check, the first package.
StartRun(w, m) ==
  /\ m.type = "analysis-start"
  /\ control[w].job = NoJob
  /\ \/ \E c \in TimeCode :
          /\ Emit(w, <<ProgressEvent(m.job_id, 0), FailedEvent(m.job_id, c)>>)
          /\ control' = control
     \/ /\ Emit(w, <<ProgressEvent(m.job_id, 0), ProgressEvent(m.job_id, 1)>>)
        /\ control' = [control EXCEPT ![w] =
             [job |-> m.job_id, cancelled |-> FALSE, done |-> 1]]

HandleMessage(w) ==
  /\ handled[w] < Len(sent[w])
  /\ handled' = [handled EXCEPT ![w] = @ + 1]
  /\ LET m == sent[w][handled[w] + 1]
     IN  RejectMessage(w, m) \/ CancelRun(w, m) \/ RefuseBusy(w, m) \/ StartRun(w, m)

----------------------------------------------------------------------------
EndRunSilently(w, event) ==    \* the final event is lost
  /\ event.type \in Final
  /\ emitted' = emitted
  /\ control' = [control EXCEPT ![w] = Idle]

EndRun(w, event) ==
  /\ Emit(w, <<event>>)
  /\ control' = [control EXCEPT ![w] = Idle]

RunCancelledParks(w) ==    \* waits instead of ending the run
  /\ control[w].cancelled
  /\ UNCHANGED <<emitted, control>>

\* The checks of assertWithinBudget, in its order.
RunCancelled(w) ==
  /\ control[w].cancelled
  /\ EndRun(w, CancelledEvent(control[w].job))

RunOutOfTime(w) ==
  /\ ~control[w].cancelled
  /\ \E c \in TimeCode : EndRun(w, FailedEvent(control[w].job, c))

NextPackageUnchecked(w) ==    \* does not look at the cancelled flag
  /\ control[w].done < Packages[control[w].job]
  /\ control' = [control EXCEPT ![w].done = @ + 1]
  /\ Emit(w, <<ProgressEvent(control[w].job, control[w].done + 1)>>)

NextPackage(w) ==
  /\ ~control[w].cancelled
  /\ control[w].done < Packages[control[w].job]
  /\ control' = [control EXCEPT ![w].done = @ + 1]
  /\ Emit(w, <<ProgressEvent(control[w].job, control[w].done + 1)>>)

\* All packages are in: the report must fit its limits.
FinishRun(w) ==
  /\ ~control[w].cancelled
  /\ control[w].done = Packages[control[w].job]
  /\ \/ \E c \in OutputCode : EndRun(w, FailedEvent(control[w].job, c))
     \/ EndRun(w, CompletedEvent(control[w].job, control[w].done))

ResumeRun(w) ==
  /\ control[w].job # NoJob
  /\ handled' = handled
  /\ RunCancelled(w) \/ RunOutOfTime(w) \/ NextPackage(w) \/ FinishRun(w)

WorkerStep(w) == HandleMessage(w) \/ ResumeRun(w)

----------------------------------------------------------------------------
\* The worker alone, under a host that posts any messages in any order.
Post(w, m) ==
  /\ Len(sent[w]) < MaxPosts
  /\ sent' = [sent EXCEPT ![w] = Append(@, m)]
  /\ UNCHANGED workerVars

Init == WorkerInit /\ sent = [w \in Worker |-> <<>>]

Step(w) == WorkerStep(w) /\ sent' = sent

Next ==
  \E w \in Worker :
    \/ \E m \in ToWorker : Post(w, m)
    \/ Step(w)

allVars == <<sent, workerVars>>

\* A worker's event loop takes its next task if it has one.
Spec == Init /\ [][Next]_allVars /\ \A w \in Worker : WF_allVars(Step(w))

----------------------------------------------------------------------------
TypeOK ==
  /\ sent \in [Worker -> Seq(ToWorker)]
  /\ handled \in [Worker -> Nat] /\ \A w \in Worker : handled[w] <= Len(sent[w])
  /\ control \in [Worker -> [job : Job \cup {NoJob}, cancelled : BOOLEAN, done : Nat]]
  /\ \A w \in Worker : control[w].job # NoJob =>
       control[w].done \in 1 .. Packages[control[w].job]

\* Every start the worker handled, and every bad message that names a job, is
\* answered by exactly one final event, except the run still in progress.
OneAnswerEach ==
  \A w \in Worker, j \in Job :
    LET asked == {i \in 1 .. handled[w] :
                    sent[w][i].type # "analysis-cancel" /\ sent[w][i].job_id = j}
        answered == {i \in DOMAIN emitted[w] :
                       emitted[w][i].type \in Final /\ emitted[w][i].job_id = j}
    IN  Cardinality(asked) =
          Cardinality(answered) + (IF control[w].job = j THEN 1 ELSE 0)

\* Once the cancel message of the running job is handled, that run can only end
\* as cancelled: no report, no failure, no further package.
CancelledRunStops ==
  [][\A w \in Worker :
       control[w].cancelled /\ control'[w] # control[w] =>
         /\ control'[w] = Idle
         /\ emitted'[w] = Append(emitted[w], CancelledEvent(control[w].job))]_allVars

\* Every run ends: the executor yields after each package and always comes back.
EveryRunEnds ==
  \A w \in Worker : control[w].job # NoJob ~> control[w].job = NoJob
=============================================================================
