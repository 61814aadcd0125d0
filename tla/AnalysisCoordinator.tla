------------------------ MODULE AnalysisCoordinator ------------------------
(***************************************************************************)
(* The host side of the analysis workers: the coordinator of               *)
(* src/web/analysis-worker-coordinator.mjs.  It queues the submitted jobs,  *)
(* runs one at a time in a fresh dedicated worker, cancels on request or on *)
(* the wall timer, terminates a worker that does not stop within the grace  *)
(* period, and assembles the one terminal result of every job.              *)
(*                                                                         *)
(* The worker is not trusted here: any event may arrive from it at any time *)
(* its listeners are attached.  AnalysisSystem puts the real worker there.  *)
(*                                                                         *)
(* One action is one turn of the host's event loop, with one exception: the *)
(* call to spawnWorker() inside activateNext is a call out of the           *)
(* coordinator, so a turn that activates a job ends with the job "loading"  *)
(* and the next step, the only one enabled (Spawning), is what the call did.*)
(***************************************************************************)
EXTENDS Naturals, Sequences, FiniteSets

CONSTANTS
  Job,          \* the job ids callers use; an id is used at most once, ever
  Digest,       \* bundle digests a worker may put in a report
  Submitted,    \* those of the snapshots callers submit
  Progress,     \* the values of "completed" in a progress event
  WorkerCode,   \* the codes a worker may put in a cancelled or failed event
  Detachable,   \* jobs whose worker object has removeEventListener
  Listenable,   \* jobs whose worker object never throws from addEventListener
  NoJob, NoReport, NoResult, NoProgress

ASSUME JobAssumption ==
  /\ NoJob \notin Job
  /\ Detachable \subseteq Job /\ Listenable \subseteq Job
ASSUME DigestAssumption == NoReport \notin Digest /\ Submitted \subseteq Digest
ASSUME ProgressAssumption == NoProgress \notin Progress

VARIABLES
  disposed,    \* the coordinator was disposed
  queue,       \* jobs waiting, and jobs cancelled while they waited
  active,      \* the job that owns the worker slot, or NoJob
  state,       \* job.state, "absent" before submit
  facts,       \* job.facts.bundle_digest
  cancelCode,  \* job.cancellationCode
  live,        \* jobs whose worker is spawned and not terminated
  listening,   \* jobs whose worker has the coordinator's listeners attached
  posted,      \* the messages posted to the job's worker
  wallTimer,   \* jobs whose wall timer is armed
  graceTimer,  \* the code captured by the job's armed grace timer, or NoCode
  shown,       \* the last progress passed to onProgress
  completion   \* what job.completion resolved with, or NoResult

vars == <<disposed, queue, active, state, facts, cancelCode, live, listening,
          posted, wallTimer, graceTimer, shown, completion>>

----------------------------------------------------------------------------
NoCode == "undefined"
CancelCode == {"analysis-cancelled", "analysis-wall-timeout"}
ThrownCode == "error.code"    \* whatever code a thrown error carries
StartCode == {"analysis-worker-unavailable", "analysis-worker-post-failed", ThrownCode}
HostCode == CancelCode \cup StartCode \cup
            {"analysis-worker-crashed", "analysis-worker-malformed-output",
             "analysis-coordinator-disposed"}

Terminal == {"cancelled", "completed", "failed", "disposed"}
Executing == {"loading", "running", "cancelling"}
State == {"absent", "created"} \cup Executing \cup Terminal

Message == {"analysis-start", "analysis-cancel"}

Result == [lifecycle : Terminal, code : HostCode \cup WorkerCode \cup {NoCode},
           report : Digest \cup {NoReport}]
ASSUME ResultAssumption == NoResult \notin Result

\* What assertAnalysisWorkerEvent accepts, reduced to what the coordinator
\* tells apart, and "invalid" for everything it rejects.  within_budget stands
\* for the package count and the metric and output limits of one report.
Event ==
  [type : {"invalid"}]
  \cup [type : {"analysis-progress"}, job_id : Job, completed : Progress]
  \cup [type : {"analysis-completed"}, job_id : Job, bundle_digest : Digest,
        within_budget : BOOLEAN]
  \cup [type : {"analysis-cancelled", "analysis-failed"}, job_id : Job,
        code : WorkerCode]

TypeOK ==
  /\ disposed \in BOOLEAN
  /\ queue \in Seq(Job)
  /\ active \in Job \cup {NoJob}
  /\ state \in [Job -> State]
  /\ facts \in [Job -> Digest \cup {NoReport}]
  /\ cancelCode \in [Job -> CancelCode \cup {NoCode}]
  /\ live \subseteq Job
  /\ listening \subseteq Job
  /\ posted \in [Job -> Seq(Message)]
  /\ wallTimer \subseteq Job
  /\ graceTimer \in [Job -> CancelCode \cup {NoCode}]
  /\ shown \in [Job -> Progress \cup {NoProgress}]
  /\ completion \in [Job -> Result \cup {NoResult}]

Init ==
  /\ disposed = FALSE
  /\ queue = <<>>
  /\ active = NoJob
  /\ state = [j \in Job |-> "absent"]
  /\ facts = [j \in Job |-> NoReport]
  /\ cancelCode = [j \in Job |-> NoCode]
  /\ live = {}
  /\ listening = {}
  /\ posted = [j \in Job |-> <<>>]
  /\ wallTimer = {}
  /\ graceTimer = [j \in Job |-> NoCode]
  /\ shown = [j \in Job |-> NoProgress]
  /\ completion = [j \in Job |-> NoResult]

----------------------------------------------------------------------------
\* The event loop is inside the call to spawnWorker().
Spawning == active # NoJob /\ state[active] = "loading" /\ active \notin live

\* A worker is there but addEventListener threw: the job is neither started nor ended,
\* and it has no timer.
Unheard == active # NoJob /\ state[active] = "loading" /\ active \in live

\* Broken variants of a definition stand before it, each named for its bug.
ActivateNextTwice(st, q, a) ==    \* does not ask whether the slot is taken
  IF q = <<>> THEN state' = st /\ queue' = q /\ active' = a
  ELSE /\ state' = [st EXCEPT ![Head(q)] = "loading"]
       /\ queue' = Tail(q)
       /\ active' = Head(q)

ActivateNextNewest(st, q, a) ==    \* takes the last job instead of the first
  IF disposed' \/ a # NoJob \/ q = <<>> \/ st[q[Len(q)]] \in Terminal
  THEN state' = st /\ queue' = q /\ active' = a
  ELSE /\ state' = [st EXCEPT ![q[Len(q)]] = "loading"]
       /\ queue' = SubSeq(q, 1, Len(q) - 1)
       /\ active' = q[Len(q)]

\* activateNext, entered with the states st, the queue q and the slot owner a:
\* shift past the jobs that are already terminal, give the slot to the first
\* that is not.
ActivateNext(st, q, a) ==
  \/ /\ disposed' \/ a # NoJob
     /\ state' = st /\ queue' = q /\ active' = a
  \/ /\ ~disposed' /\ a = NoJob
     /\ \A i \in DOMAIN q : st[q[i]] \in Terminal
     /\ state' = st /\ queue' = <<>> /\ active' = NoJob
  \/ /\ ~disposed' /\ a = NoJob
     /\ \E i \in DOMAIN q :
          /\ st[q[i]] \notin Terminal
          /\ \A k \in 1 .. (i - 1) : st[q[k]] \in Terminal
          /\ state' = [st EXCEPT ![q[i]] = "loading"]
          /\ queue' = SubSeq(q, i + 1, Len(q))
          /\ active' = q[i]

Resolve(S, lifecycle, code, report) ==
  completion' = [j \in Job |->
    IF j \in S
    THEN [lifecycle |-> lifecycle, code |-> code, report |-> report]
    ELSE completion[j]]

FinishLeavingWorker(S, lifecycle, code, report) ==    \* does not terminate
  /\ wallTimer' = wallTimer \ S
  /\ graceTimer' = [j \in Job |-> IF j \in S THEN NoCode ELSE graceTimer[j]]
  /\ live' = live
  /\ Resolve(S, lifecycle, code, report)
  /\ ActivateNext([j \in Job |-> IF j \in S THEN lifecycle ELSE state[j]],
                  queue, IF active \in S THEN NoJob ELSE active)

FinishWithoutNext(S, lifecycle, code, report) ==    \* does not activate the next
  /\ wallTimer' = wallTimer \ S
  /\ graceTimer' = [j \in Job |-> IF j \in S THEN NoCode ELSE graceTimer[j]]
  /\ live' = live \ S
  /\ Resolve(S, lifecycle, code, report)
  /\ state' = [j \in Job |-> IF j \in S THEN lifecycle ELSE state[j]]
  /\ queue' = queue
  /\ active' = IF active \in S THEN NoJob ELSE active

\* finish, for the jobs S (dispose finishes several in one turn): stop the
\* timers and the worker, record the result, free the slot, activate the next.
\* The listeners are the caller's part: see Detach.
Finish(S, lifecycle, code, report) ==
  /\ wallTimer' = wallTimer \ S
  /\ graceTimer' = [j \in Job |-> IF j \in S THEN NoCode ELSE graceTimer[j]]
  /\ live' = live \ S
  /\ Resolve(S, lifecycle, code, report)
  /\ ActivateNext([j \in Job |-> IF j \in S THEN lifecycle ELSE state[j]],
                  queue, IF active \in S THEN NoJob ELSE active)

\* Workers without removeEventListener keep the coordinator's listeners.
Detach(S) == listening' = listening \ (S \cap Detachable)

----------------------------------------------------------------------------
\* submit with a valid budget, snapshot and job id: anything else throws
\* before the coordinator changes.
Submit(j, d) ==
  /\ ~Spawning /\ ~disposed
  /\ state[j] = "absent"
  /\ facts' = [facts EXCEPT ![j] = d]
  /\ disposed' = disposed
  /\ ActivateNext([state EXCEPT ![j] = "created"], Append(queue, j), active)
  /\ UNCHANGED <<cancelCode, live, listening, posted, wallTimer, graceTimer,
                 shown, completion>>

\* spawnWorker() returned a worker and the start message was posted.
SpawnSucceeds ==
  /\ Spawning
  /\ live' = live \cup {active}
  /\ listening' = listening \cup {active}
  /\ state' = [state EXCEPT ![active] = "running"]
  /\ posted' = [posted EXCEPT ![active] = Append(@, "analysis-start")]
  /\ wallTimer' = wallTimer \cup {active}
  /\ UNCHANGED <<disposed, queue, active, facts, cancelCode, graceTimer, shown,
                 completion>>

\* spawnWorker() threw, or returned something that is not a worker.
SpawnThrows ==
  /\ Spawning
  /\ disposed' = disposed
  /\ \E code \in {"analysis-worker-unavailable", ThrownCode} :
       Finish({active}, "failed", code, NoReport)
  /\ UNCHANGED <<facts, cancelCode, listening, posted, shown>>

\* addEventListener threw, for the first listener or for the second.  Nothing catches
\* it, so the turn ends here, whoever began it.
ListenThrows ==
  /\ Spawning
  /\ active \notin Listenable
  /\ live' = live \cup {active}
  /\ listening' \in {listening, listening \cup {active}}
  /\ UNCHANGED <<disposed, queue, active, state, facts, cancelCode, posted,
                 wallTimer, graceTimer, shown, completion>>

\* The worker exists and is listened to, but building or posting the start
\* message threw (facts or capability report invalid, not cloneable).
PostThrows ==
  /\ Spawning
  /\ disposed' = disposed
  /\ \E code \in {"analysis-worker-post-failed", ThrownCode} :
       Finish({active}, "failed", code, NoReport)
  /\ listening' = listening \cup ({active} \ Detachable)
  /\ UNCHANGED <<facts, cancelCode, posted, shown>>

----------------------------------------------------------------------------
\* cancel(job, code) on a job that still waits: it stays in the queue array
\* until activateNext shifts past it.
CancelWaiting(j) ==
  /\ ~Spawning
  /\ state[j] = "created"
  /\ cancelCode' = [cancelCode EXCEPT ![j] = "analysis-cancelled"]
  /\ disposed' = disposed
  /\ Finish({j}, "cancelled", "analysis-cancelled", NoReport)
  /\ Detach({j})
  /\ UNCHANGED <<facts, posted, shown>>

CancelRunningWithoutGrace(j, code) ==    \* trusts the worker to stop
  /\ state[j] \in {"loading", "running"}
  /\ state' = [state EXCEPT ![j] = "cancelling"]
  /\ cancelCode' = [cancelCode EXCEPT ![j] = code]
  /\ posted' = [posted EXCEPT ![j] = Append(@, "analysis-cancel")]
  /\ UNCHANGED <<disposed, queue, active, facts, live, listening, graceTimer,
                 shown, completion>>

CancelRunningByRestart(j, code) ==    \* posts the wrong message
  /\ state[j] \in {"loading", "running"}
  /\ state' = [state EXCEPT ![j] = "cancelling"]
  /\ cancelCode' = [cancelCode EXCEPT ![j] = code]
  /\ graceTimer' = [graceTimer EXCEPT ![j] = code]
  /\ posted' = [posted EXCEPT ![j] = Append(@, "analysis-start")]
  /\ UNCHANGED <<disposed, queue, active, facts, live, listening, shown,
                 completion>>

\* cancel(job, code) on a job that runs, or is loading for good: ask the worker (a throw
\* is swallowed) and arm the grace timer with this code.
CancelRunning(j, code) ==
  /\ state[j] \in {"loading", "running"}
  /\ state' = [state EXCEPT ![j] = "cancelling"]
  /\ cancelCode' = [cancelCode EXCEPT ![j] = code]
  /\ graceTimer' = [graceTimer EXCEPT ![j] = code]
  /\ \/ posted' = [posted EXCEPT ![j] = Append(@, "analysis-cancel")]
     \/ posted' = posted
  /\ UNCHANGED <<disposed, queue, active, facts, live, listening, shown,
                 completion>>

\* cancel(job, code) on a job that is already cancelling only changes the code.
CancelAgain(j, code) ==
  /\ state[j] = "cancelling"
  /\ cancelCode' = [cancelCode EXCEPT ![j] = code]
  /\ UNCHANGED <<disposed, queue, active, state, facts, live, listening,
                 posted, graceTimer, shown, completion>>

CancelExecuting(j, code) == CancelRunning(j, code) \/ CancelAgain(j, code)

\* The caller's cancel, on the handle or by job id.
Cancel(j) ==
  \/ CancelWaiting(j)
  \/ ~Spawning /\ CancelExecuting(j, "analysis-cancelled") /\ UNCHANGED wallTimer

WallTimeout(j) ==
  /\ ~Spawning
  /\ j \in wallTimer
  /\ wallTimer' = wallTimer \ {j}
  /\ CancelExecuting(j, "analysis-wall-timeout")

GraceTimeout(j) ==
  /\ ~Spawning
  /\ graceTimer[j] # NoCode
  /\ disposed' = disposed
  /\ Finish({j}, "cancelled", graceTimer[j], NoReport)
  /\ Detach({j})
  /\ UNCHANGED <<facts, cancelCode, posted, shown>>

Dispose ==
  /\ ~Spawning
  /\ ~disposed
  /\ disposed' = TRUE
  /\ LET dropped == {j \in Job : \/ active = j
                                 \/ /\ \E i \in DOMAIN queue : queue[i] = j
                                    /\ state[j] \notin Terminal}
     IN  /\ Finish(dropped, "disposed", "analysis-coordinator-disposed", NoReport)
         /\ Detach(dropped)
  /\ UNCHANGED <<facts, cancelCode, posted, shown>>

----------------------------------------------------------------------------
\* handleWorkerEvent: the early return, and its five outcomes.
Heeded(j) == j \in listening /\ active = j /\ state[j] \notin Terminal

AcceptableWhileCancelling(j, e) ==    \* takes a report that came too late
  /\ state[j] \in {"running", "cancelling"}
  /\ e.bundle_digest = facts[j]
  /\ e.within_budget

\* What the handler requires of a completed event before it keeps the report.
Acceptable(j, e) ==
  /\ state[j] = "running"
  /\ e.bundle_digest = facts[j]
  /\ e.within_budget

SettleFrom(j, lifecycle, code, report) ==
  /\ disposed' = disposed
  /\ Finish({j}, lifecycle, code, report)
  /\ Detach({j})
  /\ UNCHANGED <<facts, cancelCode, posted, shown>>

OnForeign(j, e) ==
  /\ e.type = "invalid" \/ (e.type # "invalid" /\ e.job_id # j)
  /\ SettleFrom(j, "failed", "analysis-worker-malformed-output", NoReport)

OnProgress(j, e) ==
  /\ e.type = "analysis-progress" /\ e.job_id = j
  /\ state[j] = "running"
  /\ shown' = [shown EXCEPT ![j] = e.completed]
  /\ UNCHANGED <<disposed, queue, active, state, facts, cancelCode, live,
                 listening, posted, wallTimer, graceTimer, completion>>

OnCompleted(j, e) ==
  /\ e.type = "analysis-completed" /\ e.job_id = j
  /\ \/ /\ Acceptable(j, e)
        /\ SettleFrom(j, "completed", NoCode, e.bundle_digest)
     \/ /\ ~Acceptable(j, e)
        /\ SettleFrom(j, "failed", "analysis-worker-malformed-output", NoReport)

OnCancelledByWorker(j, e) ==    \* repeats the worker's code
  /\ e.type = "analysis-cancelled" /\ e.job_id = j
  /\ SettleFrom(j, "cancelled", e.code, NoReport)

\* The host's reason for the cancellation, or the worker's if it had none.
OnCancelled(j, e) ==
  /\ e.type = "analysis-cancelled" /\ e.job_id = j
  /\ SettleFrom(j, "cancelled",
                IF cancelCode[j] # NoCode THEN cancelCode[j] ELSE e.code,
                NoReport)

OnFailed(j, e) ==
  /\ e.type = "analysis-failed" /\ e.job_id = j
  /\ SettleFrom(j, "failed", e.code, NoReport)

HandleWorkerEvent(j, e) ==
  /\ ~Spawning /\ Heeded(j)
  /\ \/ OnForeign(j, e)
     \/ OnProgress(j, e)
     \/ OnCompleted(j, e)
     \/ OnCancelled(j, e)
     \/ OnFailed(j, e)

\* The "error" listener is attached after the other one, and then the start is posted.
ErrorIsHeard(j) == j \in listening /\ posted[j] # <<>> /\ posted[j][1] = "analysis-start"

\* The worker's error event: an uncaught exception, or a script that failed
\* to load.  This listener does not ask whether the job is active.
WorkerError(j) ==
  /\ ~Spawning
  /\ ErrorIsHeard(j) /\ state[j] \notin Terminal
  /\ SettleFrom(j, "failed", "analysis-worker-crashed", NoReport)

----------------------------------------------------------------------------
Spawn == SpawnSucceeds \/ SpawnThrows \/ ListenThrows \/ PostThrows

\* What the coordinator itself, its callers and its timers do.
HostNext ==
  \/ Spawn
  \/ Dispose
  \/ \E j \in Job :
       \/ \E d \in Submitted : Submit(j, d)
       \/ Cancel(j)
       \/ WallTimeout(j)
       \/ GraceTimeout(j)

Next ==
  \/ HostNext
  \/ \E j \in Job :
       \/ \E e \in Event : HandleWorkerEvent(j, e)
       \/ WorkerError(j)

Safety == Init /\ [][Next]_vars

\* spawnWorker() returns or throws, and an armed timer fires unless it is
\* cleared: the browser's event loop.  No worker owes the host any event.
Fairness ==
  /\ WF_vars(Spawn)
  /\ \A j \in Job : WF_vars(WallTimeout(j)) /\ WF_vars(GraceTimeout(j))

Spec == Safety /\ Fairness

----------------------------------------------------------------------------
\* A worker is live only while its job holds the slot and executes, and a job that runs
\* has one: no settled, queued or disposed job leaves a worker behind, and no two run at
\* once (spawn at line 88, terminate at 172, "one active worker" of
\* planWorkerConcurrency).
ExclusiveWorker ==
  /\ \A j \in Job : /\ state[j] \in {"running", "cancelling"} => j \in live
                    /\ j \in live => state[j] \in Executing
  /\ \A j \in Job : state[j] \in Executing <=> active = j

\* What each stage of a job has armed: a running job always has its wall timer,
\* a cancelling job always has its grace timer (so even a hung worker is ended),
\* and a job that is not executing has neither.
TimersFollowState ==
  \A j \in Job :
    /\ state[j] = "running" => j \in wallTimer /\ graceTimer[j] = NoCode
    /\ state[j] = "cancelling" => graceTimer[j] # NoCode
    /\ state[j] \notin {"running", "cancelling"} =>
         j \notin wallTimer /\ graceTimer[j] = NoCode

\* The promise of a job resolves exactly when its lifecycle is terminal, and
\* reports that lifecycle.
ResultMatchesState ==
  \A j \in Job :
    IF state[j] \in Terminal
    THEN completion[j] # NoResult /\ completion[j].lifecycle = state[j]
    ELSE completion[j] = NoResult

\* A report leaves the coordinator only in a completed result, for the very
\* snapshot that was submitted, and never once cancellation was requested by
\* the caller or by the wall timer ("never a partial or stale report").
ReportOnlyWhenWanted ==
  \A j \in Job : completion[j] # NoResult =>
    IF completion[j].lifecycle = "completed"
    THEN completion[j].report = facts[j] /\ cancelCode[j] = NoCode
    ELSE completion[j].report = NoReport

\* A cancelled result names the host's reason whenever the host had one: the
\* code in the worker's own cancelled event never replaces it.
HostReasonWins ==
  \A j \in Job :
    state[j] = "cancelled" /\ cancelCode[j] # NoCode =>
      completion[j].code \in CancelCode

\* The slot is never idle while a job waits: whatever ended the last job,
\* finish handed the slot on (line 198), past the jobs cancelled in the queue.
WorkConserving ==
  active = NoJob /\ ~disposed => \A j \in Job : state[j] # "created"

\* A waiting job is in the queue exactly once, and nothing that executes is.
QueueHoldsWaiting ==
  \A j \in Job :
    LET places == {i \in DOMAIN queue : queue[i] = j}
    IN  /\ state[j] = "created" => Cardinality(places) = 1
        /\ state[j] \in Executing \cup {"absent"} => places = {}

\* Disposal leaves no waiting or executing job and no worker.
DisposedIsQuiet ==
  disposed => live = {} /\ \A j \in Job : state[j] \in Terminal \cup {"absent"}

\* A settled job stays as it is: no late event, timer, second cancel or disposal
\* changes its state or its result.
SettledStays ==
  \A j \in Job : completion[j] # NoResult =>
    completion'[j] = completion[j] /\ state'[j] = state[j]

SettledIsFinal == [][SettledStays]_vars

\* First come, first served: a job takes the slot only when every job ahead of
\* it in the queue is settled.
InTurn ==
  \A n \in DOMAIN queue :
    state[queue[n]] = "created" /\ state'[queue[n]] = "loading" =>
      \A m \in 1 .. (n - 1) : state'[queue[m]] \in Terminal

FirstComeFirstServed == [][InTurn]_vars

\* Every submitted job gets its result, whatever its worker does, if it ever
\* does anything: spawn, wall timer and grace timer are enough.  It can only wait for
\* ever behind a job, or be one, whose worker threw from addEventListener, which line 98
\* leaves without a timer until somebody cancels it.
EveryJobSettles ==
  \A j \in Job : state[j] # "absent" ~> state[j] \in Terminal \/ Unheard

----------------------------------------------------------------------------
\* The refinement mapping to the caller's view of the jobs.
PhaseOf(s) ==
  CASE s = "absent" -> "absent"
    [] s = "created" -> "waiting"
    [] s \in {"loading", "running"} -> "served"
    [] s = "cancelling" -> "stopping"
    [] s \in Terminal -> "settled"

ReportOf(result) == IF result = NoResult THEN NoReport ELSE result.report

Caller == INSTANCE AnalysisJobs WITH
  phase <- [j \in Job |-> PhaseOf(state[j])],
  wanted <- facts,
  report <- [j \in Job |-> ReportOf(completion[j])]

\* The coordinator implements what its callers are promised: each job is served
\* alone, stops are obeyed, and it settles once, with its own report or none.
KeepsThePromise == Caller!Spec
=============================================================================
