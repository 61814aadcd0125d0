---------------------- MODULE AnalysisCoordinatorProofs ----------------------
(***************************************************************************)
(* Proofs about AnalysisCoordinator, for every set of jobs, digests, worker *)
(* codes and detachable workers.  The inductive invariant IInv is TypeOK,   *)
(* the safety invariants the runs check, and what they need to be inductive: *)
(* SlotOK (how the queue, the states and the slot owner fit together),      *)
(* CodeFollowsState (when a job can carry a cancellation code) and          *)
(* ListenersFollowState (which jobs can still be heard).                    *)
(*                                                                         *)
(* The last part is about AnalysisSystem, the coordinator with its workers. *)
(* SystemInv relates what the host posted, heard and showed to what each    *)
(* worker handled and said; with it every step of the system is a step of   *)
(* the coordinator and of the workers alone.                                *)
(***************************************************************************)
EXTENDS AnalysisSystem, SequenceTheorems, FiniteSetTheorems, TLAPS

\* The queue holds waiting and settled jobs, each at most once, and every
\* waiting job; the slot owner is the one job that executes.
SlotOK(st, q, a) ==
  /\ st \in [Job -> State]
  /\ q \in Seq(Job)
  /\ a \in Job \cup {NoJob}
  /\ \A i \in DOMAIN q : st[q[i]] \in {"created"} \cup Terminal
  /\ \A i, k \in DOMAIN q : q[i] = q[k] => i = k
  /\ \A j \in Job : st[j] = "created" => \E i \in DOMAIN q : q[i] = j
  /\ \A j \in Job : st[j] \in Executing <=> a = j

\* Nobody has asked a job that waits, loads or runs to stop; a job that is
\* cancelling was asked by the caller or by its wall timer.
CodeFollowsState ==
  \A j \in Job :
    /\ state[j] \in {"absent", "created", "loading", "running"} =>
         cancelCode[j] = NoCode
    /\ state[j] = "cancelling" => cancelCode[j] \in CancelCode

\* Only a job that got its worker has listeners, and it may keep them.  A job that is
\* still loading with its worker has one that threw from addEventListener.
ListenersFollowState ==
  /\ \A j \in listening : /\ state[j] \notin {"absent", "created"}
                          /\ state[j] = "loading" => j \in live
  /\ \A j \in live : state[j] = "loading" => j \notin Listenable

IInv ==
  /\ TypeOK
  /\ SlotOK(state, queue, active)
  /\ ListenersFollowState
  /\ CodeFollowsState
  /\ ExclusiveWorker
  /\ TimersFollowState
  /\ ResultMatchesState
  /\ ReportOnlyWhenWanted
  /\ HostReasonWins
  /\ WorkConserving
  /\ DisposedIsQuiet

----------------------------------------------------------------------------
\* activateNext: whatever it is entered with, the queue, the states and the slot
\* fit together afterwards, it changes no state but that of one waiting job it
\* loads, and it leaves no job waiting beside a free slot (lines 79-85).
LEMMA ActivateNextEffect ==
  ASSUME NEW st, NEW q, NEW a,
         SlotOK(st, q, a),
         ActivateNext(st, q, a)
  PROVE  /\ SlotOK(state', queue', active')
         /\ \A j \in Job : \/ state'[j] = st[j]
                           \/ /\ st[j] = "created" /\ state'[j] = "loading"
                              /\ ~disposed'
         /\ ~disposed' /\ active' = NoJob => \A j \in Job : state'[j] # "created"
         /\ \A n \in DOMAIN q :
              st[q[n]] = "created" /\ state'[q[n]] = "loading" =>
                \A m \in 1 .. (n - 1) : state'[q[m]] \in Terminal
<1>1. CASE (disposed' \/ a # NoJob) /\ state' = st /\ queue' = q /\ active' = a
  BY <1>1 DEF SlotOK
<1>2. CASE /\ ~disposed' /\ a = NoJob
           /\ \A i \in DOMAIN q : st[q[i]] \in Terminal
           /\ state' = st /\ queue' = <<>> /\ active' = NoJob
  <2>1. \A j \in Job : st[j] # "created"
    BY <1>2 DEF SlotOK, Terminal
  <2>2. SlotOK(st, <<>>, NoJob)
    BY <1>2, <2>1 DEF SlotOK
  <2> QED BY <1>2, <2>1, <2>2
<1>3. CASE /\ ~disposed' /\ a = NoJob
           /\ \E i \in DOMAIN q :
                /\ st[q[i]] \notin Terminal
                /\ \A k \in 1 .. (i - 1) : st[q[k]] \in Terminal
                /\ state' = [st EXCEPT ![q[i]] = "loading"]
                /\ queue' = SubSeq(q, i + 1, Len(q))
                /\ active' = q[i]
  <2>1. PICK i \in DOMAIN q :
                /\ st[q[i]] \notin Terminal
                /\ \A k \in 1 .. (i - 1) : st[q[k]] \in Terminal
                /\ state' = [st EXCEPT ![q[i]] = "loading"]
                /\ queue' = SubSeq(q, i + 1, Len(q))
                /\ active' = q[i]
    BY <1>3
  <2>2. /\ q \in Seq(Job) /\ st \in [Job -> State] /\ DOMAIN q = 1 .. Len(q)
        /\ i \in 1 .. Len(q) /\ q[i] \in Job /\ Len(q) \in Nat
    BY <2>1 DEF SlotOK
  <2>3. st[q[i]] = "created"
    BY <2>1 DEF SlotOK
  <2>4. /\ queue' \in Seq(Job)
        /\ DOMAIN queue' = 1 .. (Len(q) - i)
        /\ \A k \in DOMAIN queue' : queue'[k] = q[i + k]
    BY <2>1, <2>2
  <2>5. state' \in [Job -> State]
    BY <2>1, <2>2 DEF State, Executing
  <2>6. \A j \in Job : j # q[i] => state'[j] = st[j]
    BY <2>1, <2>2 DEF SlotOK
  <2>7. state'[q[i]] = "loading"
    BY <2>1, <2>2
  <2>8. \A k \in DOMAIN queue' : i + k \in DOMAIN q /\ queue'[k] # q[i]
    <3> SUFFICES ASSUME NEW k \in DOMAIN queue'
                 PROVE  i + k \in DOMAIN q /\ queue'[k] # q[i]
      OBVIOUS
    <3>1. i + k \in DOMAIN q /\ i + k # i
      BY <2>2, <2>4
    <3> QED BY <3>1, <2>4, <2>1 DEF SlotOK
  <2>9. \A k \in DOMAIN queue' : state'[queue'[k]] \in {"created"} \cup Terminal
    BY <2>2, <2>4, <2>6, <2>8 DEF SlotOK
  <2>10. \A k, m \in DOMAIN queue' : queue'[k] = queue'[m] => k = m
    <3> SUFFICES ASSUME NEW k \in DOMAIN queue', NEW m \in DOMAIN queue',
                        queue'[k] = queue'[m]
                 PROVE  k = m
      OBVIOUS
    <3>1. i + k = i + m
      BY <2>4, <2>8 DEF SlotOK
    <3> QED BY <3>1, <2>2, <2>4
  <2>11. ASSUME NEW j \in Job, state'[j] = "created"
         PROVE  \E k \in DOMAIN queue' : queue'[k] = j
    <3>1. j # q[i] /\ st[j] = "created"
      BY <2>11, <2>6, <2>7
    <3>2. PICK n \in DOMAIN q : q[n] = j
      BY <3>1 DEF SlotOK
    <3>3. n \notin 1 .. (i - 1) /\ n # i
      BY <2>1, <3>1, <3>2 DEF Terminal
    <3>4. n - i \in DOMAIN queue' /\ i + (n - i) = n
      BY <2>2, <2>4, <3>2, <3>3
    <3> QED BY <3>2, <3>4, <2>4
  <2>12. \A j \in Job : state'[j] \in Executing <=> active' = j
    <3> SUFFICES ASSUME NEW j \in Job
                 PROVE  state'[j] \in Executing <=> active' = j
      OBVIOUS
    <3>1. CASE j = q[i]
      BY <3>1, <2>1, <2>7 DEF Executing
    <3>2. CASE j # q[i]
      <4>1. st[j] \notin Executing
        BY <1>3, JobAssumption DEF SlotOK
      <4> QED BY <4>1, <3>2, <2>1, <2>6
    <3> QED BY <3>1, <3>2
  <2>13. SlotOK(state', queue', active')
    BY <2>1, <2>2, <2>4, <2>5, <2>9, <2>10, <2>11, <2>12 DEF SlotOK
  <2>14. \A j \in Job : \/ state'[j] = st[j]
                        \/ /\ st[j] = "created" /\ state'[j] = "loading"
                           /\ ~disposed'
    BY <1>3, <2>3, <2>6, <2>7
  <2>15. active' # NoJob
    BY <2>1, <2>2, JobAssumption
  <2>16. ASSUME NEW n \in DOMAIN q, st[q[n]] = "created", state'[q[n]] = "loading",
                NEW m \in 1 .. (n - 1)
         PROVE  state'[q[m]] \in Terminal
    <3>1. q[n] = q[i]
      BY <2>16, <2>2, <2>6
    <3>2. n = i
      BY <3>1, <2>16 DEF SlotOK
    <3>3. st[q[m]] \in Terminal /\ q[m] \in Job /\ q[m] # q[i]
      BY <3>2, <2>1, <2>2, <2>3 DEF Terminal
    <3> QED BY <3>3, <2>6
  <2> QED BY <1>3, <2>13, <2>14, <2>15, <2>16
<1> QED BY <1>1, <1>2, <1>3 DEF ActivateNext

\* finish: the slot stays well formed, the finished jobs have the given result,
\* the others keep theirs, and workers, timers and results follow the states
\* again (lines 163-199).
LEMMA FinishEffect ==
  ASSUME IInv,
         NEW S \in SUBSET Job,
         NEW lifecycle \in Terminal,
         NEW code \in HostCode \cup WorkerCode \cup {NoCode},
         NEW report \in Digest \cup {NoReport},
         \A j \in S : state[j] \notin Terminal \cup {"absent"},
         Finish(S, lifecycle, code, report)
  PROVE  /\ InTurn
         /\ SlotOK(state', queue', active')
         /\ \A j \in S : /\ state'[j] = lifecycle
                         /\ completion'[j] = [lifecycle |-> lifecycle,
                                              code |-> code, report |-> report]
         /\ \A j \in Job \ S :
              /\ completion'[j] = completion[j]
              /\ \/ state'[j] = state[j]
                 \/ state[j] = "created" /\ state'[j] = "loading" /\ ~disposed'
         /\ completion' \in [Job -> Result \cup {NoResult}]
         /\ wallTimer' \subseteq Job
         /\ graceTimer' \in [Job -> CancelCode \cup {NoCode}]
         /\ ExclusiveWorker' /\ TimersFollowState' /\ ResultMatchesState'
         /\ WorkConserving'
<1> DEFINE st == [j \in Job |-> IF j \in S THEN lifecycle ELSE state[j]]
           a == IF active \in S THEN NoJob ELSE active
           new == [lifecycle |-> lifecycle, code |-> code, report |-> report]
<1>1. ActivateNext(st, queue, a)
  BY DEF Finish, Resolve
<1>2. /\ state \in [Job -> State] /\ queue \in Seq(Job)
      /\ active \in Job \cup {NoJob} /\ live \subseteq Job /\ wallTimer \subseteq Job
      /\ graceTimer \in [Job -> CancelCode \cup {NoCode}]
      /\ completion \in [Job -> Result \cup {NoResult}]
      /\ SlotOK(state, queue, active)
  BY DEF IInv, TypeOK
<1>3. SlotOK(st, queue, a)
  <2>1. st \in [Job -> State]
    BY <1>2 DEF State
  <2>2. a \in Job \cup {NoJob}
    BY <1>2
  <2>3. \A i \in DOMAIN queue : queue[i] \in Job
    BY <1>2
  <2>4. \A i \in DOMAIN queue : st[queue[i]] \in {"created"} \cup Terminal
    BY <1>2, <2>3 DEF SlotOK
  <2>5. \A j \in Job : st[j] = "created" => \E i \in DOMAIN queue : queue[i] = j
    BY <1>2 DEF SlotOK, Terminal
  <2>6. \A j \in Job : st[j] \in Executing <=> a = j
    <3> SUFFICES ASSUME NEW j \in Job
                 PROVE  st[j] \in Executing <=> a = j
      OBVIOUS
    <3>1. CASE j \in S
      BY <3>1, JobAssumption DEF Terminal, Executing
    <3>2. CASE j \notin S
      BY <3>2, <1>2, JobAssumption DEF SlotOK
    <3> QED BY <3>1, <3>2
  <2> HIDE DEF st, a
  <2> QED BY <1>2, <2>1, <2>2, <2>4, <2>5, <2>6 DEF SlotOK
<1>4. /\ SlotOK(state', queue', active')
      /\ \A j \in Job : \/ state'[j] = st[j]
                        \/ st[j] = "created" /\ state'[j] = "loading" /\ ~disposed'
      /\ ~disposed' /\ active' = NoJob => \A j \in Job : state'[j] # "created"
      /\ \A n \in DOMAIN queue :
           st[queue[n]] = "created" /\ state'[queue[n]] = "loading" =>
             \A m \in 1 .. (n - 1) : state'[queue[m]] \in Terminal
  <2> HIDE DEF st, a
  <2> QED BY <1>1, <1>3, ActivateNextEffect
<1>5. \A j \in S : state'[j] = lifecycle /\ completion'[j] = new
  BY <1>4 DEF Terminal, Finish, Resolve
<1>6. \A j \in Job \ S :
        /\ completion'[j] = completion[j]
        /\ \/ state'[j] = state[j]
           \/ state[j] = "created" /\ state'[j] = "loading" /\ ~disposed'
  BY <1>4 DEF Finish, Resolve
<1>7. new \in Result
  BY DEF Result
<1>8. completion' \in [Job -> Result \cup {NoResult}]
  BY <1>2, <1>7 DEF Finish, Resolve
<1>9. /\ wallTimer' \subseteq Job
      /\ graceTimer' \in [Job -> CancelCode \cup {NoCode}]
  BY <1>2 DEF Finish, Resolve
<1>10. ExclusiveWorker'
  <2>1. \A j \in Job : state'[j] \in Executing <=> active' = j
    BY <1>4 DEF SlotOK
  <2>2. ASSUME NEW j \in Job
        PROVE  /\ state'[j] \in {"running", "cancelling"} => j \in live'
               /\ j \in live' => state'[j] \in Executing
    <3>1. CASE j \in S
      BY <3>1, <1>5 DEF Finish, Resolve, Terminal
    <3>2. CASE j \notin S
      BY <3>2, <1>6 DEF Finish, Resolve, IInv, ExclusiveWorker, Executing
    <3> QED BY <3>1, <3>2
  <2> QED BY <2>1, <2>2 DEF ExclusiveWorker
<1>11. TimersFollowState'
  <2> SUFFICES ASSUME NEW j \in Job
               PROVE  /\ state'[j] = "running" =>
                           j \in wallTimer' /\ graceTimer'[j] = NoCode
                      /\ state'[j] = "cancelling" => graceTimer'[j] # NoCode
                      /\ state'[j] \notin {"running", "cancelling"} =>
                           j \notin wallTimer' /\ graceTimer'[j] = NoCode
    BY DEF TimersFollowState
  <2>1. CASE j \in S
    BY <2>1, <1>5 DEF Finish, Resolve, Terminal
  <2>2. CASE j \notin S
    BY <2>2, <1>6 DEF Finish, Resolve, IInv, TimersFollowState
  <2> QED BY <2>1, <2>2
<1>12. ResultMatchesState'
  <2> SUFFICES ASSUME NEW j \in Job
               PROVE  IF state'[j] \in Terminal
                      THEN /\ completion'[j] # NoResult
                           /\ completion'[j].lifecycle = state'[j]
                      ELSE completion'[j] = NoResult
    BY DEF ResultMatchesState
  <2>1. CASE j \in S
    BY <2>1, <1>5, <1>7, ResultAssumption
  <2>2. CASE j \notin S
    BY <2>2, <1>6 DEF IInv, ResultMatchesState, Terminal
  <2> QED BY <2>1, <2>2
<1>13. WorkConserving'
  BY <1>4 DEF WorkConserving
<1>14. ASSUME NEW n \in DOMAIN queue,
              state[queue[n]] = "created", state'[queue[n]] = "loading"
       PROVE  \A m \in 1 .. (n - 1) : state'[queue[m]] \in Terminal
  <2>1. queue[n] \in Job /\ queue[n] \notin S
    BY <1>2, <1>5, <1>14 DEF Terminal
  <2>2. st[queue[n]] = "created"
    BY <2>1, <1>14
  <2> QED BY <2>2, <1>4, <1>14
<1>15. InTurn
  BY <1>14 DEF InTurn
<1> QED
  BY <1>4, <1>5, <1>6, <1>8, <1>9, <1>10, <1>11, <1>12, <1>13, <1>15

\* A turn that finishes the jobs S preserves the invariant, provided its result
\* carries a report only if completed, its reason is the host's if the host had
\* one, and it disposes only together with every job that is left.
LEMMA FinishKeepsInvariant ==
  ASSUME IInv,
         NEW S \in SUBSET Job,
         NEW lifecycle \in Terminal,
         NEW code \in HostCode \cup WorkerCode \cup {NoCode},
         NEW report \in Digest \cup {NoReport},
         \A j \in S : state[j] \notin Terminal \cup {"absent"},
         Finish(S, lifecycle, code, report),
         facts' = facts, posted' = posted, shown' = shown,
         listening' \subseteq listening \cup S,
         cancelCode' \in [Job -> CancelCode \cup {NoCode}],
         \A j \in Job \ S : cancelCode'[j] = cancelCode[j],
         lifecycle # "completed" => report = NoReport,
         lifecycle = "completed" =>
           \A j \in S : report = facts[j] /\ cancelCode'[j] = NoCode,
         lifecycle = "cancelled" =>
           \A j \in S : cancelCode'[j] # NoCode => code \in CancelCode,
         disposed' \in BOOLEAN,
         disposed' => \A j \in Job \ S : state[j] \in Terminal \cup {"absent"}
  PROVE  IInv'
<1> DEFINE new == [lifecycle |-> lifecycle, code |-> code, report |-> report]
<1>1. /\ InTurn
      /\ SlotOK(state', queue', active')
      /\ \A j \in S : /\ state'[j] = lifecycle
                      /\ completion'[j] = new
      /\ \A j \in Job \ S :
           /\ completion'[j] = completion[j]
           /\ \/ state'[j] = state[j]
              \/ state[j] = "created" /\ state'[j] = "loading" /\ ~disposed'
      /\ completion' \in [Job -> Result \cup {NoResult}]
      /\ wallTimer' \subseteq Job
      /\ graceTimer' \in [Job -> CancelCode \cup {NoCode}]
      /\ ExclusiveWorker' /\ TimersFollowState' /\ ResultMatchesState'
      /\ WorkConserving'
  BY FinishEffect
<1>2. TypeOK'
  <2>1. live' \subseteq Job /\ listening' \subseteq Job
    BY DEF Finish, Resolve, IInv, TypeOK
  <2>2. /\ facts' \in [Job -> Digest \cup {NoReport}]
        /\ posted' \in [Job -> Seq(Message)]
        /\ shown' \in [Job -> Progress \cup {NoProgress}]
    BY DEF IInv, TypeOK
  <2> QED BY <1>1, <2>1, <2>2 DEF TypeOK, SlotOK
<1>3. CodeFollowsState'
  <2> SUFFICES ASSUME NEW j \in Job
               PROVE  /\ state'[j] \in {"absent", "created", "loading", "running"}
                           => cancelCode'[j] = NoCode
                      /\ state'[j] = "cancelling" => cancelCode'[j] \in CancelCode
    BY DEF CodeFollowsState
  <2>1. CASE j \in S
    BY <2>1, <1>1 DEF Terminal
  <2>2. CASE j \notin S
    BY <2>2, <1>1 DEF IInv, CodeFollowsState
  <2> QED BY <2>1, <2>2
<1>4. ReportOnlyWhenWanted'
  <2> SUFFICES ASSUME NEW j \in Job, completion'[j] # NoResult
               PROVE  IF completion'[j].lifecycle = "completed"
                      THEN completion'[j].report = facts'[j] /\ cancelCode'[j] = NoCode
                      ELSE completion'[j].report = NoReport
    BY DEF ReportOnlyWhenWanted
  <2>1. CASE j \in S
    BY <2>1, <1>1
  <2>2. CASE j \notin S
    BY <2>2, <1>1 DEF IInv, ReportOnlyWhenWanted
  <2> QED BY <2>1, <2>2
<1>5. HostReasonWins'
  <2> SUFFICES ASSUME NEW j \in Job, state'[j] = "cancelled", cancelCode'[j] # NoCode
               PROVE  completion'[j].code \in CancelCode
    BY DEF HostReasonWins
  <2>1. CASE j \in S
    BY <2>1, <1>1
  <2>2. CASE j \notin S
    BY <2>2, <1>1 DEF IInv, HostReasonWins
  <2> QED BY <2>1, <2>2
<1>6. DisposedIsQuiet'
  <2> SUFFICES ASSUME disposed'
               PROVE  live' = {} /\ \A j \in Job : state'[j] \in Terminal \cup {"absent"}
    BY DEF DisposedIsQuiet
  <2>1. \A j \in Job : state'[j] \in Terminal \cup {"absent"}
    BY <1>1
  <2>2. live' \subseteq Job
    BY <1>2 DEF TypeOK
  <2> QED BY <2>1, <2>2, <1>1 DEF ExclusiveWorker, Executing, Terminal
<1>7. ListenersFollowState'
  <2>1. ASSUME NEW j \in listening'
        PROVE  /\ state'[j] \notin {"absent", "created"}
               /\ state'[j] = "loading" => j \in live'
    <3>1. CASE j \in S
      BY <3>1, <1>1 DEF Terminal
    <3>2. CASE j \notin S
      <4>1. j \in listening /\ j \in Job \ S
        BY <2>1, <3>2 DEF IInv, TypeOK
      <4>2. state'[j] = state[j]
        BY <4>1, <1>1 DEF IInv, ListenersFollowState
      <4>3. j \in live => j \in live'
        BY <3>2 DEF Finish
      <4> QED BY <4>1, <4>2, <4>3 DEF IInv, ListenersFollowState
    <3> QED BY <3>1, <3>2
  <2>2. ASSUME NEW j \in live', state'[j] = "loading"
        PROVE  j \notin Listenable
    <3>1. j \in live /\ j \in Job \ S
      BY <2>2 DEF Finish, IInv, TypeOK
    <3>2. state[j] # "created"
      BY <3>1 DEF IInv, ExclusiveWorker, Executing
    <3>3. state[j] = "loading"
      BY <2>2, <3>1, <3>2, <1>1
    <3> QED BY <3>1, <3>3 DEF IInv, ListenersFollowState
  <2> QED BY <2>1, <2>2 DEF ListenersFollowState
<1> QED BY <1>1, <1>2, <1>3, <1>4, <1>5, <1>6, <1>7 DEF IInv

----------------------------------------------------------------------------
LEMMA InitInvariant == Init => IInv
<1> SUFFICES ASSUME Init PROVE IInv
  OBVIOUS
<1> USE DEF Init
<1>1. TypeOK
  <2>1. <<>> \in Seq(Job) /\ <<>> \in Seq(Message)
    OBVIOUS
  <2>2. /\ queue \in Seq(Job) /\ posted \in [Job -> Seq(Message)]
        /\ state \in [Job -> State]
    BY <2>1 DEF State
  <2> QED BY <2>2 DEF TypeOK
<1>2. SlotOK(state, queue, active)
  BY JobAssumption DEF SlotOK, State, Executing
<1>3. CodeFollowsState /\ ExclusiveWorker /\ TimersFollowState
  BY JobAssumption DEF CodeFollowsState, ExclusiveWorker, TimersFollowState, Executing
<1>4. ResultMatchesState /\ ReportOnlyWhenWanted /\ HostReasonWins
  BY DEF ResultMatchesState, ReportOnlyWhenWanted, HostReasonWins, Terminal
<1>5. WorkConserving /\ DisposedIsQuiet /\ ListenersFollowState
  BY DEF WorkConserving, DisposedIsQuiet, ListenersFollowState
<1> QED BY <1>1, <1>2, <1>3, <1>4, <1>5 DEF IInv

\* submit: the new job goes to the end of the queue, and at once to the slot if
\* it is free.
LEMMA SubmitEffect ==
  ASSUME IInv, NEW j \in Job, NEW d \in Digest, Submit(j, d)
  PROVE  /\ SlotOK(state', queue', active')
         /\ \A i \in Job \ {j} : \/ state'[i] = state[i]
                                 \/ state[i] = "created" /\ state'[i] = "loading"
         /\ state'[j] \in {"created", "loading"}
         /\ active' = NoJob => \A i \in Job : state'[i] # "created"
<1> DEFINE st == [state EXCEPT ![j] = "created"]
           q == Append(queue, j)
<1>1. /\ TypeOK /\ SlotOK(state, queue, active)
      /\ ~disposed /\ ~disposed' /\ state[j] = "absent"
  BY DEF IInv, Submit
<1>2. SlotOK(st, q, active)
  <2>1. /\ queue \in Seq(Job) /\ state \in [Job -> State] /\ Len(queue) \in Nat
        /\ DOMAIN queue = 1 .. Len(queue)
    BY <1>1 DEF TypeOK
  <2>2. /\ q \in Seq(Job) /\ DOMAIN q = 1 .. (Len(queue) + 1)
        /\ q[Len(queue) + 1] = j
        /\ \A i \in DOMAIN queue : q[i] = queue[i]
    BY <2>1
  <2>3. \A i \in DOMAIN queue : queue[i] \in Job /\ queue[i] # j
    BY <1>1, <2>1 DEF SlotOK, Terminal
  <2>4. st \in [Job -> State]
    BY <2>1 DEF State
  <2>5. \A i \in DOMAIN q : st[q[i]] \in {"created"} \cup Terminal
    BY <1>1, <2>1, <2>2, <2>3 DEF SlotOK
  <2>6. \A i, k \in DOMAIN q : q[i] = q[k] => i = k
    BY <1>1, <2>1, <2>2, <2>3 DEF SlotOK
  <2>7. \A i \in Job : st[i] = "created" => \E k \in DOMAIN q : q[k] = i
    BY <1>1, <2>1, <2>2 DEF SlotOK
  <2>8. \A i \in Job : st[i] \in Executing <=> active = i
    BY <1>1, <2>1 DEF SlotOK, Executing
  <2> HIDE DEF st, q
  <2> QED BY <1>1, <2>2, <2>4, <2>5, <2>6, <2>7, <2>8 DEF SlotOK
<1>3. ActivateNext(st, q, active)
  BY DEF Submit
<1>4. /\ SlotOK(state', queue', active')
      /\ \A i \in Job : \/ state'[i] = st[i]
                        \/ st[i] = "created" /\ state'[i] = "loading"
      /\ active' = NoJob => \A i \in Job : state'[i] # "created"
  <2> HIDE DEF st, q
  <2> QED BY <1>1, <1>2, <1>3, ActivateNextEffect
<1>5. /\ \A i \in Job \ {j} : \/ state'[i] = state[i]
                              \/ state[i] = "created" /\ state'[i] = "loading"
      /\ state'[j] \in {"created", "loading"}
  BY <1>1, <1>4 DEF TypeOK
<1> QED BY <1>4, <1>5

LEMMA SubmitKeepsInvariant ==
  ASSUME IInv, NEW j \in Job, NEW d \in Digest, Submit(j, d)
  PROVE  IInv'
<1>1. /\ TypeOK /\ SlotOK(state, queue, active)
      /\ ~disposed /\ ~disposed' /\ state[j] = "absent"
  BY DEF IInv, Submit
<1>2. /\ SlotOK(state', queue', active')
      /\ active' = NoJob => \A i \in Job : state'[i] # "created"
  BY SubmitEffect
<1>3. /\ \A i \in Job \ {j} : \/ state'[i] = state[i]
                              \/ state[i] = "created" /\ state'[i] = "loading"
      /\ state'[j] \in {"created", "loading"}
  BY SubmitEffect
<1>4. /\ UNCHANGED <<cancelCode, live, listening, posted, wallTimer, graceTimer,
                     shown, completion>>
      /\ facts' = [facts EXCEPT ![j] = d] /\ disposed' = disposed
  BY DEF Submit
<1>5. TypeOK'
  BY <1>1, <1>2, <1>4 DEF TypeOK, SlotOK
<1>6. CodeFollowsState' /\ ExclusiveWorker' /\ TimersFollowState'
  <2>1. CodeFollowsState'
    BY <1>1, <1>3, <1>4 DEF CodeFollowsState, IInv
  <2>2. TimersFollowState'
    BY <1>1, <1>3, <1>4 DEF TimersFollowState, IInv
  <2>3. \A i \in Job : /\ state'[i] \in {"running", "cancelling"} => i \in live'
                       /\ i \in live' => state'[i] \in Executing
    BY <1>1, <1>3, <1>4 DEF ExclusiveWorker, IInv, Executing
  <2>4. ExclusiveWorker'
    BY <1>2, <2>3 DEF ExclusiveWorker, SlotOK
  <2> QED BY <2>1, <2>2, <2>4
<1>7. ResultMatchesState' /\ ReportOnlyWhenWanted' /\ HostReasonWins'
  <2>1. ResultMatchesState'
    BY <1>1, <1>3, <1>4 DEF ResultMatchesState, IInv, Terminal
  <2>2. completion[j] = NoResult
    BY <1>1 DEF ResultMatchesState, IInv, Terminal
  <2>3. ReportOnlyWhenWanted'
    BY <1>1, <2>2, <1>4 DEF ReportOnlyWhenWanted, IInv, TypeOK
  <2>4. HostReasonWins'
    BY <1>3, <1>4 DEF HostReasonWins, IInv
  <2> QED BY <2>1, <2>3, <2>4
<1>8. WorkConserving' /\ DisposedIsQuiet'
  BY <1>1, <1>2 DEF WorkConserving, DisposedIsQuiet
<1>9. ListenersFollowState'
  <2>1. j \notin listening /\ j \notin live
    BY <1>1 DEF IInv, ListenersFollowState, ExclusiveWorker, Executing
  <2>2. \A i \in listening \cup live : i \in Job \ {j} /\ state'[i] = state[i]
    BY <2>1, <1>1, <1>3 DEF IInv, TypeOK, ListenersFollowState, ExclusiveWorker, Executing
  <2> QED BY <2>2, <1>4 DEF ListenersFollowState, IInv
<1> QED
  BY <1>2, <1>5, <1>6, <1>7, <1>8, <1>9 DEF IInv

\* spawnWorker() returned: the job runs, with its worker and its wall timer.
LEMMA SpawnSucceedsKeepsInvariant ==
  ASSUME IInv, SpawnSucceeds
  PROVE  IInv'
<1>1. /\ TypeOK /\ SlotOK(state, queue, active)
      /\ active \in Job /\ state[active] = "loading"
      /\ state' = [state EXCEPT ![active] = "running"]
      /\ live' = live \cup {active} /\ wallTimer' = wallTimer \cup {active}
      /\ UNCHANGED <<disposed, queue, active, facts, cancelCode, graceTimer, shown,
                     completion>>
  BY DEF IInv, SpawnSucceeds, Spawning, TypeOK
<1>2. SlotOK(state', queue', active')
  BY <1>1 DEF SlotOK, State, Executing, Terminal
<1>3. TypeOK'
  <2>1. "analysis-start" \in Message
    BY DEF Message
  <2>2. posted' \in [Job -> Seq(Message)]
    BY <1>1, <2>1 DEF SpawnSucceeds, TypeOK
  <2>3. listening' \subseteq Job
    BY <1>1 DEF SpawnSucceeds, TypeOK
  <2> QED BY <1>1, <1>2, <2>2, <2>3 DEF TypeOK, SlotOK
<1>4. CodeFollowsState'
  BY <1>1 DEF CodeFollowsState, IInv, TypeOK
<1>5. ExclusiveWorker'
  <2>1. \A i \in Job : /\ state'[i] \in {"running", "cancelling"} => i \in live'
                       /\ i \in live' => state'[i] \in Executing
    BY <1>1 DEF ExclusiveWorker, IInv, TypeOK, Executing
  <2> QED BY <2>1, <1>2 DEF ExclusiveWorker, SlotOK
<1>6. TimersFollowState'
  BY <1>1 DEF TimersFollowState, IInv, TypeOK
<1>7. ResultMatchesState' /\ ReportOnlyWhenWanted' /\ HostReasonWins'
  BY <1>1 DEF ResultMatchesState, ReportOnlyWhenWanted, HostReasonWins, IInv,
              TypeOK, Terminal
<1>8. WorkConserving' /\ DisposedIsQuiet'
  BY <1>1, JobAssumption DEF WorkConserving, DisposedIsQuiet, IInv, Terminal
<1>9. ListenersFollowState'
  BY <1>1 DEF SpawnSucceeds, ListenersFollowState, IInv, TypeOK
<1> QED BY <1>2, <1>3, <1>4, <1>5, <1>6, <1>7, <1>8, <1>9 DEF IInv

\* addEventListener threw: the job stays as it is, with a worker.
LEMMA ListenThrowsKeepsInvariant ==
  ASSUME IInv, ListenThrows
  PROVE  IInv'
<1>1. /\ active \in Job /\ state[active] = "loading" /\ active \notin Listenable
      /\ live' = live \cup {active}
      /\ listening' \in {listening, listening \cup {active}}
      /\ UNCHANGED <<disposed, queue, active, state, facts, cancelCode, posted,
                     wallTimer, graceTimer, shown, completion>>
  BY DEF ListenThrows, Spawning, IInv, TypeOK
<1>2. TypeOK' /\ SlotOK(state', queue', active')
  BY <1>1 DEF IInv, TypeOK, SlotOK
<1>3. ListenersFollowState'
  BY <1>1 DEF IInv, ListenersFollowState
<1>4. ExclusiveWorker'
  BY <1>1 DEF IInv, ExclusiveWorker, Executing
<1>5. DisposedIsQuiet'
  BY <1>1 DEF IInv, DisposedIsQuiet, Terminal
<1> QED BY <1>1, <1>2, <1>3, <1>4, <1>5 DEF IInv, CodeFollowsState, TimersFollowState,
           ResultMatchesState, ReportOnlyWhenWanted, HostReasonWins, WorkConserving

\* cancel on a job that executes, by the caller or by the wall timer (which has
\* then fired): the job is cancelling, with a grace timer and a code.
LEMMA CancelExecutingKeepsInvariant ==
  ASSUME IInv, NEW j \in Job, NEW code \in CancelCode,
         CancelExecuting(j, code), ~Spawning,
         \/ wallTimer' = wallTimer
         \/ wallTimer' = wallTimer \ {j}
  PROVE  IInv'
<1>1. /\ TypeOK /\ SlotOK(state, queue, active)
      /\ state[j] \in Executing
      /\ state[j] = "loading" => j \in live
      /\ state' = [state EXCEPT ![j] = "cancelling"]
      /\ cancelCode' = [cancelCode EXCEPT ![j] = code]
      /\ graceTimer' = graceTimer \/ graceTimer' = [graceTimer EXCEPT ![j] = code]
      /\ state[j] # "cancelling" => graceTimer' = [graceTimer EXCEPT ![j] = code]
      /\ UNCHANGED <<disposed, queue, active, facts, live, listening, shown,
                     completion>>
  <2>1. TypeOK /\ SlotOK(state, queue, active)
    BY DEF IInv
  <2>2. CASE CancelRunning(j, code)
    <3>1. state[j] \in {"loading", "running"}
      BY <2>2 DEF CancelRunning
    <3>2. state[j] \in Executing /\ active = j
      BY <2>1, <3>1 DEF SlotOK, Executing
    <3>3. state[j] = "loading" => j \in live
      BY <3>2, JobAssumption DEF Spawning
    <3> QED BY <2>1, <2>2, <3>1, <3>2, <3>3 DEF CancelRunning
  <2>3. CASE CancelAgain(j, code)
    <3>1. state' = [state EXCEPT ![j] = "cancelling"]
      BY <2>1, <2>3 DEF CancelAgain, TypeOK
    <3> QED BY <2>1, <2>3, <3>1 DEF CancelAgain, Executing
  <2> QED BY <2>2, <2>3 DEF CancelExecuting
<1>2. code # NoCode
  BY DEF CancelCode, NoCode
<1>3. SlotOK(state', queue', active')
  BY <1>1 DEF SlotOK, State, Executing, Terminal
<1>4. TypeOK'
  <2>1. "analysis-cancel" \in Message
    BY DEF Message
  <2>2. posted' \in [Job -> Seq(Message)]
    <3>1. posted' = posted \/ posted' = [posted EXCEPT ![j] = Append(@, "analysis-cancel")]
      BY DEF CancelExecuting, CancelRunning, CancelAgain
    <3>2. Append(posted[j], "analysis-cancel") \in Seq(Message)
      BY <1>1, <2>1 DEF TypeOK
    <3> QED BY <3>1, <3>2, <1>1 DEF TypeOK
  <2>3. /\ cancelCode' \in [Job -> CancelCode \cup {NoCode}]
        /\ graceTimer' \in [Job -> CancelCode \cup {NoCode}]
        /\ wallTimer' \subseteq Job
    <3>1. /\ cancelCode \in [Job -> CancelCode \cup {NoCode}]
          /\ graceTimer \in [Job -> CancelCode \cup {NoCode}]
          /\ wallTimer \subseteq Job
      BY <1>1 DEF TypeOK
    <3>2. code \in CancelCode \cup {NoCode}
      OBVIOUS
    <3>3. /\ [cancelCode EXCEPT ![j] = code] \in [Job -> CancelCode \cup {NoCode}]
          /\ [graceTimer EXCEPT ![j] = code] \in [Job -> CancelCode \cup {NoCode}]
      BY <3>1, <3>2
    <3> QED BY <1>1, <3>1, <3>3
  <2>4. state' \in [Job -> State] /\ queue' \in Seq(Job) /\ active' \in Job \cup {NoJob}
    BY <1>3 DEF SlotOK
  <2> QED BY <1>1, <2>2, <2>3, <2>4 DEF TypeOK
<1>5. CodeFollowsState'
  BY <1>1 DEF CodeFollowsState, IInv, TypeOK, Executing
<1>6. ExclusiveWorker'
  <2>1. \A i \in Job : /\ state'[i] \in {"running", "cancelling"} => i \in live'
                       /\ i \in live' => state'[i] \in Executing
    BY <1>1 DEF ExclusiveWorker, IInv, TypeOK, Executing
  <2> QED BY <2>1, <1>3 DEF ExclusiveWorker, SlotOK
<1>7. TimersFollowState'
  BY <1>1, <1>2 DEF TimersFollowState, IInv, TypeOK, Executing
<1>8. ResultMatchesState'
  BY <1>1 DEF ResultMatchesState, IInv, TypeOK, Terminal, Executing
<1>9. ReportOnlyWhenWanted' /\ HostReasonWins'
  <2>1. completion[j] = NoResult
    BY <1>1 DEF ResultMatchesState, IInv, Terminal, Executing
  <2> QED BY <1>1, <2>1 DEF ReportOnlyWhenWanted, HostReasonWins, IInv, TypeOK
<1>10. WorkConserving' /\ DisposedIsQuiet'
  BY <1>1 DEF WorkConserving, DisposedIsQuiet, IInv, TypeOK, Terminal, Executing
<1>11. ListenersFollowState'
  BY <1>1 DEF ListenersFollowState, IInv, TypeOK
<1> QED BY <1>3, <1>4, <1>5, <1>6, <1>7, <1>8, <1>9, <1>10, <1>11 DEF IInv

\* The turns that end one job: a spawn or post that threw, a cancel in the queue,
\* the grace timer, and every final event of the worker.
LEMMA SettleKeepsInvariant ==
  ASSUME IInv, NEW j \in Job, NEW lifecycle \in Terminal,
         NEW code \in HostCode \cup WorkerCode \cup {NoCode},
         NEW report \in Digest \cup {NoReport},
         state[j] \notin Terminal \cup {"absent"},
         Finish({j}, lifecycle, code, report),
         UNCHANGED <<disposed, facts, cancelCode, posted, shown>>,
         listening' \subseteq listening \cup {j},
         lifecycle # "completed" => report = NoReport,
         lifecycle = "completed" => report = facts[j] /\ cancelCode[j] = NoCode,
         lifecycle = "cancelled" => (cancelCode[j] # NoCode => code \in CancelCode)
  PROVE  IInv'
<1>1. /\ disposed' \in BOOLEAN
      /\ cancelCode' \in [Job -> CancelCode \cup {NoCode}]
  BY DEF IInv, TypeOK
<1>2. disposed' => \A i \in Job \ {j} : state[i] \in Terminal \cup {"absent"}
  BY DEF IInv, DisposedIsQuiet
<1>3. {j} \in SUBSET Job
  OBVIOUS
<1> QED BY <1>1, <1>2, <1>3, FinishKeepsInvariant

LEMMA SpawnKeepsInvariant ==
  ASSUME IInv, Spawn
  PROVE  IInv'
<1>1. CASE SpawnSucceeds
  BY <1>1, SpawnSucceedsKeepsInvariant
<1>2. ASSUME Spawning
      PROVE  active \in Job /\ state[active] \notin Terminal \cup {"absent"}
  BY <1>2 DEF Spawning, IInv, TypeOK, Terminal
<1>3. /\ "failed" \in Terminal /\ NoReport \in Digest \cup {NoReport}
      /\ StartCode \subseteq HostCode
  BY DEF Terminal, HostCode
<1>4. CASE SpawnThrows
  <2>1. listening' \subseteq listening \cup {active}
    BY <1>4 DEF SpawnThrows, IInv, TypeOK
  <2>2. PICK code \in StartCode : Finish({active}, "failed", code, NoReport)
    BY <1>4 DEF SpawnThrows, StartCode
  <2> QED BY <1>2, <1>3, <1>4, <2>1, <2>2, SettleKeepsInvariant DEF SpawnThrows
<1>5. CASE PostThrows
  <2>1. listening' \subseteq listening \cup {active}
    BY <1>2, <1>5 DEF PostThrows, IInv, TypeOK
  <2>2. PICK code \in StartCode : Finish({active}, "failed", code, NoReport)
    BY <1>5 DEF PostThrows, StartCode
  <2> QED BY <1>2, <1>3, <1>5, <2>1, <2>2, SettleKeepsInvariant DEF PostThrows
<1> QED BY <1>1, <1>4, <1>5, ListenThrowsKeepsInvariant DEF Spawn

LEMMA CancelWaitingKeepsInvariant ==
  ASSUME IInv, NEW j \in Job, CancelWaiting(j)
  PROVE  IInv'
<1>1. /\ "cancelled" \in Terminal /\ NoReport \in Digest \cup {NoReport}
      /\ "analysis-cancelled" \in CancelCode /\ "analysis-cancelled" \in HostCode
  BY DEF Terminal, HostCode, CancelCode
<1>2. /\ {j} \in SUBSET Job
      /\ \A i \in {j} : state[i] \notin Terminal \cup {"absent"}
      /\ listening' \subseteq listening \cup {j}
      /\ disposed' \in BOOLEAN
      /\ disposed' = disposed
      /\ cancelCode' = [cancelCode EXCEPT ![j] = "analysis-cancelled"]
      /\ cancelCode' \in [Job -> CancelCode \cup {NoCode}]
      /\ \A i \in Job \ {j} : cancelCode'[i] = cancelCode[i]
      /\ \A i \in {j} : cancelCode'[i] # NoCode => "analysis-cancelled" \in CancelCode
  BY <1>1 DEF CancelWaiting, Detach, IInv, TypeOK, Terminal
<1>3. disposed' => \A i \in Job \ {j} : state[i] \in Terminal \cup {"absent"}
  BY <1>2 DEF IInv, DisposedIsQuiet
<1> QED BY <1>1, <1>2, <1>3, FinishKeepsInvariant DEF CancelWaiting

LEMMA GraceTimeoutKeepsInvariant ==
  ASSUME IInv, NEW j \in Job, GraceTimeout(j)
  PROVE  IInv'
<1>1. /\ "cancelled" \in Terminal /\ NoReport \in Digest \cup {NoReport}
      /\ graceTimer[j] \in CancelCode
      /\ listening' \subseteq listening \cup {j}
  BY DEF GraceTimeout, Detach, Terminal, IInv, TypeOK
<1>2. graceTimer[j] \in HostCode
  BY <1>1 DEF HostCode
<1>3. state[j] \notin Terminal \cup {"absent"}
  BY DEF GraceTimeout, IInv, TimersFollowState, Terminal
<1> QED BY <1>1, <1>2, <1>3, SettleKeepsInvariant DEF GraceTimeout

\* dispose: every waiting job and the active one settle in the same turn.
LEMMA DisposeKeepsInvariant ==
  ASSUME IInv, Dispose
  PROVE  IInv'
<1> DEFINE dropped == {j \in Job : \/ active = j
                                  \/ /\ \E i \in DOMAIN queue : queue[i] = j
                                     /\ state[j] \notin Terminal}
<1>1. /\ Finish(dropped, "disposed", "analysis-coordinator-disposed", NoReport)
      /\ Detach(dropped)
      /\ disposed' = TRUE
      /\ UNCHANGED <<facts, cancelCode, posted, shown>>
  BY DEF Dispose
<1>2. /\ "disposed" \in Terminal /\ NoReport \in Digest \cup {NoReport}
      /\ "analysis-coordinator-disposed" \in HostCode
  BY DEF Terminal, HostCode
<1>3. \A j \in dropped : state[j] \notin Terminal \cup {"absent"}
  BY DEF IInv, SlotOK, Executing, Terminal
<1>4. \A j \in Job \ dropped : state[j] \in Terminal \cup {"absent"}
  BY DEF IInv, SlotOK, State
<1>5. /\ dropped \in SUBSET Job
      /\ listening' \subseteq listening \cup dropped
      /\ disposed' \in BOOLEAN
      /\ cancelCode' \in [Job -> CancelCode \cup {NoCode}]
      /\ \A j \in Job \ dropped : cancelCode'[j] = cancelCode[j]
  BY <1>1 DEF Detach, IInv, TypeOK
<1> HIDE DEF dropped
<1> QED BY <1>1, <1>2, <1>3, <1>4, <1>5, FinishKeepsInvariant

\* Any event of the worker, well formed or not.
LEMMA WorkerEventKeepsInvariant ==
  ASSUME IInv, NEW j \in Job, NEW e \in Event, HandleWorkerEvent(j, e)
  PROVE  IInv'
<1>1. state[j] \in Executing
  BY DEF HandleWorkerEvent, Heeded, IInv, SlotOK
<1>2. state[j] \notin Terminal \cup {"absent"}
  BY <1>1 DEF Executing, Terminal
<1>3. ASSUME NEW lifecycle, NEW code, NEW report, SettleFrom(j, lifecycle, code, report)
      PROVE  /\ Finish({j}, lifecycle, code, report)
             /\ UNCHANGED <<disposed, facts, cancelCode, posted, shown>>
             /\ listening' \subseteq listening \cup {j}
  BY <1>3 DEF SettleFrom, Detach, IInv, TypeOK
<1>4. /\ {"failed", "completed", "cancelled"} \subseteq Terminal
      /\ "analysis-worker-malformed-output" \in HostCode
      /\ NoReport \in Digest \cup {NoReport}
      /\ CancelCode \subseteq HostCode
  BY DEF Terminal, HostCode
<1>5. CASE SettleFrom(j, "failed", "analysis-worker-malformed-output", NoReport)
  BY <1>2, <1>3, <1>4, <1>5, SettleKeepsInvariant
<1>6. CASE OnForeign(j, e)
  BY <1>5, <1>6 DEF OnForeign
<1>7. CASE OnProgress(j, e)
  <2>1. /\ shown' \in [Job -> Progress \cup {NoProgress}]
        /\ UNCHANGED <<disposed, queue, active, state, facts, cancelCode, live,
                       listening, posted, wallTimer, graceTimer, completion>>
    BY <1>7 DEF OnProgress, Event, IInv, TypeOK
  <2>2. TypeOK'
    BY <2>1 DEF IInv, TypeOK
  <2>3. SlotOK(state', queue', active') /\ ListenersFollowState'
    BY <2>1 DEF IInv, SlotOK, ListenersFollowState
  <2> QED BY <2>1, <2>2, <2>3 DEF IInv, CodeFollowsState, ExclusiveWorker,
             TimersFollowState, ResultMatchesState, ReportOnlyWhenWanted,
             HostReasonWins, WorkConserving, DisposedIsQuiet
<1>8. CASE OnCompleted(j, e)
  <2>1. CASE Acceptable(j, e) /\ SettleFrom(j, "completed", NoCode, e.bundle_digest)
    <3>1. e.bundle_digest \in Digest /\ e.bundle_digest = facts[j]
      BY <2>1, <1>8 DEF Acceptable, OnCompleted, Event
    <3>2. cancelCode[j] = NoCode
      BY <2>1 DEF Acceptable, IInv, CodeFollowsState
    <3> QED BY <1>2, <1>3, <1>4, <2>1, <3>1, <3>2, SettleKeepsInvariant
  <2> QED BY <2>1, <1>5, <1>8 DEF OnCompleted
<1>9. CASE OnCancelled(j, e)
  <2> DEFINE code == IF cancelCode[j] # NoCode THEN cancelCode[j] ELSE e.code
  <2>1. e.code \in WorkerCode
    BY <1>9 DEF OnCancelled, Event
  <2>2. cancelCode[j] # NoCode => cancelCode[j] \in CancelCode
    BY DEF IInv, TypeOK
  <2>3. /\ code \in HostCode \cup WorkerCode \cup {NoCode}
        /\ cancelCode[j] # NoCode => code \in CancelCode
    BY <1>4, <2>1, <2>2
  <2>4. SettleFrom(j, "cancelled", code, NoReport)
    BY <1>9 DEF OnCancelled
  <2> HIDE DEF code
  <2> QED BY <1>2, <1>3, <1>4, <2>3, <2>4, SettleKeepsInvariant
<1>10. CASE OnFailed(j, e)
  <2>1. e.code \in WorkerCode /\ SettleFrom(j, "failed", e.code, NoReport)
    BY <1>10 DEF OnFailed, Event
  <2> QED BY <1>2, <1>3, <1>4, <2>1, SettleKeepsInvariant
<1> QED BY <1>6, <1>7, <1>8, <1>9, <1>10 DEF HandleWorkerEvent

LEMMA WorkerErrorKeepsInvariant ==
  ASSUME IInv, NEW j \in Job, WorkerError(j)
  PROVE  IInv'
<1>1. state[j] \notin Terminal \cup {"absent"}
  BY DEF WorkerError, ErrorIsHeard, IInv, ListenersFollowState
<1>2. /\ Finish({j}, "failed", "analysis-worker-crashed", NoReport)
      /\ UNCHANGED <<disposed, facts, cancelCode, posted, shown>>
      /\ listening' \subseteq listening \cup {j}
  BY DEF WorkerError, SettleFrom, Detach
<1>3. /\ "failed" \in Terminal /\ NoReport \in Digest \cup {NoReport}
      /\ "analysis-worker-crashed" \in HostCode
  BY DEF Terminal, HostCode
<1> QED BY <1>1, <1>2, <1>3, SettleKeepsInvariant

LEMMA NextKeepsInvariant == IInv /\ [Next]_vars => IInv'
<1> SUFFICES ASSUME IInv, [Next]_vars PROVE IInv'
  OBVIOUS
<1>1. CASE UNCHANGED vars
  BY <1>1 DEF vars, IInv, TypeOK, SlotOK, ListenersFollowState, CodeFollowsState,
              ExclusiveWorker, TimersFollowState, ResultMatchesState,
              ReportOnlyWhenWanted, HostReasonWins, WorkConserving, DisposedIsQuiet
<1>2. CASE Spawn
  BY <1>2, SpawnKeepsInvariant
<1>3. CASE Dispose
  BY <1>3, DisposeKeepsInvariant
<1>4. ASSUME NEW j \in Job, NEW d \in Submitted, Submit(j, d) PROVE IInv'
  BY <1>4, DigestAssumption, SubmitKeepsInvariant
<1>5. /\ "analysis-cancelled" \in CancelCode
      /\ "analysis-wall-timeout" \in CancelCode
  BY DEF CancelCode
<1>6. ASSUME NEW j \in Job, Cancel(j) PROVE IInv'
  BY <1>5, <1>6, CancelWaitingKeepsInvariant, CancelExecutingKeepsInvariant
     DEF Cancel
<1>7. ASSUME NEW j \in Job, WallTimeout(j) PROVE IInv'
  BY <1>5, <1>7, CancelExecutingKeepsInvariant DEF WallTimeout
<1>8. ASSUME NEW j \in Job, GraceTimeout(j) PROVE IInv'
  BY <1>8, GraceTimeoutKeepsInvariant
<1>9. ASSUME NEW j \in Job, NEW e \in Event, HandleWorkerEvent(j, e) PROVE IInv'
  BY <1>9, WorkerEventKeepsInvariant
<1>10. ASSUME NEW j \in Job, WorkerError(j) PROVE IInv'
  BY <1>10, WorkerErrorKeepsInvariant
<1> QED
  BY <1>1, <1>2, <1>3, <1>4, <1>6, <1>7, <1>8, <1>9, <1>10 DEF Next, HostNext

----------------------------------------------------------------------------
\* The inductive invariant holds in every reachable state.
THEOREM Invariance == Safety => []IInv
  BY InitInvariant, NextKeepsInvariant, PTL DEF Safety

\* TypeOK and the invariants of the runs, for every value of the constants.
THEOREM TypeCorrect == Safety => []TypeOK
  BY Invariance, PTL DEF IInv

\* At most one worker is live, and only while its job holds the slot.
THEOREM OneWorkerAtATime == Safety => []ExclusiveWorker
  BY Invariance, PTL DEF IInv

\* A running job has its wall timer and a cancelling job its grace timer, so no
\* worker can hold the slot for ever; nothing else has a timer.
THEOREM TimersGuardTheSlot == Safety => []TimersFollowState
  BY Invariance, PTL DEF IInv

\* A job's promise resolves exactly when its lifecycle is terminal.
THEOREM ResultsAreHonest == Safety => []ResultMatchesState
  BY Invariance, PTL DEF IInv

\* A report comes only with a completed result, for the submitted snapshot, and
\* only if nobody asked the job to stop.
THEOREM NoStaleReport == Safety => []ReportOnlyWhenWanted
  BY Invariance, PTL DEF IInv

\* The worker's code never replaces the host's reason for a cancellation.
THEOREM HostGivesTheReason == Safety => []HostReasonWins
  BY Invariance, PTL DEF IInv

\* No job waits beside a free slot.
THEOREM SlotIsNeverWasted == Safety => []WorkConserving
  BY Invariance, PTL DEF IInv

\* Nothing is left to do, and no worker is left, once disposed.
THEOREM DisposalIsComplete == Safety => []DisposedIsQuiet
  BY Invariance, PTL DEF IInv

\* A waiting job is in the queue exactly once, an executing one never.
THEOREM NoJobIsLostInTheQueue == Safety => []QueueHoldsWaiting
<1>1. IInv => QueueHoldsWaiting
  <2> SUFFICES ASSUME IInv, NEW j \in Job
               PROVE  /\ state[j] = "created" =>
                           Cardinality({i \in DOMAIN queue : queue[i] = j}) = 1
                      /\ state[j] \in Executing \cup {"absent"} =>
                           {i \in DOMAIN queue : queue[i] = j} = {}
    BY DEF QueueHoldsWaiting
  <2>1. ASSUME state[j] = "created"
        PROVE  Cardinality({i \in DOMAIN queue : queue[i] = j}) = 1
    <3>1. PICK n \in DOMAIN queue : queue[n] = j
      BY <2>1 DEF IInv, SlotOK
    <3>2. {i \in DOMAIN queue : queue[i] = j} = {n}
      BY <3>1 DEF IInv, SlotOK
    <3> QED BY <3>2, FS_Singleton
  <2>2. ASSUME state[j] \in Executing \cup {"absent"}
        PROVE  {i \in DOMAIN queue : queue[i] = j} = {}
    BY <2>2 DEF IInv, SlotOK, Executing, Terminal
  <2> QED BY <2>1, <2>2
<1> QED BY <1>1, Invariance, PTL

----------------------------------------------------------------------------
\* How one step may move one job.  A step that finishes jobs moves others only
\* from waiting to loading; a report appears only when a running job settles.
Moves(j) ==
  /\ completion'[j] = completion[j]
  /\ \/ state'[j] = state[j]
     \/ state[j] = "absent" /\ state'[j] \in {"created", "loading"}
     \/ state[j] = "created" /\ state'[j] = "loading"
     \/ state[j] = "loading" /\ state'[j] = "running"
     \/ state[j] \in {"loading", "running"} /\ state'[j] = "cancelling"

Settles(j) ==
  /\ state[j] \in {"created"} \cup Executing
  /\ state'[j] \in Terminal
  /\ completion'[j] \in Result
  /\ completion'[j].report # NoReport =>
       state[j] = "running" /\ completion'[j].report = facts[j]

JobSteps ==
  /\ \A j \in Job : Moves(j) \/ Settles(j)
  /\ \A j \in Job : \/ facts'[j] = facts[j]
                    \/ state[j] = "absent" /\ state'[j] # "absent"
  /\ InTurn

LEMMA FinishSteps ==
  ASSUME IInv,
         NEW S \in SUBSET Job,
         NEW lifecycle \in Terminal,
         NEW code \in HostCode \cup WorkerCode \cup {NoCode},
         NEW report \in Digest \cup {NoReport},
         \A j \in S : state[j] \in {"created"} \cup Executing,
         Finish(S, lifecycle, code, report),
         facts' = facts,
         report # NoReport => \A j \in S : state[j] = "running" /\ report = facts[j]
  PROVE  JobSteps
<1>1. \A j \in S : state[j] \notin Terminal \cup {"absent"}
  BY DEF Executing, Terminal
<1>2. /\ InTurn
      /\ SlotOK(state', queue', active')
      /\ \A j \in S : /\ state'[j] = lifecycle
                      /\ completion'[j] = [lifecycle |-> lifecycle,
                                           code |-> code, report |-> report]
      /\ \A j \in Job \ S :
           /\ completion'[j] = completion[j]
           /\ \/ state'[j] = state[j]
              \/ state[j] = "created" /\ state'[j] = "loading" /\ ~disposed'
      /\ completion' \in [Job -> Result \cup {NoResult}]
      /\ wallTimer' \subseteq Job
      /\ graceTimer' \in [Job -> CancelCode \cup {NoCode}]
      /\ ExclusiveWorker' /\ TimersFollowState' /\ ResultMatchesState'
      /\ WorkConserving'
  BY <1>1, FinishEffect
<1>3. [lifecycle |-> lifecycle, code |-> code, report |-> report] \in Result
  BY DEF Result
<1>4. \A j \in S : Settles(j)
  BY <1>2, <1>3 DEF Settles
<1>5. \A j \in Job \ S : Moves(j)
  BY <1>2 DEF Moves
<1> QED BY <1>2, <1>4, <1>5 DEF JobSteps

\* The same for the turns that end one job.
LEMMA SettleSteps ==
  ASSUME IInv, NEW j \in Job, NEW lifecycle \in Terminal,
         NEW code \in HostCode \cup WorkerCode \cup {NoCode},
         NEW report \in Digest \cup {NoReport},
         state[j] \in {"created"} \cup Executing,
         Finish({j}, lifecycle, code, report),
         facts' = facts,
         report # NoReport => state[j] = "running" /\ report = facts[j]
  PROVE  JobSteps
  BY {j} \in SUBSET Job, FinishSteps

LEMMA SubmitSteps ==
  ASSUME IInv, NEW j \in Job, NEW d \in Digest, Submit(j, d)
  PROVE  JobSteps
<1> DEFINE st == [state EXCEPT ![j] = "created"]
           q == Append(queue, j)
<1>1. /\ TypeOK /\ SlotOK(state, queue, active)
      /\ ~disposed' /\ state[j] = "absent"
      /\ facts' = [facts EXCEPT ![j] = d] /\ completion' = completion
      /\ ActivateNext(st, q, active)
  BY DEF IInv, Submit
<1>2. /\ st \in [Job -> State]
      /\ DOMAIN queue = 1 .. Len(queue) /\ Len(queue) \in Nat
      /\ DOMAIN q = 1 .. (Len(queue) + 1)
      /\ \A n \in DOMAIN queue : q[n] = queue[n] /\ queue[n] \in Job
  BY <1>1 DEF TypeOK, State
<1>3. \A n \in DOMAIN queue : queue[n] # j
  BY <1>1, <1>2 DEF SlotOK, Terminal
<1>4. CASE active # NoJob
  <2>1. state' = st
    BY <1>1, <1>4 DEF ActivateNext
  <2>2. \A i \in Job : Moves(i)
    BY <1>1, <2>1 DEF Moves, TypeOK
  <2>3. InTurn
    BY <1>1, <1>2, <1>3, <2>1 DEF InTurn, TypeOK
  <2> QED BY <1>1, <2>1, <2>2, <2>3 DEF JobSteps, TypeOK
<1>5. CASE active = NoJob
  \* The slot is free, so nobody waits and every queued job is settled.
  <2>1. \A n \in DOMAIN queue : state[queue[n]] \in Terminal
    BY <1>1, <1>2, <1>5 DEF IInv, SlotOK, WorkConserving, Submit
  <2>2. \A i \in Job : state'[i] = st[i] \/ (st[i] = "created" /\ state'[i] = "loading")
    <3>1. CASE state' = st
      BY <3>1
    <3>2. CASE state' # st
      <4>1. PICK n \in DOMAIN q : /\ st[q[n]] \notin Terminal
                                  /\ state' = [st EXCEPT ![q[n]] = "loading"]
        BY <1>1, <3>2 DEF ActivateNext
      <4>2. n \notin DOMAIN queue
        BY <1>1, <1>2, <1>3, <2>1, <4>1 DEF TypeOK
      <4>3. q[n] = j
        BY <1>1, <1>2, <4>2 DEF TypeOK
      <4> QED BY <1>1, <1>2, <4>1, <4>3 DEF TypeOK
    <3> QED BY <3>1, <3>2
  <2>3. \A i \in Job : Moves(i)
    BY <1>1, <2>2 DEF Moves, TypeOK
  <2>4. InTurn
    BY <2>1 DEF InTurn, Terminal
  <2>5. state'[j] # "absent"
    BY <1>1, <2>2 DEF TypeOK
  <2> QED BY <1>1, <2>3, <2>4, <2>5 DEF JobSteps, TypeOK
<1> QED BY <1>4, <1>5

LEMMA NextSteps == IInv /\ [Next]_vars => JobSteps
<1> SUFFICES ASSUME IInv, [Next]_vars PROVE JobSteps
  OBVIOUS
<1>1. ASSUME state' = state, completion' = completion, facts' = facts
      PROVE  JobSteps
  BY <1>1 DEF JobSteps, Moves, InTurn
<1>2. CASE UNCHANGED vars
  BY <1>1, <1>2 DEF vars
<1>3. /\ {"failed", "completed", "cancelled", "disposed"} \subseteq Terminal
      /\ {"analysis-worker-malformed-output", "analysis-worker-crashed",
          "analysis-coordinator-disposed"} \subseteq HostCode
      /\ StartCode \subseteq HostCode
      /\ CancelCode \subseteq HostCode /\ "analysis-cancelled" \in CancelCode
      /\ NoReport \in Digest \cup {NoReport}
  BY DEF Terminal, HostCode, StartCode, CancelCode
<1>4. ASSUME Spawn PROVE JobSteps
  <2>1. active \in Job /\ state[active] = "loading"
    BY <1>4 DEF Spawn, SpawnSucceeds, SpawnThrows, ListenThrows, PostThrows, Spawning, IInv,
                TypeOK
  <2>2. state[active] \in {"created"} \cup Executing
    BY <2>1 DEF Executing
  <2>3. CASE SpawnSucceeds
    <3>1. /\ state' = [state EXCEPT ![active] = "running"]
          /\ facts' = facts /\ completion' = completion /\ TypeOK
      BY <2>3 DEF SpawnSucceeds, IInv
    <3>2. \A j \in Job : Moves(j)
      BY <2>1, <3>1 DEF Moves, TypeOK
    <3>3. InTurn
      BY <2>1, <3>1 DEF InTurn, TypeOK
    <3> QED BY <3>1, <3>2, <3>3 DEF JobSteps
  <2>4. CASE SpawnThrows
    <3>1. PICK code \in StartCode : Finish({active}, "failed", code, NoReport)
      BY <2>4 DEF SpawnThrows, StartCode
    <3> QED BY <1>3, <2>1, <2>2, <2>4, <3>1, SettleSteps DEF SpawnThrows
  <2>5. CASE PostThrows
    <3>1. PICK code \in StartCode : Finish({active}, "failed", code, NoReport)
      BY <2>5 DEF PostThrows, StartCode
    <3> QED BY <1>3, <2>1, <2>2, <2>5, <3>1, SettleSteps DEF PostThrows
  <2>6. CASE ListenThrows
    BY <1>1, <2>6 DEF ListenThrows
  <2> QED BY <1>4, <2>3, <2>4, <2>5, <2>6 DEF Spawn
<1>5. ASSUME Dispose PROVE JobSteps
  <2> DEFINE dropped == {j \in Job : \/ active = j
                                    \/ /\ \E i \in DOMAIN queue : queue[i] = j
                                       /\ state[j] \notin Terminal}
  <2>1. \A j \in dropped : state[j] \in {"created"} \cup Executing
    BY DEF IInv, SlotOK
  <2>2. /\ Finish(dropped, "disposed", "analysis-coordinator-disposed", NoReport)
        /\ facts' = facts
    BY <1>5 DEF Dispose
  <2>3. dropped \in SUBSET Job
    OBVIOUS
  <2> HIDE DEF dropped
  <2> QED BY <1>3, <2>1, <2>2, <2>3, FinishSteps
<1>6. ASSUME NEW j \in Job, NEW code \in CancelCode, CancelExecuting(j, code)
      PROVE  JobSteps
  <2>1. /\ state[j] \in {"loading", "running", "cancelling"} /\ TypeOK
        /\ state' = [state EXCEPT ![j] = "cancelling"] \/ state' = state
        /\ state[j] = "cancelling" => state' = state
        /\ facts' = facts /\ completion' = completion
    BY <1>6 DEF CancelExecuting, CancelRunning, CancelAgain, IInv
  <2>2. \A i \in Job : Moves(i)
    BY <2>1 DEF Moves, TypeOK
  <2>3. InTurn
    <3> SUFFICES ASSUME NEW n \in DOMAIN queue,
                        state[queue[n]] = "created", state'[queue[n]] = "loading"
                 PROVE  FALSE
      BY DEF InTurn
    <3>1. queue[n] \in Job /\ queue[n] # j
      BY <2>1 DEF TypeOK
    <3> QED BY <2>1, <3>1 DEF TypeOK
  <2> QED BY <2>1, <2>2, <2>3 DEF JobSteps
<1>7. ASSUME NEW j \in Job, Cancel(j) PROVE JobSteps
  <2>1. CASE CancelWaiting(j)
    BY <1>3, <2>1, SettleSteps DEF CancelWaiting
  <2> QED BY <1>3, <1>6, <1>7, <2>1 DEF Cancel
<1>8. ASSUME NEW j \in Job, WallTimeout(j) PROVE JobSteps
  BY <1>6, <1>8 DEF WallTimeout, CancelCode
<1>9. ASSUME NEW j \in Job, GraceTimeout(j) PROVE JobSteps
  <2>1. /\ state[j] \in {"created"} \cup Executing
        /\ graceTimer[j] \in CancelCode
    BY <1>9 DEF GraceTimeout, IInv, TypeOK, TimersFollowState, Executing
  <2> QED BY <1>3, <1>9, <2>1, SettleSteps DEF GraceTimeout
<1>10. ASSUME NEW j \in Job, WorkerError(j) PROVE JobSteps
  <2>1. state[j] \in {"created"} \cup Executing
    BY <1>10 DEF WorkerError, ErrorIsHeard, IInv, TypeOK, ListenersFollowState, State,
                Terminal
  <2> QED BY <1>3, <1>10, <2>1, SettleSteps DEF WorkerError, SettleFrom
<1>11. ASSUME NEW j \in Job, NEW e \in Event, HandleWorkerEvent(j, e)
       PROVE  JobSteps
  <2>1. state[j] \in {"created"} \cup Executing
    BY <1>11 DEF HandleWorkerEvent, Heeded, IInv, SlotOK
  <2>2. ASSUME NEW lifecycle \in {"failed", "completed", "cancelled"},
               NEW code \in HostCode \cup WorkerCode \cup {NoCode},
               NEW report \in Digest \cup {NoReport},
               report # NoReport => state[j] = "running" /\ report = facts[j],
               SettleFrom(j, lifecycle, code, report)
        PROVE  JobSteps
    BY <1>3, <2>1, <2>2, SettleSteps DEF SettleFrom
  <2>3. CASE SettleFrom(j, "failed", "analysis-worker-malformed-output", NoReport)
    BY <1>3, <2>2, <2>3
  <2>4. CASE OnProgress(j, e)
    BY <1>1, <2>4 DEF OnProgress
  <2>5. CASE OnCompleted(j, e)
    <3>1. CASE Acceptable(j, e) /\ SettleFrom(j, "completed", NoCode, e.bundle_digest)
      <4>1. e.bundle_digest \in Digest
        BY <2>5 DEF OnCompleted, Event
      <4> QED BY <2>2, <3>1, <4>1 DEF Acceptable
    <3> QED BY <2>3, <2>5, <3>1 DEF OnCompleted
  <2>6. CASE OnCancelled(j, e)
    <3> DEFINE code == IF cancelCode[j] # NoCode THEN cancelCode[j] ELSE e.code
    <3>1. e.code \in WorkerCode
      BY <2>6 DEF OnCancelled, Event
    <3>2. code \in HostCode \cup WorkerCode \cup {NoCode}
      BY <1>3, <3>1 DEF IInv, TypeOK
    <3>3. SettleFrom(j, "cancelled", code, NoReport)
      BY <2>6 DEF OnCancelled
    <3> HIDE DEF code
    <3> QED BY <1>3, <2>2, <3>2, <3>3
  <2>7. CASE OnFailed(j, e)
    <3>1. e.code \in WorkerCode
      BY <2>7 DEF OnFailed, Event
    <3> QED BY <1>3, <2>2, <2>7, <3>1 DEF OnFailed
  <2> QED BY <1>11, <2>3, <2>4, <2>5, <2>6, <2>7 DEF HandleWorkerEvent, OnForeign
<1>12. ASSUME NEW j \in Job, NEW d \in Submitted, Submit(j, d) PROVE JobSteps
  BY <1>12, DigestAssumption, SubmitSteps
<1> QED
  BY <1>2, <1>4, <1>5, <1>7, <1>8, <1>9, <1>10, <1>11, <1>12 DEF Next, HostNext

\* No step changes a settled job's state or result.
THEOREM ResultsAreFinal == Safety => SettledIsFinal
<1>1. IInv /\ [Next]_vars => [SettledStays]_vars
  <2> SUFFICES ASSUME IInv, [Next]_vars, NEW j \in Job, completion[j] # NoResult
               PROVE  completion'[j] = completion[j] /\ state'[j] = state[j]
    BY DEF SettledStays
  <2>1. state[j] \in Terminal
    BY DEF IInv, ResultMatchesState
  <2>2. Moves(j) \/ Settles(j)
    BY NextSteps DEF JobSteps
  <2> QED BY <2>1, <2>2 DEF Moves, Settles, Executing, Terminal
<1> QED BY <1>1, Invariance, PTL DEF Safety, SettledIsFinal

\* No step gives the slot to a job while one ahead of it still waits.
THEOREM QueueIsFair == Safety => FirstComeFirstServed
<1>1. IInv /\ [Next]_vars => [InTurn]_vars
  BY NextSteps DEF JobSteps
<1> QED BY <1>1, Invariance, PTL DEF Safety, FirstComeFirstServed

----------------------------------------------------------------------------
\* The coordinator implements AnalysisJobs: its first state is the caller's first
\* state, and each of its steps is a step of the caller's view or leaves it alone.
THEOREM Refinement == Safety => KeepsThePromise
<1>1. Init => Caller!Init
  <2> SUFFICES ASSUME Init PROVE Caller!Init
    OBVIOUS
  <2>1. /\ \A j \in Job : state[j] = "absent" /\ completion[j] = NoResult
        /\ facts = [j \in Job |-> NoReport]
    BY DEF Init
  <2>2. PhaseOf("absent") = "absent" /\ ReportOf(NoResult) = NoReport
    BY DEF PhaseOf, ReportOf, Terminal
  <2> QED BY <2>1, <2>2 DEF Caller!Init
<1>2. IInv /\ IInv' /\ [Next]_vars => [Caller!Next]_(Caller!jobVars)
  <2> SUFFICES ASSUME IInv, IInv', [Next]_vars
               PROVE  Caller!Next
    OBVIOUS
  <2> DEFINE ph == [j \in Job |-> PhaseOf(state[j])]
             rp == [j \in Job |-> ReportOf(completion[j])]
  <2>1. /\ JobSteps
        /\ TypeOK /\ TypeOK' /\ ResultMatchesState /\ ResultMatchesState'
        /\ \A j \in Job : state'[j] \in Executing <=> active' = j
    BY NextSteps DEF IInv, SlotOK
  <2>2. \A j \in Job : /\ state[j] \in State /\ state'[j] \in State
                      /\ completion[j] \in Result \cup {NoResult}
                      /\ completion'[j] \in Result \cup {NoResult}
    BY <2>1 DEF TypeOK
  <2>3. \A s \in State : PhaseOf(s) \in Caller!Phase
    BY DEF State, Executing, Terminal, PhaseOf, Caller!Phase
  <2>4. ph' \in [Job -> Caller!Phase]
    BY <2>2, <2>3
  <2>5. \A r \in Result \cup {NoResult} : ReportOf(r) \in Digest \cup {NoReport}
    BY DEF ReportOf, Result
  <2>6. rp' \in [Job -> Digest \cup {NoReport}] /\ facts' \in [Job -> Digest \cup {NoReport}]
    BY <2>1, <2>2, <2>5 DEF TypeOK
  <2>7. ASSUME NEW j \in Job
        PROVE  /\ <<ph[j], ph'[j]>> \in Caller!Move
               /\ facts'[j] # facts[j] => ph[j] = "absent" /\ ph'[j] # "absent"
               /\ rp'[j] # rp[j] => /\ ph[j] = "served" /\ ph'[j] = "settled"
                                   /\ rp'[j] = facts'[j]
    <3>1. CASE Moves(j)
      <4>1. <<ph[j], ph'[j]>> \in Caller!Move
        BY <2>2, <2>3, <3>1 DEF Moves, Caller!Move, PhaseOf, Terminal
      <4>2. rp'[j] = rp[j]
        BY <3>1 DEF Moves
      <4>3. /\ state[j] = "absent" => ph[j] = "absent"
            /\ state'[j] # "absent" => ph'[j] # "absent"
        BY <2>2 DEF PhaseOf, Terminal, State, Executing
      <4>4. facts'[j] # facts[j] => ph[j] = "absent" /\ ph'[j] # "absent"
        BY <2>1, <4>3 DEF JobSteps
      <4> HIDE DEF ph, rp
      <4> QED BY <4>1, <4>2, <4>4
    <3>2. CASE Settles(j)
      <4>1. ph[j] \in {"waiting", "served", "stopping"} /\ ph'[j] = "settled"
        BY <3>2 DEF Settles, PhaseOf, Terminal, Executing
      <4>2. facts'[j] = facts[j]
        BY <2>1, <3>2 DEF JobSteps, Settles, Executing
      <4>3. completion[j] = NoResult
        BY <2>1, <3>2 DEF Settles, ResultMatchesState, Executing, Terminal
      <4>4. rp[j] = NoReport /\ rp'[j] = completion'[j].report
        BY <3>2, <4>3, ResultAssumption DEF ReportOf, Settles
      <4>5. rp'[j] # rp[j] => ph[j] = "served" /\ rp'[j] = facts'[j]
        <5>1. PhaseOf("running") = "served"
          BY DEF PhaseOf, Terminal
        <5>2. state[j] = "running" => ph[j] = "served"
          BY <5>1
        <5> HIDE DEF ph, rp
        <5> QED BY <3>2, <4>2, <4>4, <5>2 DEF Settles
      <4>6. <<ph[j], ph'[j]>> \in Caller!Move
        BY <4>1 DEF Caller!Move
      <4> HIDE DEF ph, rp
      <4> QED BY <4>1, <4>2, <4>5, <4>6
    <3> HIDE DEF ph, rp
    <3> QED BY <2>1, <3>1, <3>2 DEF JobSteps
  <2>8. \A j, k \in Job : {ph'[j], ph'[k]} \subseteq {"served", "stopping"} => j = k
    <3>1. \A j \in Job : ph'[j] \in {"served", "stopping"} => active' = j
      BY <2>1, <2>2 DEF PhaseOf, State, Executing, Terminal
    <3> QED BY <3>1
  <2> QED BY <2>4, <2>6, <2>7, <2>8 DEF Caller!Next
<1> QED
  BY <1>1, <1>2, Invariance, PTL DEF Safety, KeepsThePromise, Caller!Spec

----------------------------------------------------------------------------
(* The coordinator with its workers: AnalysisSystem.                        *)

\* The messages a host posts to the worker of one job, in the only order it can.
Scripts == {<<>>, <<"analysis-start">>, <<"analysis-start", "analysis-cancel">>}

\* What the worker of job j can say: nothing about being busy or about a bad
\* message, and nothing about another job.
Said(j) ==
  [type : {"analysis-progress"}, job_id : {j}, completed : 0 .. Packages[j]]
  \cup [type : {"analysis-completed"}, job_id : {j}, package_count : {Packages[j]}]
  \cup [type : {"analysis-cancelled", "analysis-failed"}, job_id : {j},
        code : TimeCode \cup OutputCode \cup {"analysis-cancelled"}]

\* The host's side of the conversation on job j: nothing is posted before the
\* job runs, and while it runs the caller has seen all progress delivered.
HostSide(j) ==
  /\ posted[j] \in Scripts
  /\ state[j] # "absent" => facts[j] \in Digest
  /\ state[j] \in {"absent", "created", "loading"} =>
       posted[j] = <<>> /\ delivered[j] = 0 /\ shown[j] = NoProgress
  /\ state[j] = "running" =>
       /\ posted[j] = <<"analysis-start">>
       /\ shown[j] = IF delivered[j] = 0 THEN NoProgress ELSE delivered[j] - 1

\* A worker in the state c that has said t on job j: the opening and each package
\* are one progress event, in order; anything else is the last event, said with
\* the worker idle again.
Orderly(j, c, t) ==
  /\ c \in [job : {j, NoJob}, cancelled : BOOLEAN, done : Nat]
  /\ t \in Seq(Said(j))
  /\ c.job = j => c.done \in 1 .. Packages[j] /\ Len(t) = c.done + 1
  /\ \A i \in DOMAIN t :
       IF t[i].type = "analysis-progress"
       THEN t[i].completed = i - 1
       ELSE i = Len(t) /\ c.job = NoJob

\* The worker's side: it has handled some of the host's messages, and the host
\* has seen some of its events.
WorkerSide(j) ==
  /\ handled[j] \in 0 .. Len(posted[j])
  /\ delivered[j] \in 0 .. Len(emitted[j])
  /\ handled[j] = 0 => emitted[j] = <<>> /\ control[j] = W!Idle
  /\ Orderly(j, control[j], emitted[j])

SystemInv ==
  /\ DOMAIN handled = Job /\ DOMAIN control = Job
  /\ DOMAIN emitted = Job /\ DOMAIN delivered = Job
  /\ \A j \in Job : HostSide(j) /\ WorkerSide(j)

\* How one step of the host moves job j, and what it posts to the worker then.
Posts(j) ==
  /\ \/ /\ posted'[j] = posted[j]
        /\ \/ state'[j] = state[j]
           \/ state'[j] \in Terminal
           \/ state[j] \in {"absent", "created"} /\ state'[j] \in {"created", "loading"}
           \/ state[j] = "running" /\ state'[j] = "cancelling"
     \/ /\ state[j] = "loading" /\ state'[j] = "running"
        /\ posted'[j] = Append(posted[j], "analysis-start")
     \/ /\ state[j] = "running" /\ state'[j] = "cancelling"
        /\ posted'[j] = Append(posted[j], "analysis-cancel")
  /\ \/ facts'[j] \in Digest
     \/ facts'[j] = facts[j] /\ (state'[j] # "absent" => state[j] # "absent")

\* Finishing jobs posts nothing and starts nothing.
LEMMA FinishPosts ==
  ASSUME IInv,
         NEW S \in SUBSET Job,
         NEW lifecycle \in Terminal,
         NEW code \in HostCode \cup WorkerCode \cup {NoCode},
         NEW report \in Digest \cup {NoReport},
         \A j \in S : state[j] \in {"created"} \cup Executing,
         Finish(S, lifecycle, code, report),
         facts' = facts, posted' = posted
  PROVE  (\A j \in Job : Posts(j)) /\ (\A j \in S : state'[j] \in Terminal)
<1>1. \A j \in S : state[j] \notin Terminal \cup {"absent"}
  BY DEF Executing, Terminal
<1>2. /\ InTurn
      /\ SlotOK(state', queue', active')
      /\ \A j \in S : /\ state'[j] = lifecycle
                      /\ completion'[j] = [lifecycle |-> lifecycle,
                                           code |-> code, report |-> report]
      /\ \A j \in Job \ S :
           /\ completion'[j] = completion[j]
           /\ \/ state'[j] = state[j]
              \/ state[j] = "created" /\ state'[j] = "loading" /\ ~disposed'
      /\ completion' \in [Job -> Result \cup {NoResult}]
      /\ wallTimer' \subseteq Job
      /\ graceTimer' \in [Job -> CancelCode \cup {NoCode}]
      /\ ExclusiveWorker' /\ TimersFollowState' /\ ResultMatchesState'
      /\ WorkConserving'
  BY <1>1, FinishEffect
<1> QED BY <1>1, <1>2 DEF Posts

LEMMA SettlePosts ==
  ASSUME IInv, NEW j \in Job, NEW lifecycle \in Terminal,
         NEW code \in HostCode \cup WorkerCode \cup {NoCode},
         NEW report \in Digest \cup {NoReport},
         state[j] \in {"created"} \cup Executing,
         Finish({j}, lifecycle, code, report),
         facts' = facts, posted' = posted
  PROVE  (\A i \in Job : Posts(i)) /\ state'[j] \in Terminal
  BY {j} \in SUBSET Job, FinishPosts

\* What the coordinator itself, its callers and its timers do: the caller sees no
\* progress, and each worker is posted what its job needs.
LEMMA HostPosts ==
  ASSUME IInv, HostNext
  PROVE  shown' = shown /\ \A j \in Job : Posts(j)
<1>1. /\ {"failed", "cancelled", "disposed"} \subseteq Terminal
      /\ "analysis-coordinator-disposed" \in HostCode
      /\ StartCode \subseteq HostCode
      /\ CancelCode \subseteq HostCode /\ "analysis-cancelled" \in CancelCode
      /\ NoReport \in Digest \cup {NoReport}
      /\ TypeOK
  BY DEF Terminal, HostCode, StartCode, CancelCode, IInv
<1>2. CASE Spawn
  <2>1. active \in Job /\ state[active] = "loading"
    BY <1>2 DEF Spawn, SpawnSucceeds, SpawnThrows, ListenThrows, PostThrows, Spawning, IInv,
                TypeOK
  <2>2. state[active] \in {"created"} \cup Executing
    BY <2>1 DEF Executing
  <2>3. CASE SpawnSucceeds
    BY <1>1, <2>1, <2>3 DEF SpawnSucceeds, Posts, TypeOK
  <2>4. CASE SpawnThrows
    <3>1. PICK code \in StartCode : Finish({active}, "failed", code, NoReport)
      BY <2>4 DEF SpawnThrows, StartCode
    <3> QED BY <1>1, <2>1, <2>2, <2>4, <3>1, SettlePosts DEF SpawnThrows
  <2>5. CASE PostThrows
    <3>1. PICK code \in StartCode : Finish({active}, "failed", code, NoReport)
      BY <2>5 DEF PostThrows, StartCode
    <3> QED BY <1>1, <2>1, <2>2, <2>5, <3>1, SettlePosts DEF PostThrows
  <2>6. ~ListenThrows
    BY <2>1, SystemAssumption DEF ListenThrows
  <2> QED BY <1>2, <2>3, <2>4, <2>5, <2>6 DEF Spawn
<1>3. CASE Dispose
  <2> DEFINE dropped == {j \in Job : \/ active = j
                                    \/ /\ \E i \in DOMAIN queue : queue[i] = j
                                       /\ state[j] \notin Terminal}
  <2>1. \A j \in dropped : state[j] \in {"created"} \cup Executing
    BY DEF IInv, SlotOK
  <2>2. /\ Finish(dropped, "disposed", "analysis-coordinator-disposed", NoReport)
        /\ UNCHANGED <<facts, posted, shown>>
    BY <1>3 DEF Dispose
  <2>3. dropped \in SUBSET Job
    OBVIOUS
  <2> HIDE DEF dropped
  <2> QED BY <1>1, <2>1, <2>2, <2>3, FinishPosts
<1>4. ASSUME NEW j \in Job, NEW d \in Submitted, Submit(j, d)
      PROVE  shown' = shown /\ \A i \in Job : Posts(i)
  <2>1. /\ d \in Digest /\ state[j] = "absent"
        /\ facts' = [facts EXCEPT ![j] = d]
        /\ UNCHANGED <<posted, shown>>
    BY <1>4, DigestAssumption DEF Submit
  <2>2. /\ \A i \in Job \ {j} : \/ state'[i] = state[i]
                                \/ state[i] = "created" /\ state'[i] = "loading"
        /\ state'[j] \in {"created", "loading"}
    BY <1>4, <2>1, SubmitEffect
  <2> QED BY <1>1, <2>1, <2>2 DEF Posts, TypeOK
<1>5. ASSUME NEW j \in Job, NEW code \in CancelCode, CancelExecuting(j, code), ~Spawning
      PROVE  shown' = shown /\ \A i \in Job : Posts(i)
  <2>1. CASE CancelRunning(j, code)
    <3>1. state[j] \in {"loading", "running"}
      BY <2>1 DEF CancelRunning
    <3>2. state[j] # "loading"
      <4> SUFFICES ASSUME state[j] = "loading" PROVE FALSE
        OBVIOUS
      <4>1. active = j
        BY DEF IInv, SlotOK, Executing
      <4>2. j \in live
        BY <1>5, <4>1, JobAssumption DEF Spawning
      <4> QED BY <4>2, SystemAssumption DEF IInv, ListenersFollowState
    <3> QED BY <1>1, <2>1, <3>1, <3>2 DEF CancelRunning, Posts, TypeOK
  <2>2. CASE CancelAgain(j, code)
    BY <1>1, <2>2 DEF CancelAgain, Posts, TypeOK
  <2> QED BY <1>5, <2>1, <2>2 DEF CancelExecuting
<1>6. ASSUME NEW j \in Job, Cancel(j)
      PROVE  shown' = shown /\ \A i \in Job : Posts(i)
  <2>1. CASE CancelWaiting(j)
    BY <1>1, <2>1, SettlePosts DEF CancelWaiting
  <2> QED BY <1>1, <1>5, <1>6, <2>1 DEF Cancel
<1>7. ASSUME NEW j \in Job, WallTimeout(j)
      PROVE  shown' = shown /\ \A i \in Job : Posts(i)
  BY <1>5, <1>7 DEF WallTimeout, CancelCode
<1>8. ASSUME NEW j \in Job, GraceTimeout(j)
      PROVE  shown' = shown /\ \A i \in Job : Posts(i)
  <2>1. /\ state[j] \in {"created"} \cup Executing
        /\ graceTimer[j] \in CancelCode
    BY <1>8 DEF GraceTimeout, IInv, TypeOK, TimersFollowState, Executing
  <2> QED BY <1>1, <1>8, <2>1, SettlePosts DEF GraceTimeout
<1> QED BY <1>2, <1>3, <1>4, <1>6, <1>7, <1>8 DEF HostNext

----------------------------------------------------------------------------
\* One more event, at the end.
LEMMA SaysOneMore ==
  ASSUME NEW j \in Job, NEW s \in Seq(Said(j)), NEW e \in Said(j)
  PROVE  /\ s \o <<e>> \in Seq(Said(j))
         /\ Len(s) \in Nat /\ Len(s \o <<e>>) = Len(s) + 1
         /\ DOMAIN (s \o <<e>>) = 1 .. (Len(s) + 1)
         /\ (s \o <<e>>)[Len(s) + 1] = e
         /\ \A i \in 1 .. Len(s) : (s \o <<e>>)[i] = s[i]
  OBVIOUS

LEMMA EmptyThenTwo == \A e, f : <<>> \o <<e, f>> = <<e, f>>
  OBVIOUS

\* The events a worker has for job j are all of its vocabulary.
LEMMA Vocabulary ==
  ASSUME NEW j \in Job
  PROVE  /\ \A n \in 0 .. Packages[j] : W!ProgressEvent(j, n) \in Said(j)
         /\ W!CompletedEvent(j, Packages[j]) \in Said(j)
         /\ W!CancelledEvent(j) \in Said(j)
         /\ \A c \in TimeCode \cup OutputCode : W!FailedEvent(j, c) \in Said(j)
  BY DEF Said, W!ProgressEvent, W!CompletedEvent, W!CancelledEvent, W!FailedEvent

\* The message a worker handles next is the next of its script, and says which
\* job it is about.
Sent == [j \in Job |-> [i \in DOMAIN posted[j] |-> [type |-> posted[j][i], job_id |-> j]]]

LEMMA ScriptIsSent ==
  ASSUME NEW j \in Job, posted[j] \in Scripts
  PROVE  /\ Len(Sent[j]) = Len(posted[j]) /\ Len(posted[j]) \in Nat
         /\ \A i \in 1 .. Len(posted[j]) :
              Sent[j][i] = [type |-> posted[j][i], job_id |-> j]
<1> DEFINE S == [type : Message, job_id : {j}]
           n == Len(posted[j])
<1>1. posted[j] \in Seq(Message) /\ n \in Nat
  <2>1. "analysis-start" \in Message /\ "analysis-cancel" \in Message
    BY DEF Message
  <2>2. /\ <<>> \in Seq(Message) /\ <<"analysis-start">> \in Seq(Message)
        /\ <<"analysis-start", "analysis-cancel">> \in Seq(Message)
    BY <2>1
  <2>3. posted[j] \in Seq(Message)
    BY <2>2 DEF Scripts
  <2> QED BY <2>3, LenProperties
<1>2. Sent[j] \in [1 .. n -> S]
  BY <1>1 DEF Sent
<1>3. Sent[j] \in Seq(S)
  <2>1. \E k \in Nat : Sent[j] \in [1 .. k -> S]
    BY <1>1, <1>2
  <2> HIDE DEF S
  <2>2. Sent[j] \in UNION {[1 .. k -> S] : k \in Nat}
    BY <2>1
  <2> QED BY <2>2, SeqDef
<1>4. Len(Sent[j]) \in Nat /\ DOMAIN Sent[j] = 1 .. Len(Sent[j])
  BY <1>3, LenProperties
<1>5. 1 .. Len(Sent[j]) = 1 .. n
  BY <1>2, <1>4
<1>6. Len(Sent[j]) = n
  BY <1>1, <1>4, <1>5
<1> QED BY <1>1, <1>6 DEF Sent

\* A task of the worker of job j: what it handles, says and does next.
LEMMA WorkerTask ==
  ASSUME SystemInv, NEW j \in Job, W!WorkerStep(j)
  PROVE  /\ \A k \in Job \ {j} : /\ handled'[k] = handled[k]
                                 /\ control'[k] = control[k]
                                 /\ emitted'[k] = emitted[k]
         /\ DOMAIN handled' = Job /\ DOMAIN control' = Job /\ DOMAIN emitted' = Job
         /\ \/ /\ handled[j] < Len(posted[j]) /\ handled'[j] = handled[j] + 1
               /\ \/ /\ posted[j][handled[j] + 1] = "analysis-cancel"
                     /\ control'[j] = [control[j] EXCEPT !.cancelled =
                                         IF control[j].job = j THEN TRUE ELSE @]
                     /\ emitted'[j] = emitted[j]
                  \/ /\ posted[j][handled[j] + 1] = "analysis-start"
                     /\ control[j].job = NoJob
                     /\ \/ /\ \E c \in TimeCode : emitted'[j] =
                                emitted[j] \o <<W!ProgressEvent(j, 0), W!FailedEvent(j, c)>>
                           /\ control'[j] = control[j]
                        \/ /\ emitted'[j] = emitted[j] \o
                                <<W!ProgressEvent(j, 0), W!ProgressEvent(j, 1)>>
                           /\ control'[j] = [job |-> j, cancelled |-> FALSE, done |-> 1]
                  \/ /\ posted[j][handled[j] + 1] = "analysis-start"
                     /\ control[j].job # NoJob
            \/ /\ control[j].job = j /\ handled'[j] = handled[j]
               /\ \/ /\ control'[j] = W!Idle
                     /\ \E e \in Said(j) : /\ e.type # "analysis-progress"
                                           /\ emitted'[j] = emitted[j] \o <<e>>
                  \/ /\ control[j].done < Packages[j]
                     /\ control'[j] = [control[j] EXCEPT !.done = @ + 1]
                     /\ emitted'[j] = emitted[j] \o
                          <<W!ProgressEvent(j, control[j].done + 1)>>
<1>1. /\ DOMAIN handled = Job /\ DOMAIN control = Job /\ DOMAIN emitted = Job
      /\ posted[j] \in Scripts /\ handled[j] \in 0 .. Len(posted[j])
      /\ control[j] \in [job : {j, NoJob}, cancelled : BOOLEAN, done : Nat]
  BY DEF SystemInv, HostSide, WorkerSide, Orderly
<1>2. CASE W!HandleMessage(j)
  <2> DEFINE m == Sent[j][handled[j] + 1]
  <2>1. /\ handled[j] < Len(Sent[j])
        /\ handled' = [handled EXCEPT ![j] = @ + 1]
        /\ W!RejectMessage(j, m) \/ W!CancelRun(j, m) \/ W!RefuseBusy(j, m) \/ W!StartRun(j, m)
    BY <1>2 DEF W!HandleMessage, Sent
  <2>2. /\ handled[j] < Len(posted[j])
        /\ m = [type |-> posted[j][handled[j] + 1], job_id |-> j]
        /\ posted[j][handled[j] + 1] \in {"analysis-start", "analysis-cancel"}
    BY <1>1, <2>1, ScriptIsSent DEF Scripts
  <2> HIDE DEF m
  <2>3. CASE W!RejectMessage(j, m)
    BY <2>2, <2>3 DEF W!RejectMessage
  <2>4. CASE W!CancelRun(j, m)
    BY <1>1, <2>1, <2>2, <2>4 DEF W!CancelRun
  <2>5. CASE W!RefuseBusy(j, m)
    BY <1>1, <2>1, <2>2, <2>5 DEF W!RefuseBusy, W!Emit
  <2>6. CASE W!StartRun(j, m)
    BY <1>1, <2>1, <2>2, <2>6 DEF W!StartRun, W!Emit
  <2> QED BY <2>1, <2>3, <2>4, <2>5, <2>6
<1>3. CASE W!ResumeRun(j)
  <2>1. /\ control[j].job = j /\ handled' = handled
        /\ Packages[j] \in Nat \ {0}
    BY <1>1, <1>3, SystemAssumption DEF W!ResumeRun
  <2>2. CASE W!RunCancelled(j)
    <3>1. W!CancelledEvent(j) \in Said(j) /\ W!CancelledEvent(j).type # "analysis-progress"
      BY Vocabulary DEF W!CancelledEvent
    <3> QED BY <1>1, <2>1, <2>2, <3>1 DEF W!RunCancelled, W!EndRun, W!Emit
  <2>3. CASE W!RunOutOfTime(j)
    <3>1. PICK c \in TimeCode : W!EndRun(j, W!FailedEvent(j, c))
      BY <2>1, <2>3 DEF W!RunOutOfTime
    <3>2. W!FailedEvent(j, c) \in Said(j) /\ W!FailedEvent(j, c).type # "analysis-progress"
      BY Vocabulary DEF W!FailedEvent
    <3> QED BY <1>1, <2>1, <3>1, <3>2 DEF W!EndRun, W!Emit
  <2>4. CASE W!NextPackage(j)
    BY <1>1, <2>1, <2>4 DEF W!NextPackage, W!Emit
  <2>5. CASE W!FinishRun(j)
    <3>1. CASE \E c \in OutputCode : W!EndRun(j, W!FailedEvent(j, c))
      <4>1. PICK c \in OutputCode : W!EndRun(j, W!FailedEvent(j, c))
        BY <3>1
      <4>2. W!FailedEvent(j, c) \in Said(j) /\ W!FailedEvent(j, c).type # "analysis-progress"
        BY Vocabulary DEF W!FailedEvent
      <4> QED BY <1>1, <2>1, <4>1, <4>2 DEF W!EndRun, W!Emit
    <3>2. CASE W!EndRun(j, W!CompletedEvent(j, Packages[j]))
      <4>1. /\ W!CompletedEvent(j, Packages[j]) \in Said(j)
            /\ W!CompletedEvent(j, Packages[j]).type # "analysis-progress"
        BY Vocabulary DEF W!CompletedEvent
      <4> QED BY <1>1, <2>1, <3>2, <4>1 DEF W!EndRun, W!Emit
    <3> QED BY <2>1, <2>5, <3>1, <3>2 DEF W!FinishRun
  <2> QED BY <1>3, <2>2, <2>3, <2>4, <2>5 DEF W!ResumeRun
<1> QED BY <1>2, <1>3 DEF W!WorkerStep

\* Every task of a worker leaves it orderly.
LEMMA OrderlyOpening ==
  ASSUME NEW j \in Job
  PROVE  /\ \A c \in TimeCode :
              Orderly(j, W!Idle, <<W!ProgressEvent(j, 0), W!FailedEvent(j, c)>>)
         /\ Orderly(j, [job |-> j, cancelled |-> FALSE, done |-> 1],
                    <<W!ProgressEvent(j, 0), W!ProgressEvent(j, 1)>>)
<1>1. /\ j # NoJob /\ Packages[j] \in Nat \ {0}
      /\ W!Idle \in [job : {j, NoJob}, cancelled : BOOLEAN, done : Nat]
      /\ W!Idle.job = NoJob
  BY JobAssumption, SystemAssumption DEF W!Idle
<1>2. /\ W!ProgressEvent(j, 0) \in Said(j) /\ W!ProgressEvent(j, 1) \in Said(j)
      /\ \A c \in TimeCode : W!FailedEvent(j, c) \in Said(j)
  BY <1>1, Vocabulary
<1>3. ASSUME NEW c \in TimeCode
      PROVE  Orderly(j, W!Idle, <<W!ProgressEvent(j, 0), W!FailedEvent(j, c)>>)
  <2> DEFINE p == W!ProgressEvent(j, 0)
             f == W!FailedEvent(j, c)
  <2>1. /\ p.type = "analysis-progress" /\ p.completed = 0 /\ p \in Said(j)
        /\ f.type # "analysis-progress" /\ f \in Said(j)
    BY <1>2 DEF W!ProgressEvent, W!FailedEvent
  <2> HIDE DEF p, f
  <2>2. Orderly(j, W!Idle, <<p, f>>)
    BY <1>1, <2>1 DEF Orderly
  <2> QED BY <2>2 DEF p, f
<1>4. Orderly(j, [job |-> j, cancelled |-> FALSE, done |-> 1],
              <<W!ProgressEvent(j, 0), W!ProgressEvent(j, 1)>>)
  <2> DEFINE p == W!ProgressEvent(j, 0)
             f == W!ProgressEvent(j, 1)
  <2>1. /\ p.type = "analysis-progress" /\ p.completed = 0 /\ p \in Said(j)
        /\ f.type = "analysis-progress" /\ f.completed = 1 /\ f \in Said(j)
    BY <1>2 DEF W!ProgressEvent
  <2> HIDE DEF p, f
  <2>2. Orderly(j, [job |-> j, cancelled |-> FALSE, done |-> 1], <<p, f>>)
    BY <1>1, <2>1 DEF Orderly
  <2> QED BY <2>2 DEF p, f
<1> QED BY <1>3, <1>4

LEMMA OrderlyEnd ==
  ASSUME NEW j \in Job, NEW c, NEW t, Orderly(j, c, t), c.job = j,
         NEW e \in Said(j), e.type # "analysis-progress"
  PROVE  Orderly(j, W!Idle, t \o <<e>>)
<1>1. /\ j # NoJob /\ W!Idle.job = NoJob
      /\ W!Idle \in [job : {j, NoJob}, cancelled : BOOLEAN, done : Nat]
  BY JobAssumption DEF W!Idle
<1> DEFINE u == t \o <<e>>
<1>2. /\ u \in Seq(Said(j)) /\ Len(t) \in Nat /\ Len(u) = Len(t) + 1
      /\ DOMAIN u = 1 .. (Len(t) + 1) /\ u[Len(t) + 1] = e
      /\ \A i \in 1 .. Len(t) : u[i] = t[i]
      /\ DOMAIN t = 1 .. Len(t)
  BY SaysOneMore, LenProperties DEF Orderly
<1> HIDE DEF u
<1>3. Orderly(j, W!Idle, u)
  BY <1>1, <1>2 DEF Orderly
<1> QED BY <1>3 DEF u

LEMMA OrderlyPackage ==
  ASSUME NEW j \in Job, NEW c, NEW t, Orderly(j, c, t), c.job = j,
         c.done < Packages[j]
  PROVE  Orderly(j, [c EXCEPT !.done = @ + 1], t \o <<W!ProgressEvent(j, c.done + 1)>>)
<1> DEFINE e == W!ProgressEvent(j, c.done + 1)
           u == t \o <<e>>
           d == [c EXCEPT !.done = @ + 1]
<1>1. /\ j # NoJob /\ Packages[j] \in Nat /\ c.done \in 1 .. Packages[j]
      /\ Len(t) = c.done + 1
      /\ d \in [job : {j, NoJob}, cancelled : BOOLEAN, done : Nat]
      /\ d.job = j /\ d.done = c.done + 1
  BY JobAssumption, SystemAssumption DEF Orderly
<1>2. e \in Said(j) /\ e.type = "analysis-progress" /\ e.completed = c.done + 1
  BY <1>1, Vocabulary DEF W!ProgressEvent
<1> HIDE DEF e, d
<1>3. /\ u \in Seq(Said(j)) /\ Len(t) \in Nat /\ Len(u) = Len(t) + 1
      /\ DOMAIN u = 1 .. (Len(t) + 1) /\ u[Len(t) + 1] = e
      /\ \A i \in 1 .. Len(t) : u[i] = t[i]
      /\ DOMAIN t = 1 .. Len(t)
  BY <1>2, SaysOneMore, LenProperties DEF Orderly
<1> HIDE DEF u
<1>4. ASSUME NEW i \in DOMAIN u
      PROVE  u[i].type = "analysis-progress" /\ u[i].completed = i - 1
  <2>1. CASE i = Len(t) + 1
    BY <1>1, <1>2, <1>3, <2>1
  <2>2. CASE i # Len(t) + 1
    <3>1. i \in DOMAIN t /\ u[i] = t[i]
      BY <1>3, <2>2
    <3> QED BY <1>1, <3>1 DEF Orderly
  <2> QED BY <2>1, <2>2
<1>5. Orderly(j, d, u)
  BY <1>1, <1>3, <1>4 DEF Orderly
<1> QED BY <1>5 DEF e, u, d

\* A message handled that says nothing changes no more than the cancelled flag.
LEMMA OrderlyCancel ==
  ASSUME NEW j \in Job, NEW c, NEW t, Orderly(j, c, t), NEW b \in BOOLEAN
  PROVE  Orderly(j, [c EXCEPT !.cancelled = b], t)
  BY DEF Orderly

\* A task of a worker keeps the conversation in order.
LEMMA WorkKeepsSystem ==
  ASSUME SystemInv, NEW j \in Job, Work(j)
  PROVE  SystemInv'
<1>1. /\ UNCHANGED <<vars, delivered>> /\ W!WorkerStep(j)
      /\ HostSide(j) /\ WorkerSide(j)
      /\ Packages[j] \in Nat \ {0}
  BY SystemAssumption DEF Work, SystemInv
<1>2. /\ posted' = posted /\ state' = state /\ facts' = facts /\ shown' = shown
      /\ delivered' = delivered
  BY <1>1 DEF vars
<1>3. \A k \in Job : HostSide(k)'
  BY <1>2 DEF HostSide, SystemInv
<1>4. /\ \A k \in Job \ {j} : /\ handled'[k] = handled[k]
                              /\ control'[k] = control[k]
                              /\ emitted'[k] = emitted[k]
      /\ DOMAIN handled' = Job /\ DOMAIN control' = Job /\ DOMAIN emitted' = Job
  BY <1>1, WorkerTask
<1>5. \A k \in Job \ {j} : WorkerSide(k)'
  BY <1>2, <1>4 DEF WorkerSide, SystemInv
<1>6. /\ emitted[j] \in Seq(Said(j)) /\ handled[j] \in Nat /\ Len(posted[j]) \in Nat
      /\ control[j] \in [job : {j, NoJob}, cancelled : BOOLEAN, done : Nat]
      /\ posted[j] \in Scripts /\ j # NoJob
      /\ Orderly(j, control[j], emitted[j])
  BY <1>1, JobAssumption DEF WorkerSide, HostSide, Scripts, Orderly
<1> SUFFICES WorkerSide(j)'
  BY <1>2, <1>3, <1>4, <1>5 DEF SystemInv
<1>7. \/ handled'[j] = handled[j]
      \/ handled[j] < Len(posted[j]) /\ handled'[j] = handled[j] + 1
  BY <1>1, WorkerTask
<1>8. ASSUME Orderly(j, control'[j], emitted'[j]),
             handled'[j] # 0,
             Len(emitted'[j]) >= Len(emitted[j])
      PROVE  WorkerSide(j)'
  <2>1. Len(emitted[j]) \in Nat /\ Len(emitted'[j]) \in Nat
    BY <1>6, <1>8, LenProperties DEF Orderly
  <2> QED BY <1>1, <1>2, <1>6, <1>7, <1>8, <2>1 DEF WorkerSide
<1>9. CASE /\ handled[j] < Len(posted[j]) /\ handled'[j] = handled[j] + 1
           /\ posted[j][handled[j] + 1] = "analysis-cancel"
           /\ control'[j] = [control[j] EXCEPT !.cancelled =
                               IF control[j].job = j THEN TRUE ELSE @]
           /\ emitted'[j] = emitted[j]
  <2> DEFINE b == IF control[j].job = j THEN TRUE ELSE control[j].cancelled
  <2>1. b \in BOOLEAN /\ control'[j] = [control[j] EXCEPT !.cancelled = b]
    BY <1>6, <1>9
  <2> HIDE DEF b
  <2>2. Orderly(j, control'[j], emitted'[j])
    BY <1>6, <1>9, <2>1, OrderlyCancel
  <2>3. Len(emitted'[j]) >= Len(emitted[j])
    BY <1>6, <1>9, LenProperties
  <2> QED BY <1>6, <1>8, <1>9, <2>2, <2>3
<1>10. ASSUME posted[j][handled[j] + 1] = "analysis-start",
              handled[j] < Len(posted[j])
       PROVE  handled[j] = 0 /\ emitted[j] = <<>> /\ control[j] = W!Idle
  BY <1>1, <1>6, <1>10 DEF WorkerSide, Scripts
<1>11. CASE /\ handled[j] < Len(posted[j]) /\ handled'[j] = handled[j] + 1
            /\ posted[j][handled[j] + 1] = "analysis-start"
            /\ \E c \in TimeCode : emitted'[j] =
                 emitted[j] \o <<W!ProgressEvent(j, 0), W!FailedEvent(j, c)>>
            /\ control'[j] = control[j]
  <2>1. PICK c \in TimeCode : emitted'[j] =
                 emitted[j] \o <<W!ProgressEvent(j, 0), W!FailedEvent(j, c)>>
    BY <1>11
  <2>2. emitted'[j] = <<W!ProgressEvent(j, 0), W!FailedEvent(j, c)>>
    BY <1>10, <1>11, <2>1, EmptyThenTwo
  <2>3. Orderly(j, control'[j], emitted'[j])
    BY <1>10, <1>11, <2>2, OrderlyOpening
  <2>4. Len(emitted[j]) = 0 /\ Len(emitted'[j]) = 2
    BY <1>10, <1>11, <2>2
  <2> QED BY <1>6, <1>8, <1>11, <2>3, <2>4
<1>12. CASE /\ handled[j] < Len(posted[j]) /\ handled'[j] = handled[j] + 1
            /\ posted[j][handled[j] + 1] = "analysis-start"
            /\ emitted'[j] = emitted[j] \o <<W!ProgressEvent(j, 0), W!ProgressEvent(j, 1)>>
            /\ control'[j] = [job |-> j, cancelled |-> FALSE, done |-> 1]
  <2>2. emitted'[j] = <<W!ProgressEvent(j, 0), W!ProgressEvent(j, 1)>>
    BY <1>10, <1>12, EmptyThenTwo
  <2>3. Orderly(j, control'[j], emitted'[j])
    BY <1>12, <2>2, OrderlyOpening
  <2>4. Len(emitted[j]) = 0 /\ Len(emitted'[j]) = 2
    BY <1>10, <1>12, <2>2
  <2> QED BY <1>6, <1>8, <1>12, <2>3, <2>4
<1>13. CASE /\ handled[j] < Len(posted[j])
            /\ posted[j][handled[j] + 1] = "analysis-start"
            /\ control[j].job # NoJob
  BY <1>10, <1>13 DEF W!Idle
<1>14. ASSUME control[j].job = j, handled'[j] = handled[j], NEW e \in Said(j),
              emitted'[j] = emitted[j] \o <<e>>,
              Orderly(j, control'[j], emitted'[j])
       PROVE  WorkerSide(j)'
  <2>1. handled'[j] # 0
    BY <1>1, <1>6, <1>14 DEF WorkerSide, W!Idle
  <2>2. Len(emitted'[j]) >= Len(emitted[j])
    BY <1>6, <1>14, SaysOneMore
  <2> QED BY <1>8, <1>14, <2>1, <2>2
<1>15. CASE /\ control[j].job = j /\ handled'[j] = handled[j]
            /\ control'[j] = W!Idle
            /\ \E e \in Said(j) : /\ e.type # "analysis-progress"
                                  /\ emitted'[j] = emitted[j] \o <<e>>
  <2>1. PICK e \in Said(j) : /\ e.type # "analysis-progress"
                             /\ emitted'[j] = emitted[j] \o <<e>>
    BY <1>15
  <2>2. Orderly(j, control'[j], emitted'[j])
    <3> DEFINE c == control[j]
               t == emitted[j]
    <3>1. Orderly(j, c, t) /\ c.job = j
      BY <1>6, <1>15
    <3>2. control'[j] = W!Idle /\ emitted'[j] = t \o <<e>>
      BY <1>15, <2>1
    <3> HIDE DEF c, t
    <3>3. Orderly(j, W!Idle, t \o <<e>>)
      BY <2>1, <3>1, OrderlyEnd
    <3> QED BY <3>2, <3>3
  <2> QED BY <1>14, <1>15, <2>1, <2>2
<1>16. CASE /\ control[j].job = j /\ handled'[j] = handled[j]
            /\ control[j].done < Packages[j]
            /\ control'[j] = [control[j] EXCEPT !.done = @ + 1]
            /\ emitted'[j] = emitted[j] \o <<W!ProgressEvent(j, control[j].done + 1)>>
  <2>1. W!ProgressEvent(j, control[j].done + 1) \in Said(j)
    BY <1>1, <1>6, <1>16, Vocabulary
  <2>2. Orderly(j, control'[j], emitted'[j])
    <3> DEFINE c == control[j]
               t == emitted[j]
    <3>1. Orderly(j, c, t) /\ c.job = j /\ c.done < Packages[j]
      BY <1>6, <1>16
    <3>2. /\ control'[j] = [c EXCEPT !.done = @ + 1]
          /\ emitted'[j] = t \o <<W!ProgressEvent(j, c.done + 1)>>
      BY <1>16
    <3> HIDE DEF c, t
    <3>3. Orderly(j, [c EXCEPT !.done = @ + 1], t \o <<W!ProgressEvent(j, c.done + 1)>>)
      BY <3>1, OrderlyPackage
    <3> QED BY <3>2, <3>3
  <2> QED BY <1>14, <1>16, <2>1, <2>2
<1> QED BY <1>1, WorkerTask, <1>9, <1>11, <1>12, <1>13, <1>15, <1>16

----------------------------------------------------------------------------
LEMMA AppendShort ==
  \A a, b : Append(<<>>, a) = <<a>> /\ Append(<<a>>, b) = <<a, b>>
<1> SUFFICES ASSUME NEW a, NEW b
             PROVE  Append(<<>>, a) = <<a>> /\ Append(<<a>>, b) = <<a, b>>
  OBVIOUS
<1>1. <<>> \in Seq({a, b}) /\ <<a>> \in Seq({a, b}) /\ <<a, b>> \in Seq({a, b})
  OBVIOUS
<1>2. Append(<<>>, a) \in Seq({a, b}) /\ Append(<<a>>, b) \in Seq({a, b})
  BY <1>1
<1>3. Len(Append(<<>>, a)) = 1 /\ Append(<<>>, a)[1] = a
  BY <1>1
<1>4. Len(Append(<<a>>, b)) = 2 /\ Append(<<a>>, b)[1] = a /\ Append(<<a>>, b)[2] = b
  BY <1>1
<1>5. Append(<<>>, a) = <<a>>
  BY <1>1, <1>2, <1>3, SeqEqual
<1>6. Append(<<a>>, b) = <<a, b>>
  <2>1. /\ Len(<<a, b>>) = 2 /\ <<a, b>>[1] = a /\ <<a, b>>[2] = b
    OBVIOUS
  <2> DEFINE s == Append(<<a>>, b)
             t == <<a, b>>
  <2>2. s \in Seq({a, b}) /\ t \in Seq({a, b}) /\ Len(s) = Len(t)
    BY <1>1, <1>2, <1>4, <2>1
  <2>3. \A i \in 1 .. Len(s) : s[i] = t[i]
    BY <1>4, <2>1
  <2> HIDE DEF s, t
  <2>4. s = t
    BY <2>2, <2>3, SeqEqual
  <2> QED BY <2>4 DEF s, t
<1> QED BY <1>5, <1>6

\* A step of the host keeps the conversation on job j in order: an event
\* delivered with it has been shown, or the job no longer runs.
LEMMA HostKeepsSides ==
  ASSUME SystemInv, NEW j \in Job, Posts(j),
         handled'[j] = handled[j], control'[j] = control[j], emitted'[j] = emitted[j],
         delivered'[j] \in 0 .. Len(emitted[j]),
         \/ delivered'[j] = delivered[j] /\ shown'[j] = shown[j]
         \/ state'[j] \in {"cancelling"} \cup Terminal
  PROVE  HostSide(j)' /\ WorkerSide(j)'
<1>1. HostSide(j) /\ WorkerSide(j)
  BY DEF SystemInv
<1>2. posted'[j] \in Scripts /\ Len(posted[j]) \in Nat /\ Len(posted'[j]) >= Len(posted[j])
  <2>1. CASE posted'[j] = posted[j]
    BY <1>1, <2>1 DEF HostSide, Scripts
  <2>2. CASE state[j] = "loading" /\ posted'[j] = Append(posted[j], "analysis-start")
    <3>1. posted[j] = <<>> /\ posted'[j] = <<"analysis-start">>
      BY <1>1, <2>2, AppendShort DEF HostSide
    <3> QED BY <1>1, <3>1 DEF Scripts
  <2>3. CASE state[j] = "running" /\ posted'[j] = Append(posted[j], "analysis-cancel")
    <3>1. posted[j] = <<"analysis-start">>
      BY <1>1, <2>3 DEF HostSide
    <3>2. posted'[j] = <<"analysis-start", "analysis-cancel">>
      BY <2>3, <3>1, AppendShort
    <3> QED BY <1>1, <3>1, <3>2 DEF Scripts
  <2> QED BY <2>1, <2>2, <2>3 DEF Posts
<1>3. state'[j] # "absent" => facts'[j] \in Digest
  BY <1>1 DEF Posts, HostSide
<1>4. state'[j] \in {"absent", "created", "loading"} =>
        posted'[j] = <<>> /\ delivered'[j] = 0 /\ shown'[j] = NoProgress
  BY <1>1 DEF Posts, HostSide, Terminal
<1>5. state'[j] = "running" =>
        /\ posted'[j] = <<"analysis-start">>
        /\ shown'[j] = IF delivered'[j] = 0 THEN NoProgress ELSE delivered'[j] - 1
  BY <1>1 DEF Posts, HostSide, Terminal
<1>6. handled'[j] \in 0 .. Len(posted'[j])
  BY <1>1, <1>2, LenProperties DEF WorkerSide, Scripts
<1> QED BY <1>1, <1>2, <1>3, <1>4, <1>5, <1>6 DEF HostSide, WorkerSide

\* What the worker of a job can say is an event the coordinator understands.
LEMMA SaidIsEvent ==
  ASSUME NEW j \in Job, facts[j] \in Digest, NEW v \in Said(j)
  PROVE  /\ AsReceived(j, v) \in Event
         /\ AsReceived(j, v).type = v.type /\ AsReceived(j, v).job_id = j
         /\ v.type = "analysis-progress" => AsReceived(j, v) = v
<1>1. /\ 0 .. Packages[j] \subseteq Progress
      /\ TimeCode \cup OutputCode \cup {"analysis-cancelled"} \subseteq WorkerCode
  BY SystemAssumption
<1>2. CASE v \in [type : {"analysis-completed"}, job_id : {j}, package_count : {Packages[j]}]
  BY <1>2 DEF AsReceived, Event
<1>3. CASE v \in [type : {"analysis-progress"}, job_id : {j}, completed : 0 .. Packages[j]]
  BY <1>1, <1>3 DEF AsReceived, Event
<1>4. CASE v \in [type : {"analysis-cancelled", "analysis-failed"}, job_id : {j},
                  code : TimeCode \cup OutputCode \cup {"analysis-cancelled"}]
  BY <1>1, <1>4 DEF AsReceived, Event
<1> QED BY <1>2, <1>3, <1>4 DEF Said

\* The next event of a worker is an event, of its job, and progress comes in order.
LEMMA NextEvent ==
  ASSUME SystemInv, NEW j \in Job, InFlight(j), facts[j] \in Digest
  PROVE  LET v == emitted[j][delivered[j] + 1]
         IN  /\ delivered[j] \in Nat /\ delivered[j] + 1 \in 0 .. Len(emitted[j])
             /\ AsReceived(j, v) \in Event
             /\ AsReceived(j, v).type = v.type /\ AsReceived(j, v).job_id = j
             /\ v.type = "analysis-progress" =>
                  AsReceived(j, v) = v /\ v.completed = delivered[j]
<1> DEFINE v == emitted[j][delivered[j] + 1]
<1>1. /\ WorkerSide(j) /\ Orderly(j, control[j], emitted[j])
      /\ emitted[j] \in Seq(Said(j))
  BY DEF SystemInv, WorkerSide, Orderly
<1>2. /\ Len(emitted[j]) \in Nat /\ DOMAIN emitted[j] = 1 .. Len(emitted[j])
      /\ \A i \in 1 .. Len(emitted[j]) : emitted[j][i] \in Said(j)
  BY <1>1, LenProperties, ElementOfSeq
<1>3. /\ delivered[j] \in Nat /\ delivered[j] + 1 \in 0 .. Len(emitted[j])
      /\ delivered[j] + 1 \in 1 .. Len(emitted[j])
      /\ (delivered[j] + 1) - 1 = delivered[j]
  BY <1>1, <1>2 DEF InFlight, WorkerSide
<1>4. v \in Said(j)
  BY <1>2, <1>3
<1>5. v.type = "analysis-progress" => v.completed = delivered[j]
  BY <1>1, <1>2, <1>3 DEF Orderly
<1> HIDE DEF v
<1>6. /\ AsReceived(j, v) \in Event
      /\ AsReceived(j, v).type = v.type /\ AsReceived(j, v).job_id = j
      /\ v.type = "analysis-progress" => AsReceived(j, v) = v
  BY <1>4, SaidIsEvent
<1> QED BY <1>3, <1>5, <1>6 DEF v

\* An event of the worker is progress the caller sees, or ends its job.
LEMMA EventPosts ==
  ASSUME IInv, NEW j \in Job, NEW e \in Event, HandleWorkerEvent(j, e)
  PROVE  \/ OnProgress(j, e)
         \/ /\ shown' = shown /\ state'[j] \in Terminal
            /\ \A i \in Job : Posts(i)
<1>1. state[j] \in {"created"} \cup Executing
  BY DEF HandleWorkerEvent, Heeded, IInv, SlotOK
<1>2. /\ {"failed", "completed", "cancelled"} \subseteq Terminal
      /\ "analysis-worker-malformed-output" \in HostCode
      /\ CancelCode \subseteq HostCode
      /\ NoReport \in Digest \cup {NoReport}
  BY DEF Terminal, HostCode
<1>3. ASSUME NEW lifecycle \in {"failed", "completed", "cancelled"},
             NEW code \in HostCode \cup WorkerCode \cup {NoCode},
             NEW report \in Digest \cup {NoReport},
             SettleFrom(j, lifecycle, code, report)
      PROVE  /\ shown' = shown /\ state'[j] \in Terminal
             /\ \A i \in Job : Posts(i)
  BY <1>1, <1>2, <1>3, SettlePosts DEF SettleFrom
<1>4. CASE SettleFrom(j, "failed", "analysis-worker-malformed-output", NoReport)
  BY <1>2, <1>3, <1>4
<1>5. CASE OnCompleted(j, e)
  <2>1. e.bundle_digest \in Digest
    BY <1>5 DEF OnCompleted, Event
  <2> QED BY <1>3, <1>4, <1>5, <2>1 DEF OnCompleted
<1>6. CASE OnCancelled(j, e)
  <2> DEFINE code == IF cancelCode[j] # NoCode THEN cancelCode[j] ELSE e.code
  <2>1. e.code \in WorkerCode
    BY <1>6 DEF OnCancelled, Event
  <2>2. code \in HostCode \cup WorkerCode \cup {NoCode}
    BY <1>2, <2>1 DEF IInv, TypeOK
  <2>3. SettleFrom(j, "cancelled", code, NoReport)
    BY <1>6 DEF OnCancelled
  <2> HIDE DEF code
  <2> QED BY <1>2, <1>3, <2>2, <2>3
<1>7. CASE OnFailed(j, e)
  <2>1. e.code \in WorkerCode
    BY <1>7 DEF OnFailed, Event
  <2> QED BY <1>2, <1>3, <1>7, <2>1 DEF OnFailed
<1> QED BY <1>4, <1>5, <1>6, <1>7 DEF HandleWorkerEvent, OnForeign

\* A delivered event either is the next progress of a running job, and the caller
\* sees it, or ends the job.
LEMMA DeliverEffect ==
  ASSUME IInv, SystemInv, NEW j \in Job, Deliver(j)
  PROVE  /\ \E e \in Event : HandleWorkerEvent(j, e)
         /\ delivered' = [delivered EXCEPT ![j] = @ + 1]
         /\ delivered[j] \in Nat /\ delivered[j] + 1 \in 0 .. Len(emitted[j])
         /\ \/ /\ state[j] = "running" /\ shown' = [shown EXCEPT ![j] = delivered[j]]
               /\ UNCHANGED <<posted, state, facts>>
            \/ /\ shown' = shown /\ state'[j] \in Terminal
               /\ \A i \in Job : Posts(i)
<1> DEFINE v == emitted[j][delivered[j] + 1]
           e == AsReceived(j, v)
<1>1. /\ InFlight(j) /\ HandleWorkerEvent(j, e)
      /\ delivered' = [delivered EXCEPT ![j] = @ + 1]
  BY DEF Deliver
<1>2. facts[j] \in Digest
  <2>1. state[j] \in Executing
    BY <1>1 DEF HandleWorkerEvent, Heeded, IInv, SlotOK
  <2>2. state[j] # "absent"
    BY <2>1 DEF Executing
  <2> QED BY <2>2 DEF SystemInv, HostSide
<1>3. /\ delivered[j] \in Nat /\ delivered[j] + 1 \in 0 .. Len(emitted[j])
      /\ e \in Event /\ e.type = v.type /\ e.job_id = j
      /\ v.type = "analysis-progress" => e = v /\ v.completed = delivered[j]
  BY <1>1, <1>2, NextEvent
<1> HIDE DEF v, e
<1>4. CASE OnProgress(j, e)
  <2>1. /\ e.type = "analysis-progress" /\ state[j] = "running"
        /\ shown' = [shown EXCEPT ![j] = e.completed]
        /\ UNCHANGED <<posted, state, facts>>
    BY <1>4 DEF OnProgress
  <2>2. e.completed = delivered[j]
    BY <1>3, <2>1
  <2>3. shown' = [shown EXCEPT ![j] = delivered[j]]
    BY <2>1, <2>2
  <2> QED BY <1>1, <1>3, <2>1, <2>3
<1>5. CASE /\ shown' = shown /\ state'[j] \in Terminal
           /\ \A i \in Job : Posts(i)
  BY <1>1, <1>3, <1>5
<1> QED BY <1>1, <1>3, <1>4, <1>5, EventPosts

\* An event is ignored only if its job is settled or being cancelled.
LEMMA IgnoreEffect ==
  ASSUME IInv, NEW j \in Job, Ignore(j)
  PROVE  state[j] \in {"cancelling"} \cup Terminal
<1>1. /\ j \in listening /\ (~Heeded(j) \/ state[j] # "running")
      /\ state[j] \in State
  BY DEF Ignore, InFlight, IInv, TypeOK
<1>2. state[j] \notin {"absent", "created", "loading"}
  BY <1>1, SystemAssumption DEF IInv, TypeOK, ListenersFollowState
<1>3. state[j] # "running"
  BY <1>1 DEF Heeded, IInv, SlotOK, Executing, Terminal
<1> QED BY <1>1, <1>2, <1>3 DEF State, Executing

----------------------------------------------------------------------------
\* Every step of the system is a step of the coordinator with any worker, or
\* leaves the coordinator alone.
LEMMA SystemStepsHost ==
  ASSUME IInv, SystemInv, [SystemNext]_systemVars
  PROVE  [Next]_vars
<1>1. CASE UNCHANGED systemVars
  BY <1>1 DEF systemVars
<1>2. CASE Host
  BY <1>2 DEF Host, Next
<1>3. ASSUME NEW j \in Job, Work(j) \/ Ignore(j) PROVE [Next]_vars
  BY <1>3 DEF Work, Ignore
<1>4. ASSUME NEW j \in Job, Deliver(j) PROVE [Next]_vars
  BY <1>4, DeliverEffect DEF Next
<1>5. ASSUME NEW j \in Job, Crash(j) PROVE [Next]_vars
  BY <1>5 DEF Crash, Next
<1> QED BY <1>1, <1>2, <1>3, <1>4, <1>5 DEF SystemNext

LEMMA InitSystem == SystemInit => SystemInv
<1> SUFFICES ASSUME SystemInit, NEW j \in Job PROVE HostSide(j) /\ WorkerSide(j)
  BY DEF SystemInv, SystemInit, W!WorkerInit
<1>1. /\ state[j] = "absent" /\ posted[j] = <<>> /\ shown[j] = NoProgress
      /\ delivered[j] = 0 /\ handled[j] = 0 /\ emitted[j] = <<>>
      /\ control[j] = W!Idle
  BY DEF SystemInit, Init, W!WorkerInit
<1>2. HostSide(j)
  BY <1>1 DEF HostSide, Scripts
<1>3. Orderly(j, W!Idle, <<>>)
  <2>1. <<>> \in Seq(Said(j)) /\ DOMAIN <<>> = {}
    OBVIOUS
  <2> QED BY <2>1, JobAssumption DEF Orderly, W!Idle
<1> QED BY <1>1, <1>2, <1>3 DEF WorkerSide

LEMMA SystemKeepsInvariant ==
  ASSUME IInv, SystemInv, [SystemNext]_systemVars
  PROVE  SystemInv'
<1>1. ASSUME \A i \in Job : HostSide(i)' /\ WorkerSide(i)',
             DOMAIN delivered' = Job,
             UNCHANGED <<handled, control, emitted>>
      PROVE  SystemInv'
  BY <1>1 DEF SystemInv
<1>2. \A i \in Job : HostSide(i) /\ WorkerSide(i) /\ delivered[i] \in 0 .. Len(emitted[i])
  BY DEF SystemInv, WorkerSide
<1>3. ASSUME shown' = shown, \A i \in Job : Posts(i),
             UNCHANGED <<handled, control, emitted, delivered>>
      PROVE  SystemInv'
  <2>1. \A i \in Job : HostSide(i)' /\ WorkerSide(i)'
    BY <1>2, <1>3, HostKeepsSides
  <2> QED BY <1>1, <1>3, <2>1 DEF SystemInv
<1>4. ASSUME state' = state, posted' = posted, facts' = facts PROVE \A i \in Job : Posts(i)
  BY <1>2, <1>4 DEF Posts, HostSide
<1>5. CASE UNCHANGED systemVars
  BY <1>3, <1>4, <1>5 DEF systemVars, vars
<1>6. CASE Host
  BY <1>3, <1>6, HostPosts DEF Host
<1>7. ASSUME NEW j \in Job, Work(j) PROVE SystemInv'
  BY <1>7, WorkKeepsSystem
<1>8. ASSUME NEW j \in Job, Crash(j) PROVE SystemInv'
  <2>1. /\ WorkerError(j) /\ UNCHANGED <<handled, control, emitted, delivered>>
    BY <1>8 DEF Crash
  <2>2. state[j] \in {"created"} \cup Executing
    BY <2>1 DEF WorkerError, ErrorIsHeard, IInv, TypeOK, ListenersFollowState, State,
                Terminal
  <2>3. /\ "failed" \in Terminal /\ "analysis-worker-crashed" \in HostCode
        /\ NoReport \in Digest \cup {NoReport}
    BY DEF Terminal, HostCode
  <2>4. shown' = shown /\ \A i \in Job : Posts(i)
    BY <2>1, <2>2, <2>3, SettlePosts DEF WorkerError, SettleFrom
  <2> QED BY <1>3, <2>1, <2>4
<1>9. ASSUME NEW j \in Job, delivered' = [delivered EXCEPT ![j] = @ + 1],
             delivered[j] + 1 \in 0 .. Len(emitted[j]),
             UNCHANGED <<handled, control, emitted>>,
             shown' = shown, \A i \in Job : Posts(i),
             state'[j] \in {"cancelling"} \cup Terminal
      PROVE  SystemInv'
  <2>1. /\ DOMAIN delivered' = Job /\ delivered'[j] = delivered[j] + 1
        /\ \A i \in Job \ {j} : delivered'[i] = delivered[i]
    BY <1>9 DEF SystemInv
  <2>2. \A i \in Job : HostSide(i)' /\ WorkerSide(i)'
    BY <1>2, <1>9, <2>1, HostKeepsSides
  <2> QED BY <1>1, <1>9, <2>1, <2>2
<1>10. ASSUME NEW j \in Job, Ignore(j) PROVE SystemInv'
  <2>1. /\ delivered' = [delivered EXCEPT ![j] = @ + 1] /\ delivered[j] < Len(emitted[j])
        /\ UNCHANGED <<vars, handled, control, emitted>>
    BY <1>10 DEF Ignore, InFlight
  <2>2. delivered[j] + 1 \in 0 .. Len(emitted[j])
    BY <1>2, <2>1
  <2>3. /\ shown' = shown /\ state' = state /\ \A i \in Job : Posts(i)
    BY <1>4, <2>1 DEF vars
  <2>4. state'[j] \in {"cancelling"} \cup Terminal
    BY <1>10, <2>3, IgnoreEffect
  <2> QED BY <1>9, <2>1, <2>2, <2>3, <2>4
<1>11. ASSUME NEW j \in Job, Deliver(j) PROVE SystemInv'
  <2>1. /\ delivered' = [delivered EXCEPT ![j] = @ + 1]
        /\ delivered[j] \in Nat /\ delivered[j] + 1 \in 0 .. Len(emitted[j])
        /\ UNCHANGED <<handled, control, emitted>>
    BY <1>11, DeliverEffect DEF Deliver
  <2>2. CASE /\ shown' = shown /\ state'[j] \in Terminal
             /\ \A i \in Job : Posts(i)
    BY <1>9, <2>1, <2>2
  <2>3. CASE /\ state[j] = "running" /\ shown' = [shown EXCEPT ![j] = delivered[j]]
             /\ UNCHANGED <<posted, state, facts>>
    <3>1. /\ DOMAIN delivered' = Job /\ delivered'[j] = delivered[j] + 1
          /\ \A i \in Job \ {j} : delivered'[i] = delivered[i]
          /\ delivered'[j] # 0 /\ delivered'[j] - 1 = delivered[j]
      BY <2>1 DEF SystemInv
    <3>2. /\ shown'[j] = delivered[j]
          /\ \A i \in Job \ {j} : shown'[i] = shown[i]
      BY <2>3 DEF IInv, TypeOK
    <3>3. \A i \in Job : Posts(i)
      BY <1>4, <2>3
    <3>4. \A i \in Job \ {j} : HostSide(i)' /\ WorkerSide(i)'
      BY <1>2, <2>1, <3>1, <3>2, <3>3, HostKeepsSides
    <3>5. HostSide(j)'
      BY <1>2, <2>3, <3>1, <3>2 DEF HostSide
    <3>6. WorkerSide(j)'
      BY <1>2, <2>1, <2>3, <3>1 DEF WorkerSide
    <3> QED BY <1>1, <2>1, <3>1, <3>4, <3>5, <3>6
  <2> QED BY <1>11, <2>2, <2>3, DeliverEffect
<1> QED BY <1>5, <1>6, <1>7, <1>8, <1>10, <1>11 DEF SystemNext

\* With its real workers the coordinator keeps its own invariant, and what it has
\* posted, heard and shown agrees with what each worker has handled and said.
THEOREM SystemInvariance == SystemSafety => [](IInv /\ SystemInv)
<1>1. SystemInit => IInv /\ SystemInv
  BY InitInvariant, InitSystem DEF SystemInit
<1>2. (IInv /\ SystemInv) /\ [SystemNext]_systemVars => (IInv /\ SystemInv)'
  BY SystemStepsHost, SystemKeepsInvariant, NextKeepsInvariant
<1> QED BY <1>1, <1>2, PTL DEF SystemSafety

\* The coordinator with its real workers is the coordinator with workers of which
\* nothing is assumed: every theorem above about Safety holds of it too.
THEOREM SystemImplementsCoordinator == SystemSafety => Safety
<1>1. SystemInit => Init
  BY DEF SystemInit
<1>2. (IInv /\ SystemInv) /\ [SystemNext]_systemVars => [Next]_vars
  BY SystemStepsHost
<1> QED BY <1>1, <1>2, SystemInvariance, PTL DEF SystemSafety, Safety

\* No worker is ever found busy, or gets a message it must reject, and nothing
\* follows its final event.
THEOREM WorkersServeOneJob == SystemSafety => []WorkerServesOneJob
<1>1. SystemInv => WorkerServesOneJob
  <2> SUFFICES ASSUME SystemInv, NEW j \in Job
               PROVE  /\ control[j].job \in {j, NoJob}
                      /\ \A i \in DOMAIN emitted[j] :
                           /\ emitted[j][i].job_id = j
                           /\ emitted[j][i].type \in W!Final => i = Len(emitted[j])
    BY DEF WorkerServesOneJob
  <2>1. Orderly(j, control[j], emitted[j])
    BY DEF SystemInv, WorkerSide
  <2>2. /\ control[j] \in [job : {j, NoJob}, cancelled : BOOLEAN, done : Nat]
        /\ emitted[j] \in Seq(Said(j))
    BY <2>1 DEF Orderly
  <2>3. ASSUME NEW i \in DOMAIN emitted[j]
        PROVE  /\ emitted[j][i].job_id = j
               /\ emitted[j][i].type \in W!Final => i = Len(emitted[j])
    <3>1. emitted[j][i] \in Said(j)
      BY <2>2, <2>3, LenProperties, ElementOfSeq
    <3>2. emitted[j][i].job_id = j
      BY <3>1 DEF Said
    <3>3. emitted[j][i].type \in W!Final => emitted[j][i].type # "analysis-progress"
      BY DEF W!Final
    <3> QED BY <2>1, <2>3, <3>2, <3>3 DEF Orderly
  <2> QED BY <2>2, <2>3
<1> QED BY <1>1, SystemInvariance, PTL

\* The caller of onProgress sees 0, 1, 2, ... and nothing else: no event of a
\* worker is lost, repeated, reordered or made up while its job runs.
THEOREM ProgressNeverGoesBack == SystemSafety => ProgressAdvances
<1>1. (IInv /\ SystemInv) /\ [SystemNext]_systemVars => [ShownAdvances]_systemVars
  <2> SUFFICES ASSUME IInv, SystemInv, SystemNext PROVE ShownAdvances
    BY DEF ShownAdvances
  <2>1. CASE shown' = shown
    BY <2>1 DEF ShownAdvances
  <2>2. CASE Host
    BY <2>1, <2>2, HostPosts DEF Host
  <2>3. ASSUME NEW j \in Job, Work(j) \/ Ignore(j) \/ Crash(j) PROVE ShownAdvances
    BY <2>1, <2>3 DEF Work, Ignore, Crash, WorkerError, SettleFrom, vars
  <2>4. ASSUME NEW j \in Job, Deliver(j) PROVE ShownAdvances
    <3>1. CASE state[j] = "running" /\ shown' = [shown EXCEPT ![j] = delivered[j]]
      <4>1. shown[j] = IF delivered[j] = 0 THEN NoProgress ELSE delivered[j] - 1
        BY <3>1 DEF SystemInv, HostSide
      <4>2. /\ Orderly(j, control[j], emitted[j]) /\ emitted[j] \in Seq(Said(j))
            /\ delivered[j] \in Nat /\ delivered[j] + 1 <= Len(emitted[j])
            /\ Len(emitted[j]) \in Nat
        BY <2>4, DeliverEffect, LenProperties DEF SystemInv, WorkerSide, Orderly
      <4>3. delivered[j] # 0 => delivered[j] - 1 \in Progress
        <5> SUFFICES ASSUME delivered[j] # 0 PROVE delivered[j] - 1 \in Progress
          OBVIOUS
        <5>1. /\ delivered[j] \in DOMAIN emitted[j] /\ delivered[j] # Len(emitted[j])
              /\ delivered[j] \in 1 .. Len(emitted[j])
          BY <4>2, LenProperties
        <5>2. emitted[j][delivered[j]] \in Said(j)
          BY <4>2, <5>1, ElementOfSeq
        <5>3. /\ emitted[j][delivered[j]].type = "analysis-progress"
              /\ emitted[j][delivered[j]].completed = delivered[j] - 1
          BY <4>2, <5>1 DEF Orderly
        <5>4. delivered[j] - 1 \in 0 .. Packages[j]
          BY <5>2, <5>3 DEF Said
        <5> QED BY <5>4, SystemAssumption
      <4>4. /\ shown'[j] = delivered[j]
            /\ \A i \in Job \ {j} : shown'[i] = shown[i]
        BY <3>1 DEF IInv, TypeOK
      <4>5. CASE delivered[j] = 0
        BY <4>1, <4>4, <4>5 DEF ShownAdvances
      <4>6. CASE delivered[j] # 0
        <5>1. shown[j] # NoProgress
          BY <4>1, <4>3, <4>6, ProgressAssumption
        <5>2. shown'[j] = shown[j] + 1
          BY <4>1, <4>2, <4>4, <4>6
        <5> QED BY <4>4, <5>1, <5>2 DEF ShownAdvances
      <4> QED BY <4>5, <4>6
    <3> QED BY <2>1, <2>4, <3>1, DeliverEffect
  <2> QED BY <2>2, <2>3, <2>4 DEF SystemNext
<1> QED BY <1>1, SystemInvariance, PTL DEF SystemSafety, ProgressAdvances

----------------------------------------------------------------------------
\* Each worker of the system is the worker of AnalysisWorker, under a host that
\* posts it at most two messages.
SentOf(p, j) == [i \in DOMAIN p |-> [type |-> p[i], job_id |-> j]]

LEMMA SentOfScripts ==
  ASSUME NEW j
  PROVE  /\ SentOf(<<>>, j) = <<>>
         /\ \A a : SentOf(<<a>>, j) = <<[type |-> a, job_id |-> j]>>
         /\ \A a, b : SentOf(<<a, b>>, j) =
                       <<[type |-> a, job_id |-> j], [type |-> b, job_id |-> j]>>
  BY DEF SentOf

\* A message posted to the worker of job j, and to no other.
LEMMA HostPostsOne ==
  ASSUME IInv, SystemInv, IInv', HostNext, UNCHANGED <<handled, control, emitted>>
  PROVE  UNCHANGED W!allVars \/ \E w \in Job, m \in W!ToWorker : W!Post(w, m)
<1>1. /\ \A j \in Job : Posts(j)
      /\ DOMAIN posted = Job /\ DOMAIN posted' = Job
      /\ \A j \in Job : state[j] \in Executing <=> active = j
      /\ \A j \in Job : HostSide(j)
  BY HostPosts DEF IInv, TypeOK, SlotOK, SystemInv
<1>2. CASE \A j \in Job : posted'[j] = posted[j]
  <2>1. Sent' = Sent
    BY <1>2 DEF Sent
  <2> QED BY <2>1 DEF Sent, W!allVars, W!workerVars
<1>3. ASSUME NEW j \in Job, posted'[j] # posted[j]
      PROVE  \E m \in W!ToWorker : W!Post(j, m)
  <2>1. \A k \in Job \ {j} : posted'[k] = posted[k]
    <3> SUFFICES ASSUME NEW k \in Job \ {j}, posted'[k] # posted[k] PROVE FALSE
      OBVIOUS
    <3>1. state[k] \in Executing /\ state[j] \in Executing
      BY <1>1, <1>3 DEF Posts, Executing
    <3> QED BY <1>1, <3>1
  <2>2. PICK x \in Message : /\ posted'[j] = Append(posted[j], x)
                             /\ posted[j] = <<>> \/ posted[j] = <<"analysis-start">>
    BY <1>1, <1>3 DEF Posts, HostSide, Message
  <2> DEFINE m == [type |-> x, job_id |-> j]
  <2>3. m \in W!ToWorker
    BY DEF W!ToWorker, Message
  <2>4. /\ Len(Sent[j]) < 2
        /\ SentOf(posted'[j], j) = Append(SentOf(posted[j], j), m)
    <3>1. CASE posted[j] = <<>>
      <4>1. posted'[j] = <<x>>
        BY <2>2, <3>1, AppendShort
      <4>2. SentOf(posted[j], j) = <<>> /\ SentOf(posted'[j], j) = <<m>>
        BY <3>1, <4>1, SentOfScripts
      <4>3. Sent[j] = <<>>
        BY <4>2 DEF Sent, SentOf
      <4> HIDE DEF m
      <4> QED BY <4>2, <4>3, AppendShort
    <3>2. CASE posted[j] = <<"analysis-start">>
      <4> DEFINE n == [type |-> "analysis-start", job_id |-> j]
      <4>1. posted'[j] = <<"analysis-start", x>>
        BY <2>2, <3>2, AppendShort
      <4>2. SentOf(posted[j], j) = <<n>> /\ SentOf(posted'[j], j) = <<n, m>>
        BY <3>2, <4>1, SentOfScripts
      <4>3. Sent[j] = <<n>>
        BY <4>2 DEF Sent, SentOf
      <4> HIDE DEF n, m
      <4> QED BY <4>2, <4>3, AppendShort
    <3> QED BY <2>2, <3>1, <3>2
  <2>5. Sent' = [Sent EXCEPT ![j] = Append(@, m)]
    <3>1. Sent = [k \in Job |-> SentOf(posted[k], k)] /\ Sent' = [k \in Job |-> SentOf(posted'[k], k)]
      BY DEF Sent, SentOf
    <3> HIDE DEF m
    <3> QED BY <2>1, <2>4, <3>1
  <2> HIDE DEF m
  <2>6. W!Post(j, m)
    BY <2>4, <2>5 DEF Sent, W!Post, W!workerVars
  <2> QED BY <2>3, <2>6
<1> QED BY <1>2, <1>3

\* The workers of the system are those of AnalysisWorker with the coordinator for a host:
\* each of its steps is a task of one worker, a message posted to one, or leaves all
\* workers alone (analysis-worker-coordinator.mjs:102, :156; analysis-worker-runtime.mjs).
THEOREM SystemImplementsWorker == SystemSafety => W!Init /\ [][W!Next]_(W!allVars)
<1>1. SystemInit => W!Init
  <2> SUFFICES ASSUME SystemInit
               PROVE  /\ W!WorkerInit
                      /\ Sent = [w \in Job |-> <<>>]
    BY DEF W!Init, Sent
  <2>1. W!WorkerInit /\ posted = [j \in Job |-> <<>>]
    BY DEF SystemInit, Init
  <2>2. \A j \in Job : SentOf(posted[j], j) = <<>>
    BY <2>1, SentOfScripts
  <2>3. Sent = [j \in Job |-> SentOf(posted[j], j)]
    BY DEF Sent, SentOf
  <2> QED BY <2>1, <2>2, <2>3
<1>2. IInv /\ SystemInv /\ IInv' /\ [SystemNext]_systemVars => [W!Next]_(W!allVars)
  <2> SUFFICES ASSUME IInv, SystemInv, IInv', [SystemNext]_systemVars
               PROVE  [W!Next]_(W!allVars)
    OBVIOUS
  <2>1. ASSUME UNCHANGED <<posted, handled, control, emitted>> PROVE UNCHANGED W!allVars
    BY <2>1 DEF W!allVars, W!workerVars
  <2>2. CASE UNCHANGED systemVars
    BY <2>1, <2>2 DEF systemVars, vars
  <2>3. CASE Host
    BY <2>3, HostPostsOne DEF Host, W!Next
  <2>4. ASSUME NEW j \in Job, Work(j) PROVE W!Next
    <3>1. W!WorkerStep(j) /\ posted' = posted
      BY <2>4 DEF Work, vars
    <3>2. W!Step(j)
      BY <3>1 DEF W!Step
    <3> QED BY <3>2 DEF W!Next
  <2>5. ASSUME NEW j \in Job, Ignore(j) \/ Crash(j) PROVE UNCHANGED W!allVars
    BY <2>1, <2>5 DEF Ignore, Crash, WorkerError, SettleFrom, vars
  <2>6. ASSUME NEW j \in Job, Deliver(j) PROVE UNCHANGED W!allVars
    BY <2>1, <2>6 DEF Deliver, HandleWorkerEvent, OnForeign, OnProgress, OnCompleted,
                      OnCancelled, OnFailed, SettleFrom
  <2> QED BY <2>2, <2>3, <2>4, <2>5, <2>6 DEF SystemNext
<1> QED BY <1>1, <1>2, SystemInvariance, PTL DEF SystemSafety
=============================================================================
