------------------------- MODULE AnalysisWorkerProofs -------------------------
(***************************************************************************)
(* Theorems about AnalysisWorker, for any workers, jobs and packages: every *)
(* start is answered once, and a cancelled run only ends as cancelled.      *)
(***************************************************************************)
EXTENDS AnalysisWorker, FiniteSetTheorems, SequenceTheorems, TLAPS

\* The events of a worker.
Event ==
  [type : {"analysis-progress"}, job_id : Job, completed : Nat]
  \cup [type : {"analysis-completed"}, job_id : Job, package_count : Nat]
  \cup [type : {"analysis-cancelled"}, job_id : Job, code : {"analysis-cancelled"}]
  \cup [type : {"analysis-failed"}, job_id : Job,
        code : TimeCode \cup OutputCode
               \cup {"analysis-worker-protocol-invalid", "analysis-worker-busy"}]

\* Which of the first n messages ask for a final event of j, and which events
\* are one.
Asks(m, j) == m.type # "analysis-cancel" /\ m.job_id = j
Answers(e, j) == e.type \in Final /\ e.job_id = j

AskedIn(s, n, j) == {i \in 1 .. n : Asks(s[i], j)}
AnsweredIn(s, j) == {i \in DOMAIN s : Answers(s[i], j)}
One(b) == IF b THEN 1 ELSE 0

\* An idle worker has no flag and no count left over from its last run.
IdleIsBlank == \A w \in Worker : control[w].job = NoJob => control[w] = Idle

OneAnswer(w, j) ==
  Cardinality(AskedIn(sent[w], handled[w], j)) =
    Cardinality(AnsweredIn(emitted[w], j)) + One(control[w].job = j)

IInv ==
  /\ TypeOK
  /\ emitted \in [Worker -> Seq(Event)]
  /\ IdleIsBlank
  /\ \A w \in Worker, j \in Job : OneAnswer(w, j)

----------------------------------------------------------------------------
\* Counting: one message more is handled, one event more is posted.
LEMMA CountType ==
  ASSUME NEW s, NEW n \in Nat, NEW j
  PROVE  /\ IsFiniteSet(AskedIn(s, n, j))
         /\ Cardinality(AskedIn(s, n, j)) \in Nat
<1>1. IsFiniteSet(1 .. n)
  BY FS_Interval
<1>2. AskedIn(s, n, j) \subseteq 1 .. n
  BY DEF AskedIn
<1> QED BY <1>1, <1>2, FS_Subset, FS_CardinalityType

LEMMA AnsweredType ==
  ASSUME NEW s \in Seq(Event), NEW j
  PROVE  /\ IsFiniteSet(AnsweredIn(s, j))
         /\ Cardinality(AnsweredIn(s, j)) \in Nat
<1>1. DOMAIN s = 1 .. Len(s) /\ Len(s) \in Nat
  OBVIOUS
<1>2. IsFiniteSet(1 .. Len(s))
  BY <1>1, FS_Interval
<1>3. AnsweredIn(s, j) \subseteq 1 .. Len(s)
  BY <1>1 DEF AnsweredIn
<1> QED BY <1>2, <1>3, FS_Subset, FS_CardinalityType

LEMMA AskedGrows ==
  ASSUME NEW s, NEW n \in Nat, NEW j
  PROVE  Cardinality(AskedIn(s, n + 1, j)) =
           Cardinality(AskedIn(s, n, j)) + One(Asks(s[n + 1], j))
<1>1. n + 1 \notin AskedIn(s, n, j) /\ 1 .. (n + 1) = (1 .. n) \cup {n + 1}
  BY DEF AskedIn
<1>2. IsFiniteSet(AskedIn(s, n, j)) /\ Cardinality(AskedIn(s, n, j)) \in Nat
  BY CountType
<1>3. CASE Asks(s[n + 1], j)
  <2>1. AskedIn(s, n + 1, j) = AskedIn(s, n, j) \cup {n + 1}
    BY <1>1, <1>3 DEF AskedIn
  <2> QED BY <1>1, <1>2, <1>3, <2>1, FS_AddElement DEF One
<1>4. CASE ~Asks(s[n + 1], j)
  <2>1. AskedIn(s, n + 1, j) = AskedIn(s, n, j)
    BY <1>1, <1>4 DEF AskedIn
  <2> QED BY <1>2, <1>4, <2>1 DEF One
<1> QED BY <1>3, <1>4

LEMMA AnsweredGrows ==
  ASSUME NEW s \in Seq(Event), NEW e \in Event, NEW j
  PROVE  /\ s \o <<e>> \in Seq(Event)
         /\ Cardinality(AnsweredIn(s \o <<e>>, j)) =
              Cardinality(AnsweredIn(s, j)) + One(Answers(e, j))
<1> DEFINE t == s \o <<e>>
<1>1. /\ t \in Seq(Event) /\ Len(s) \in Nat
      /\ DOMAIN s = 1 .. Len(s) /\ DOMAIN t = 1 .. (Len(s) + 1)
      /\ \A i \in 1 .. Len(s) : t[i] = s[i]
      /\ t[Len(s) + 1] = e
  OBVIOUS
<1> HIDE DEF t
<1>2. /\ Len(s) + 1 \notin AnsweredIn(s, j)
      /\ 1 .. (Len(s) + 1) = (1 .. Len(s)) \cup {Len(s) + 1}
  BY <1>1 DEF AnsweredIn
<1>3. IsFiniteSet(AnsweredIn(s, j)) /\ Cardinality(AnsweredIn(s, j)) \in Nat
  BY AnsweredType
<1>4. CASE Answers(e, j)
  <2>1. AnsweredIn(t, j) = AnsweredIn(s, j) \cup {Len(s) + 1}
    BY <1>1, <1>2, <1>4 DEF AnsweredIn
  <2> QED BY <1>1, <1>2, <1>3, <1>4, <2>1, FS_AddElement DEF One, t
<1>5. CASE ~Answers(e, j)
  <2>1. AnsweredIn(t, j) = AnsweredIn(s, j)
    BY <1>1, <1>2, <1>5 DEF AnsweredIn
  <2> QED BY <1>1, <1>3, <1>5, <2>1 DEF One, t
<1> QED BY <1>4, <1>5

\* A message that is not handled yet asks for nothing.
LEMMA AskedKeeps ==
  ASSUME NEW s \in Seq(ToWorker), NEW m \in ToWorker, NEW n \in Nat, n <= Len(s), NEW j
  PROVE  AskedIn(Append(s, m), n, j) = AskedIn(s, n, j)
<1>1. \A i \in 1 .. n : Append(s, m)[i] = s[i]
  OBVIOUS
<1> QED BY <1>1 DEF AskedIn

\* What posting events does to the number of answers.
LEMMA EmitNothing ==
  ASSUME IInv, NEW w \in Worker, Emit(w, <<>>)
  PROVE  emitted' = emitted
<1>1. emitted[w] \in Seq(Event) /\ DOMAIN emitted = Worker
  BY DEF IInv
<1>2. emitted[w] \o <<>> = emitted[w]
  BY <1>1
<1> QED BY <1>1, <1>2 DEF Emit, IInv

LEMMA EmitOne ==
  ASSUME IInv, NEW w \in Worker, NEW e \in Event, Emit(w, <<e>>)
  PROVE  /\ emitted' \in [Worker -> Seq(Event)]
         /\ \A v \in Worker \ {w} : emitted'[v] = emitted[v]
         /\ emitted'[w] = Append(emitted[w], e)
         /\ \A j \in Job : Cardinality(AnsweredIn(emitted'[w], j)) =
                             Cardinality(AnsweredIn(emitted[w], j)) + One(Answers(e, j))
<1>1. emitted \in [Worker -> Seq(Event)] /\ emitted[w] \in Seq(Event)
  BY DEF IInv
<1>2. emitted' = [emitted EXCEPT ![w] = emitted[w] \o <<e>>]
  BY DEF Emit
<1>3. emitted[w] \o <<e>> \in Seq(Event) /\ emitted[w] \o <<e>> = Append(emitted[w], e)
  BY <1>1
<1>4. emitted'[w] = emitted[w] \o <<e>>
  BY <1>1, <1>2
<1> QED BY <1>1, <1>2, <1>3, <1>4, AnsweredGrows

LEMMA EmitTwo ==
  ASSUME IInv, NEW w \in Worker, NEW e \in Event, NEW f \in Event, Emit(w, <<e, f>>)
  PROVE  /\ emitted' \in [Worker -> Seq(Event)]
         /\ \A v \in Worker \ {w} : emitted'[v] = emitted[v]
         /\ \A j \in Job : Cardinality(AnsweredIn(emitted'[w], j)) =
              Cardinality(AnsweredIn(emitted[w], j)) + One(Answers(e, j)) + One(Answers(f, j))
<1>1. emitted \in [Worker -> Seq(Event)] /\ emitted[w] \in Seq(Event)
  BY DEF IInv
<1>2. emitted' = [emitted EXCEPT ![w] = emitted[w] \o <<e, f>>]
  BY DEF Emit
<1>3. emitted[w] \o <<e, f>> = (emitted[w] \o <<e>>) \o <<f>>
  <2> DEFINE a == <<e>>
             b == <<f>>
             s == emitted[w]
  <2>1. a \in Seq(Event) /\ b \in Seq(Event)
    OBVIOUS
  <2>2. a \o b = <<e, f>>
    <3>1. Len(a \o b) = 2 /\ (a \o b)[1] = e /\ (a \o b)[2] = f
      OBVIOUS
    <3>2. a \o b \in Seq(Event)
      OBVIOUS
    <3>3. ASSUME NEW c \in Seq(Event), Len(c) = 2, c[1] = e, c[2] = f
          PROVE  c = <<e, f>>
      <4>1. c = [i \in 1 .. 2 |-> c[i]]
        BY <3>3
      <4>2. <<e, f>> = [i \in 1 .. 2 |-> IF i = 1 THEN e ELSE f]
        OBVIOUS
      <4>3. \A i \in 1 .. 2 : c[i] = IF i = 1 THEN e ELSE f
        BY <3>3
      <4> QED BY <4>1, <4>2, <4>3
    <3> HIDE DEF a, b
    <3> QED BY <3>1, <3>2, <3>3
  <2>3. s \in Seq(Event)
    BY <1>1
  <2> HIDE DEF a, b, s
  <2>4. (s \o a) \o b = s \o (a \o b)
    BY <2>1, <2>3, ConcatAssociative
  <2> QED BY <2>2, <2>4 DEF a, b, s
<1>4. emitted'[w] = (emitted[w] \o <<e>>) \o <<f>>
  BY <1>1, <1>2, <1>3
<1> DEFINE s == emitted[w] \o <<e>>
<1>5. s \in Seq(Event) /\ emitted'[w] \in Seq(Event) /\ emitted'[w] = s \o <<f>>
  BY <1>1, <1>4
<1>6. ASSUME NEW j \in Job
      PROVE  Cardinality(AnsweredIn(emitted'[w], j)) =
               Cardinality(AnsweredIn(emitted[w], j)) + One(Answers(e, j)) + One(Answers(f, j))
  <2>1. Cardinality(AnsweredIn(s, j)) =
          Cardinality(AnsweredIn(emitted[w], j)) + One(Answers(e, j))
    BY <1>1, AnsweredGrows
  <2> HIDE DEF s
  <2>2. Cardinality(AnsweredIn(s \o <<f>>, j)) =
          Cardinality(AnsweredIn(s, j)) + One(Answers(f, j))
    BY <1>5, AnsweredGrows
  <2> QED BY <1>5, <2>1, <2>2
<1> QED BY <1>1, <1>2, <1>5, <1>6

----------------------------------------------------------------------------
\* A task of w: the others stay as they are, and w answers or owes an answer for
\* each of the jobs it was asked for.
Entry == [job : Job \cup {NoJob}, cancelled : BOOLEAN, done : Nat]

Task(w, asked) ==
  /\ control' \in [Worker -> Entry] /\ emitted' \in [Worker -> Seq(Event)]
  /\ \A v \in Worker \ {w} : control'[v] = control[v] /\ emitted'[v] = emitted[v]
  /\ control'[w].job = NoJob => control'[w] = Idle
  /\ control'[w].job # NoJob => control'[w].done \in 1 .. Packages[control'[w].job]
  /\ \A j \in Job :
       Cardinality(AnsweredIn(emitted'[w], j)) + One(control'[w].job = j) =
         Cardinality(AnsweredIn(emitted[w], j)) + One(control[w].job = j) + One(j \in asked)

AskedBy(m) == {j \in Job : Asks(m, j)}

LEMMA EntryType ==
  ASSUME IInv, NEW w \in Worker
  PROVE  /\ control \in [Worker -> Entry] /\ control[w] \in Entry
         /\ emitted \in [Worker -> Seq(Event)] /\ emitted[w] \in Seq(Event)
         /\ control[w].job = NoJob => control[w] = Idle
         /\ control[w].job # NoJob =>
              control[w].job \in Job /\ control[w].done \in 1 .. Packages[control[w].job]
         /\ \A j \in Job : Cardinality(AnsweredIn(emitted[w], j)) \in Nat
<1>1. control \in [Worker -> Entry] /\ emitted \in [Worker -> Seq(Event)]
  BY DEF IInv, TypeOK, Entry
<1>2. control[w] \in Entry /\ emitted[w] \in Seq(Event)
  BY <1>1
<1>3. \A j \in Job : Cardinality(AnsweredIn(emitted[w], j)) \in Nat
  BY <1>2, AnsweredType
<1>4. /\ control[w].job = NoJob => control[w] = Idle
      /\ control[w].job # NoJob =>
           control[w].job \in Job /\ control[w].done \in 1 .. Packages[control[w].job]
  BY <1>2 DEF IInv, TypeOK, IdleIsBlank, Entry
<1> QED BY <1>1, <1>2, <1>3, <1>4

LEMMA RejectTask ==
  ASSUME IInv, NEW w \in Worker, NEW m \in ToWorker, RejectMessage(w, m)
  PROVE  Task(w, AskedBy(m))
<1>1. m.type = "invalid" /\ control' = control /\ m.job_id \in Job \cup {NoJob}
  BY DEF RejectMessage, ToWorker
<1>2. CASE m.job_id = NoJob
  <2>1. emitted' = emitted
    BY <1>2, EmitNothing DEF RejectMessage
  <2>2. AskedBy(m) = {}
    BY <1>2, WorkerJobAssumption DEF AskedBy, Asks
  <2> QED BY <1>1, <2>1, <2>2, EntryType DEF Task, One
<1>3. CASE m.job_id # NoJob
  <2> DEFINE e == FailedEvent(m.job_id, "analysis-worker-protocol-invalid")
  <2>1. e \in Event /\ Emit(w, <<e>>)
    BY <1>1, <1>3 DEF RejectMessage, Event, FailedEvent
  <2>2. \A j \in Job : Answers(e, j) <=> j \in AskedBy(m)
    BY <1>1 DEF Answers, AskedBy, Asks, FailedEvent, Final
  <2> HIDE DEF e
  <2> QED BY <1>1, <2>1, <2>2, EmitOne, EntryType DEF Task, One
<1> QED BY <1>2, <1>3

LEMMA CancelTask ==
  ASSUME IInv, NEW w \in Worker, NEW m \in ToWorker, CancelRun(w, m)
  PROVE  /\ Task(w, AskedBy(m))
         /\ control[w].cancelled => control'[w] = control[w]
<1>1. m.job_id \in Job /\ emitted' = emitted /\ m.type = "analysis-cancel"
  BY DEF CancelRun, ToWorker
<1>2. AskedBy(m) = {}
  BY <1>1 DEF AskedBy, Asks
<1>3. control[w] \in Entry /\ control \in [Worker -> Entry]
  BY EntryType
<1>4. control' = [control EXCEPT ![w] = [control[w] EXCEPT
                    !.cancelled = IF control[w].job = m.job_id THEN TRUE ELSE @]]
  BY DEF CancelRun
<1>5. /\ control' \in [Worker -> Entry]
      /\ \A v \in Worker \ {w} : control'[v] = control[v]
      /\ control'[w].job = control[w].job /\ control'[w].done = control[w].done
      /\ control[w].job # m.job_id \/ control[w].cancelled => control'[w] = control[w]
  BY <1>3, <1>4 DEF Entry
<1>6. control'[w].job = NoJob => control'[w] = Idle
  BY <1>1, <1>5, EntryType, WorkerJobAssumption
<1> QED BY <1>1, <1>2, <1>5, <1>6, EntryType DEF Task, One

LEMMA RefuseTask ==
  ASSUME IInv, NEW w \in Worker, NEW m \in ToWorker, RefuseBusy(w, m)
  PROVE  Task(w, AskedBy(m)) /\ control' = control
<1> DEFINE e == FailedEvent(m.job_id, "analysis-worker-busy")
<1>1. m.job_id \in Job /\ control' = control /\ m.type = "analysis-start"
  BY DEF RefuseBusy, ToWorker
<1>2. e \in Event /\ Emit(w, <<e>>)
  BY <1>1 DEF RefuseBusy, Event, FailedEvent
<1>3. \A j \in Job : Answers(e, j) <=> j \in AskedBy(m)
  BY <1>1 DEF Answers, AskedBy, Asks, FailedEvent, Final
<1> HIDE DEF e
<1> QED BY <1>1, <1>2, <1>3, EmitOne, EntryType DEF Task, One

LEMMA StartTask ==
  ASSUME IInv, NEW w \in Worker, NEW m \in ToWorker, StartRun(w, m)
  PROVE  Task(w, AskedBy(m)) /\ ~control[w].cancelled
<1>1. m.job_id \in Job /\ control[w].job = NoJob /\ m.type = "analysis-start"
  BY DEF StartRun, ToWorker
<1>2. control[w] = Idle /\ control \in [Worker -> Entry]
  BY <1>1, EntryType
<1>3. \A j \in Job : (j \in AskedBy(m) <=> j = m.job_id) /\ control[w].job # j
  BY <1>1, WorkerJobAssumption DEF AskedBy, Asks
<1>4. ASSUME NEW n \in Nat
      PROVE  /\ ProgressEvent(m.job_id, n) \in Event
             /\ \A j \in Job : ~Answers(ProgressEvent(m.job_id, n), j)
  BY <1>1 DEF ProgressEvent, Event, Answers, Final
<1>5. CASE \E c \in TimeCode :
             /\ Emit(w, <<ProgressEvent(m.job_id, 0), FailedEvent(m.job_id, c)>>)
             /\ control' = control
  <2>1. PICK c \in TimeCode :
             /\ Emit(w, <<ProgressEvent(m.job_id, 0), FailedEvent(m.job_id, c)>>)
             /\ control' = control
    BY <1>5
  <2> DEFINE e == ProgressEvent(m.job_id, 0)
             f == FailedEvent(m.job_id, c)
  <2>2. e \in Event /\ \A j \in Job : ~Answers(e, j)
    BY <1>4
  <2>3. f \in Event /\ \A j \in Job : Answers(f, j) <=> j = m.job_id
    BY <1>1 DEF FailedEvent, Event, Answers, Final
  <2> HIDE DEF e, f
  <2>4. Emit(w, <<e, f>>)
    BY <2>1 DEF e, f
  <2> QED BY <1>2, <1>3, <2>1, <2>2, <2>3, <2>4, EmitTwo, EntryType DEF Task, One, Idle
<1>6. CASE /\ Emit(w, <<ProgressEvent(m.job_id, 0), ProgressEvent(m.job_id, 1)>>)
           /\ control' = [control EXCEPT ![w] =
                [job |-> m.job_id, cancelled |-> FALSE, done |-> 1]]
  <2> DEFINE e == ProgressEvent(m.job_id, 0)
             f == ProgressEvent(m.job_id, 1)
  <2>1. e \in Event /\ f \in Event /\ \A j \in Job : ~Answers(e, j) /\ ~Answers(f, j)
    BY <1>4
  <2> HIDE DEF e, f
  <2>2. Emit(w, <<e, f>>)
    BY <1>6 DEF e, f
  <2>3. /\ control' \in [Worker -> Entry]
        /\ \A v \in Worker \ {w} : control'[v] = control[v]
        /\ control'[w].job = m.job_id /\ control'[w].done = 1
    BY <1>1, <1>2, <1>6 DEF Entry
  <2>4. 1 \in 1 .. Packages[m.job_id] /\ m.job_id # NoJob
    BY <1>1, PackagesAssumption, WorkerJobAssumption
  <2> QED BY <1>2, <1>3, <2>1, <2>2, <2>3, <2>4, EmitTwo, EntryType DEF Task, One, Idle
<1> QED BY <1>2, <1>5, <1>6 DEF StartRun, Idle

\* The end of a run pays the answer it owes.
LEMMA EndTask ==
  ASSUME IInv, NEW w \in Worker, control[w].job # NoJob, NEW e \in Event,
         e.type \in Final, e.job_id = control[w].job, EndRun(w, e)
  PROVE  Task(w, {}) /\ control'[w] = Idle /\ emitted'[w] = Append(emitted[w], e)
<1>1. Emit(w, <<e>>) /\ control' = [control EXCEPT ![w] = Idle]
  BY DEF EndRun
<1>2. control \in [Worker -> Entry] /\ Idle \in Entry
  BY EntryType DEF Idle, Entry
<1>3. /\ control' \in [Worker -> Entry] /\ control'[w] = Idle
      /\ \A v \in Worker \ {w} : control'[v] = control[v]
  BY <1>1, <1>2
<1>4. \A j \in Job : (Answers(e, j) <=> j = control[w].job) /\ j # NoJob
  BY WorkerJobAssumption DEF Answers
<1> QED BY <1>1, <1>3, <1>4, EmitOne, EntryType DEF Task, One, Idle

LEMMA PackageTask ==
  ASSUME IInv, NEW w \in Worker, control[w].job # NoJob, NextPackage(w)
  PROVE  Task(w, {}) /\ ~control[w].cancelled
<1> DEFINE c == control[w]
           e == ProgressEvent(c.job, c.done + 1)
<1>1. /\ c \in Entry /\ c.job \in Job /\ c.done \in 1 .. Packages[c.job]
      /\ control \in [Worker -> Entry] /\ Packages[c.job] \in Nat
  BY EntryType, PackagesAssumption
<1>2. /\ ~c.cancelled /\ c.done < Packages[c.job] /\ Emit(w, <<e>>)
      /\ control' = [control EXCEPT ![w] = [c EXCEPT !.done = c.done + 1]]
  BY DEF NextPackage
<1>3. e \in Event /\ \A j \in Job : ~Answers(e, j)
  BY <1>1 DEF ProgressEvent, Event, Answers, Final, Entry
<1>4. /\ control' \in [Worker -> Entry]
      /\ control'[w].job = c.job /\ control'[w].done = c.done + 1
      /\ \A v \in Worker \ {w} : control'[v] = control[v]
  BY <1>1, <1>2 DEF Entry
<1>5. control'[w].done \in 1 .. Packages[control'[w].job] /\ control'[w].job # NoJob
  BY <1>1, <1>2, <1>4
<1> HIDE DEF e
<1> QED BY <1>2, <1>3, <1>4, <1>5, EmitOne, EntryType DEF Task, One

LEMMA ResumeTask ==
  ASSUME IInv, NEW w \in Worker, ResumeRun(w)
  PROVE  /\ Task(w, {})
         /\ control[w].cancelled =>
              /\ control'[w] = Idle
              /\ emitted'[w] = Append(emitted[w], CancelledEvent(control[w].job))
<1>1. control[w].job \in Job /\ control[w].job # NoJob /\ control[w].done \in Nat
  BY EntryType DEF ResumeRun, Entry
<1>2. CASE RunCancelled(w)
  <2>1. /\ CancelledEvent(control[w].job) \in Event
        /\ CancelledEvent(control[w].job).type \in Final
        /\ CancelledEvent(control[w].job).job_id = control[w].job
    BY <1>1 DEF CancelledEvent, Event, Final
  <2> QED BY <1>1, <1>2, <2>1, EndTask DEF RunCancelled
<1>3. ASSUME NEW c \in TimeCode \cup OutputCode, ~control[w].cancelled,
             EndRun(w, FailedEvent(control[w].job, c))
      PROVE  Task(w, {})
  <2>1. /\ FailedEvent(control[w].job, c) \in Event
        /\ FailedEvent(control[w].job, c).type \in Final
        /\ FailedEvent(control[w].job, c).job_id = control[w].job
    BY <1>1 DEF FailedEvent, Event, Final
  <2> QED BY <1>1, <1>3, <2>1, EndTask
<1>4. CASE RunOutOfTime(w)
  BY <1>3, <1>4 DEF RunOutOfTime
<1>5. CASE NextPackage(w)
  BY <1>1, <1>5, PackageTask
<1>6. CASE FinishRun(w)
  <2>1. CASE EndRun(w, CompletedEvent(control[w].job, control[w].done))
    <3>1. /\ CompletedEvent(control[w].job, control[w].done) \in Event
          /\ CompletedEvent(control[w].job, control[w].done).type \in Final
          /\ CompletedEvent(control[w].job, control[w].done).job_id = control[w].job
      BY <1>1 DEF CompletedEvent, Event, Final
    <3> QED BY <1>1, <1>6, <2>1, <3>1, EndTask DEF FinishRun
  <2> QED BY <1>3, <1>6, <2>1 DEF FinishRun
<1> QED BY <1>2, <1>4, <1>5, <1>6 DEF ResumeRun

----------------------------------------------------------------------------
\* A task keeps the invariant if the messages handled grow by what it answers.
LEMMA TaskKeeps ==
  ASSUME IInv, NEW w \in Worker, NEW asked, Task(w, asked), sent' = sent,
         handled' \in [Worker -> Nat], handled'[w] <= Len(sent[w]),
         \A v \in Worker \ {w} : handled'[v] = handled[v],
         \A j \in Job : Cardinality(AskedIn(sent[w], handled'[w], j)) =
           Cardinality(AskedIn(sent[w], handled[w], j)) + One(j \in asked)
  PROVE  IInv'
<1>1. TypeOK'
  <2>1. ASSUME NEW v \in Worker
        PROVE  /\ handled'[v] <= Len(sent'[v])
               /\ control'[v].job # NoJob => control'[v].done \in 1 .. Packages[control'[v].job]
    BY DEF IInv, TypeOK, Task
  <2> QED BY <2>1 DEF IInv, TypeOK, Task, Entry
<1>2. IdleIsBlank'
  BY DEF IInv, IdleIsBlank, Task, Idle
<1>3. ASSUME NEW v \in Worker, NEW j \in Job PROVE OneAnswer(v, j)'
  <2>1. CASE v # w
    <3>1. /\ handled'[v] = handled[v] /\ sent'[v] = sent[v]
          /\ emitted'[v] = emitted[v] /\ control'[v] = control[v]
      BY <2>1 DEF Task
    <3>2. OneAnswer(v, j)
      BY DEF IInv
    <3> QED BY <3>1, <3>2 DEF OneAnswer
  <2>2. CASE v = w
    <3>1. /\ Cardinality(AskedIn(sent[w], handled[w], j)) \in Nat
          /\ Cardinality(AnsweredIn(emitted[w], j)) \in Nat
          /\ Cardinality(AnsweredIn(emitted'[w], j)) \in Nat
      <4>1. handled[w] \in Nat /\ emitted'[w] \in Seq(Event) /\ emitted[w] \in Seq(Event)
        BY DEF IInv, TypeOK, Task
      <4> QED BY <4>1, CountType, AnsweredType
    <3>2. OneAnswer(w, j)
      BY <1>3 DEF IInv
    <3>3. Cardinality(AnsweredIn(emitted'[w], j)) + One(control'[w].job = j) =
            Cardinality(AnsweredIn(emitted[w], j)) + One(control[w].job = j) + One(j \in asked)
      BY <1>3 DEF Task
    <3>4. Cardinality(AskedIn(sent[w], handled'[w], j)) =
            Cardinality(AskedIn(sent[w], handled[w], j)) + One(j \in asked)
      BY <1>3
    <3> QED BY <2>2, <3>1, <3>2, <3>3, <3>4 DEF OneAnswer, One
  <2> QED BY <2>1, <2>2
<1> QED BY <1>1, <1>2, <1>3 DEF IInv, Task

LEMMA HandledMessage ==
  ASSUME IInv, NEW w \in Worker, handled[w] < Len(sent[w])
  PROVE  /\ sent[w][handled[w] + 1] \in ToWorker /\ handled[w] \in Nat
         /\ Len(sent[w]) \in Nat
BY DEF IInv, TypeOK

LEMMA HandleStep ==
  ASSUME IInv, NEW w \in Worker, HandleMessage(w), sent' = sent
  PROVE  IInv' /\ (control[w].cancelled => control'[w] = control[w])
<1> DEFINE m == sent[w][handled[w] + 1]
<1>1. /\ m \in ToWorker /\ handled[w] \in Nat /\ Len(sent[w]) \in Nat
      /\ handled' = [handled EXCEPT ![w] = handled[w] + 1]
      /\ handled[w] < Len(sent[w])
      /\ RejectMessage(w, m) \/ CancelRun(w, m) \/ RefuseBusy(w, m) \/ StartRun(w, m)
  BY HandledMessage DEF HandleMessage
<1>2. /\ handled' \in [Worker -> Nat] /\ handled'[w] = handled[w] + 1
      /\ \A v \in Worker \ {w} : handled'[v] = handled[v]
  BY <1>1 DEF IInv, TypeOK
<1>3. \A j \in Job : Cardinality(AskedIn(sent[w], handled[w] + 1, j)) =
        Cardinality(AskedIn(sent[w], handled[w], j)) + One(Asks(m, j))
  BY <1>1, AskedGrows
<1>4. \A j \in Job : j \in AskedBy(m) <=> Asks(m, j)
  BY DEF AskedBy
<1> HIDE DEF m
<1>5. /\ Task(w, AskedBy(m))
      /\ control[w].cancelled => control'[w] = control[w]
  <2>1. CASE RejectMessage(w, m)
    BY <1>1, <2>1, RejectTask DEF RejectMessage
  <2>2. CASE CancelRun(w, m)
    BY <1>1, <2>2, CancelTask
  <2>3. CASE RefuseBusy(w, m)
    BY <1>1, <2>3, RefuseTask
  <2>4. CASE StartRun(w, m)
    BY <1>1, <2>4, StartTask
  <2> QED BY <1>1, <2>1, <2>2, <2>3, <2>4
<1>6. \A j \in Job : Cardinality(AskedIn(sent[w], handled'[w], j)) =
        Cardinality(AskedIn(sent[w], handled[w], j)) + One(j \in AskedBy(m))
  BY <1>2, <1>3, <1>4 DEF One
<1>7. handled'[w] <= Len(sent[w])
  BY <1>1, <1>2
<1> QED BY <1>2, <1>5, <1>6, <1>7, TaskKeeps

LEMMA ResumeStep ==
  ASSUME IInv, NEW w \in Worker, ResumeRun(w), sent' = sent
  PROVE  IInv'
<1>1. handled' = handled /\ Task(w, {})
  BY ResumeTask DEF ResumeRun
<1>2. handled \in [Worker -> Nat] /\ handled[w] <= Len(sent[w])
  BY DEF IInv, TypeOK
<1>3. \A j \in Job : /\ Cardinality(AskedIn(sent[w], handled[w], j)) \in Nat
                     /\ One(j \in {}) = 0
  BY <1>2, CountType DEF One
<1> QED BY <1>1, <1>2, <1>3, TaskKeeps

LEMMA PostStep ==
  ASSUME IInv, NEW w \in Worker, NEW m \in ToWorker, Post(w, m)
  PROVE  IInv'
<1>1. /\ UNCHANGED <<handled, control, emitted>>
      /\ sent' = [sent EXCEPT ![w] = Append(sent[w], m)]
      /\ sent \in [Worker -> Seq(ToWorker)] /\ sent[w] \in Seq(ToWorker)
      /\ handled \in [Worker -> Nat] /\ handled[w] <= Len(sent[w])
  BY DEF Post, workerVars, IInv, TypeOK
<1>2. /\ Append(sent[w], m) \in Seq(ToWorker)
      /\ Len(Append(sent[w], m)) = Len(sent[w]) + 1
  BY <1>1
<1>3. /\ sent' \in [Worker -> Seq(ToWorker)] /\ sent'[w] = Append(sent[w], m)
      /\ \A v \in Worker \ {w} : sent'[v] = sent[v]
  BY <1>1, <1>2
<1>4. TypeOK'
  <2>1. \A v \in Worker : handled[v] <= Len(sent'[v])
    BY <1>1, <1>2, <1>3 DEF IInv, TypeOK
  <2> QED BY <1>1, <1>3, <2>1 DEF IInv, TypeOK
<1>5. ASSUME NEW v \in Worker, NEW j \in Job PROVE OneAnswer(v, j)'
  <2>1. AskedIn(sent'[v], handled[v], j) = AskedIn(sent[v], handled[v], j)
    BY <1>1, <1>3, <1>5, AskedKeeps
  <2> QED BY <1>1, <1>5, <2>1 DEF IInv, OneAnswer
<1> QED BY <1>1, <1>4, <1>5 DEF IInv, IdleIsBlank

----------------------------------------------------------------------------
LEMMA InitInv == Init => IInv
<1> SUFFICES ASSUME Init PROVE IInv
  OBVIOUS
<1>1. /\ sent = [w \in Worker |-> <<>>] /\ handled = [w \in Worker |-> 0]
      /\ control = [w \in Worker |-> Idle] /\ emitted = [w \in Worker |-> <<>>]
  BY DEF Init, WorkerInit
<1>2. TypeOK /\ IdleIsBlank
  BY <1>1 DEF TypeOK, IdleIsBlank, Idle
<1>3. emitted \in [Worker -> Seq(Event)]
  BY <1>1
<1>4. ASSUME NEW w \in Worker, NEW j \in Job PROVE OneAnswer(w, j)
  <2>1. AskedIn(sent[w], handled[w], j) = {} /\ AnsweredIn(emitted[w], j) = {}
    BY <1>1 DEF AskedIn, AnsweredIn
  <2>2. One(control[w].job = j) = 0
    BY <1>1, WorkerJobAssumption DEF One, Idle
  <2> QED BY <2>1, <2>2, FS_EmptySet DEF OneAnswer
<1> QED BY <1>2, <1>3, <1>4 DEF IInv

LEMMA NextInv == IInv /\ [Next]_allVars => IInv'
<1> SUFFICES ASSUME IInv, [Next]_allVars PROVE IInv'
  OBVIOUS
<1>1. CASE UNCHANGED allVars
  BY <1>1 DEF allVars, workerVars, IInv, TypeOK, IdleIsBlank, OneAnswer
<1>2. ASSUME NEW w \in Worker, NEW m \in ToWorker, Post(w, m) PROVE IInv'
  BY <1>2, PostStep
<1>3. ASSUME NEW w \in Worker, Step(w) PROVE IInv'
  BY <1>3, HandleStep, ResumeStep DEF Step, WorkerStep
<1> QED BY <1>1, <1>2, <1>3 DEF Next

\* The invariant behind the theorems below: types, blank idle workers, and for each
\* worker and job the balance of messages that ask and events that answer.
THEOREM Invariance == Spec => []IInv
<1> QED BY InitInv, NextInv, PTL DEF Spec

\* The state keeps its shape: no worker handles a message it was not sent, and a run
\* never counts more packages than its job has.
THEOREM TypeCorrect == Spec => []TypeOK
<1>1. IInv => TypeOK
  BY DEF IInv
<1> QED BY <1>1, Invariance, PTL

\* onmessage answers every start, and every bad message that names a job, by exactly
\* one final event, however messages and the turns of the executor interleave.
THEOREM AnsweredOnce == Spec => []OneAnswerEach
<1>1. IInv => OneAnswerEach
  <2> SUFFICES ASSUME IInv, NEW w \in Worker, NEW j \in Job
               PROVE  Cardinality({i \in 1 .. handled[w] :
                         sent[w][i].type # "analysis-cancel" /\ sent[w][i].job_id = j}) =
                      Cardinality({i \in DOMAIN emitted[w] :
                         emitted[w][i].type \in Final /\ emitted[w][i].job_id = j})
                        + (IF control[w].job = j THEN 1 ELSE 0)
    BY DEF OneAnswerEach
  <2> QED BY DEF IInv, OneAnswer, AskedIn, AnsweredIn, Asks, Answers, One
<1> QED BY <1>1, Invariance, PTL

\* Once its cancel message is handled, a run ends as cancelled and does nothing else:
\* the executor looks at the flag first whenever it comes back from a yield.
THEOREM CancellationSticks == Spec => CancelledRunStops
<1> DEFINE Stops(w) == control[w].cancelled /\ control'[w] # control[w] =>
             /\ control'[w] = Idle
             /\ emitted'[w] = Append(emitted[w], CancelledEvent(control[w].job))
<1>1. IInv /\ [Next]_allVars => [\A w \in Worker : Stops(w)]_allVars
  <2> SUFFICES ASSUME IInv, Next, NEW w \in Worker PROVE Stops(w)
    OBVIOUS
  <2>1. ASSUME NEW v \in Worker, NEW m \in ToWorker, Post(v, m) PROVE Stops(w)
    BY <2>1 DEF Post, workerVars
  <2>2. ASSUME NEW v \in Worker, v # w, Step(v) PROVE control'[w] = control[w]
    <3>1. CASE HandleMessage(v)
      <4>1. sent[v][handled[v] + 1] \in ToWorker
        BY <3>1, HandledMessage DEF HandleMessage
      <4>2. Task(v, AskedBy(sent[v][handled[v] + 1]))
        BY <3>1, <4>1, RejectTask, CancelTask, RefuseTask, StartTask DEF HandleMessage
      <4> QED BY <2>2, <4>2 DEF Task
    <3>2. CASE ResumeRun(v)
      BY <2>2, <3>2, ResumeTask DEF Task
    <3> QED BY <2>2, <3>1, <3>2 DEF Step, WorkerStep
  <2>3. CASE Step(w)
    BY <2>3, HandleStep, ResumeTask DEF Step, WorkerStep
  <2> QED BY <2>1, <2>2, <2>3 DEF Next
<1> QED BY <1>1, Invariance, PTL DEF Spec, CancelledRunStops
=============================================================================
