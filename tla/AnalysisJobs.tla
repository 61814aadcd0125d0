----------------------------- MODULE AnalysisJobs -----------------------------
(***************************************************************************)
(* What the analysis worker coordinator promises its caller, without queue, *)
(* workers, messages or timers: each submitted job waits, is served alone,  *)
(* may be asked to stop, and settles once, with a report only if it was     *)
(* served to the end and nobody asked it to stop.                           *)
(***************************************************************************)
EXTENDS FiniteSets

CONSTANTS Job, Digest, NoReport

VARIABLES
  phase,    \* where each job is
  wanted,   \* the digest of the snapshot it was submitted with
  report    \* the report it settled with, or NoReport

jobVars == <<phase, wanted, report>>

Phase == {"absent", "waiting", "served", "stopping", "settled"}
InService == {j \in Job : phase[j] \in {"served", "stopping"}}

Init ==
  /\ phase = [j \in Job |-> "absent"]
  /\ wanted = [j \in Job |-> NoReport]
  /\ report = [j \in Job |-> NoReport]

\* How one job may move in a step.
Move ==
  {<<"absent", "waiting">>, <<"absent", "served">>, <<"waiting", "served">>,
   <<"waiting", "settled">>, <<"served", "stopping">>, <<"served", "settled">>,
   <<"stopping", "settled">>}
  \cup {<<p, p>> : p \in Phase}

\* One turn of the host moves any number of jobs (it settles one and serves the
\* next, or drops them all), but serves at most one.
Next ==
  /\ phase' \in [Job -> Phase]
  /\ wanted' \in [Job -> Digest \cup {NoReport}]
  /\ report' \in [Job -> Digest \cup {NoReport}]
  /\ \A j \in Job :
       /\ <<phase[j], phase'[j]>> \in Move
       /\ wanted'[j] # wanted[j] => phase[j] = "absent" /\ phase'[j] # "absent"
       /\ report'[j] # report[j] =>
            /\ phase[j] = "served" /\ phase'[j] = "settled"
            /\ report'[j] = wanted[j]
  /\ \A j, k \in Job : {phase'[j], phase'[k]} \subseteq {"served", "stopping"}
                         => j = k

Spec == Init /\ [][Next]_jobVars
=============================================================================
