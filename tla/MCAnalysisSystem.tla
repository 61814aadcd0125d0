--------------------------- MODULE MCAnalysisSystem ---------------------------
(***************************************************************************)
(* The coordinator and its workers with small jobs, for TLC.               *)
(***************************************************************************)
EXTENDS AnalysisSystem

CONSTANTS j1, j2

MCPackages == [j \in Job |-> IF j = j1 THEN 2 ELSE 1]
MCProgress == 0 .. 2
MCWorkerCode == TimeCode \cup OutputCode \cup
                {"analysis-cancelled", "analysis-worker-busy",
                 "analysis-worker-protocol-invalid"}
=============================================================================
