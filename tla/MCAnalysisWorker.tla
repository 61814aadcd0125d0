--------------------------- MODULE MCAnalysisWorker ---------------------------
(***************************************************************************)
(* One analysis worker under a host that posts anything, for TLC.          *)
(***************************************************************************)
EXTENDS AnalysisWorker

CONSTANTS a, b

\* A job of one package and a job of two.
MCPackages == [j \in Job |-> IF j = a THEN 1 ELSE 2]
=============================================================================
