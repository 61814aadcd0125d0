------------------------ MODULE MCAnalysisCoordinator ------------------------
(***************************************************************************)
(* Small instances of the analysis worker coordinator for TLC.             *)
(***************************************************************************)
EXTENDS AnalysisCoordinator

CONSTANTS j1, j2, j3, d1, d2

\* One worker without removeEventListener, whose late events still arrive; it may throw
\* from addEventListener too.
MCDetachable == Job \ {j1}

=============================================================================
