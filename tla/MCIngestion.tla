---------------------------- MODULE MCIngestion ----------------------------
(***************************************************************************)
(* A retrieval and a local archive that share a key, and a bundle.          *)
(***************************************************************************)
EXTENDS Ingestion, TLC

CONSTANTS Route, Local, Bundle

MCAnalysis == Route :> "first" @@ Local :> "first" @@ Bundle :> "second"
=============================================================================
