---------------------------- MODULE MCOpfsStorage ----------------------------
(***************************************************************************)
(* Small instances of the OPFS storage for TLC.                            *)
(***************************************************************************)
EXTENDS OpfsStorage

CONSTANTS small, large, c1, c2

\* A quota of two takes two small blobs, or a large one.
MCSize == [b \in Blob |-> IF b = large THEN 2 ELSE 1]

=============================================================================
