--------------------------- MODULE MCArchiveReader ---------------------------
(***************************************************************************)
(* Archives of a few entries of small sizes, for TLC.                         *)
(***************************************************************************)
EXTENDS ArchiveReader

CONSTANTS a, b
=============================================================================
