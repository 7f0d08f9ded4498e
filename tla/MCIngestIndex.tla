--------------------------- MODULE MCIngestIndex ---------------------------
(* An instance of IngestIndex for TLC.                                     *)
EXTENDS IngestIndex

CONSTANTS m1, m2, r1, r2
=============================================================================
