--------------------------- MODULE MCGapRecovery ---------------------------
(* Small instances of GapRecovery for TLC.                                 *)
EXTENDS GapRecovery

MCResultIds == 1 .. MaxProduced
=============================================================================
