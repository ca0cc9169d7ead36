------------------------------ MODULE MCDedup ------------------------------
(* Small instances of Dedup for TLC.                                       *)
EXTENDS Dedup

\* Results stop short of the largest identifier.
MCShortIds == 1 .. (MaxId - 1)
=============================================================================
