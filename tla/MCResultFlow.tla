---------------------------- MODULE MCResultFlow ----------------------------
(* Small instances of ResultFlow for TLC.                                  *)
EXTENDS ResultFlow

MCResultIds == 1 .. MaxProduced
=============================================================================
