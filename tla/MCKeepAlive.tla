---------------------------- MODULE MCKeepAlive ----------------------------
(* Instance of KeepAlive for TLC: the default settings, an interval of 10  *)
(* seconds and a timeout of 5, on a clock of 2.5 seconds.                  *)
EXTENDS KeepAlive

CONSTANTS app, other, loop

MCApps == {app, other}
MCFibers == MCApps \cup {loop}
MCConfig == <<>>
=============================================================================
