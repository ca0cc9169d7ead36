----------------------------- MODULE MCSession -----------------------------
(* Small instances of Session for TLC: two consumers of one MID and an     *)
(* application fiber.                                                      *)
EXTENDS Session

CONSTANTS first, second, app, attempt, keepAlive, results

MCConsumers == {first, second}
MCFibers == MCConsumers \cup {app, attempt, keepAlive}
MCMidOf == [c \in MCConsumers |-> results]
MCSessions == 1 .. MaxSessions
=============================================================================
