---------------------------- MODULE MCConnection ----------------------------
(* Small instances of Connection for TLC: an application that may give up  *)
(* on its close, and the finalizer of the scope.                           *)
EXTENDS Connection

CONSTANTS app, scope

MCClosers == {app, scope}
MCInterruptible == {app}
=============================================================================
