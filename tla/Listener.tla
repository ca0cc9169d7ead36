------------------------------ MODULE Listener ------------------------------
(***************************************************************************)
(* The port of a simulated controller, simulator/TcpListener.ts: binding   *)
(* it, giving it up for an outage and taking it back, and its release with *)
(* the scope, all under one lock.  The outages are the queue of            *)
(* ControllerSimulator.ts; the operator types d and u at cli controller.ts.*)
(*                                                                         *)
(* A binding is a fiber of the listener's scope, known by who asked for    *)
(* it.  When the scope closes, effect runs its finalizers from the last    *)
(* to the first: bindings made after the first are interrupted, then the   *)
(* port is retired.  A fiber forked into a closed scope is interrupted.    *)
(***************************************************************************)
EXTENDS Naturals

CONSTANTS
    Outages,    \* the fiber of the simulator that runs the outage windows
    Operator,   \* the fiber that runs the commands typed on stdin
    Owner,      \* the scope that listens, and asks first
    Nobody,     \* none of them
    MaxOutages  \* bound: windows that wait at once

Askers == {Outages, Operator}
Users == Askers \cup {Owner}

ASSUME UsersAssumption == Nobody \notin Users /\ Owner \notin Askers /\ Outages # Operator
ASSUME MaxOutagesAssumption == MaxOutages \in Nat \ {0}

VARIABLES
    status,     \* unbound, bound or retired
    holder,     \* who has the lock's one permit
    bound,      \* whose fiber status names
    binding,    \* where each user's binding fiber is
    ready,      \* what its deferred says
    ask,        \* what each asker wants, or waits for
    scope,      \* the scope of the listener
    windows     \* outage windows that wait, the one in progress included

listenerVars == <<status, holder, bound, binding, ready, ask, scope, windows>>

AskSteps == {"idle", "down", "up", "releasing", "binding", "asleep"}

ListenerTypeOK ==
    /\ status \in {"unbound", "bound", "retired"}
    /\ holder \in Users \cup {Nobody}
    /\ bound \in Users \cup {Nobody}
    /\ binding \in [Users -> {"none", "opening", "up", "ending"}]
    /\ ready \in [Users -> {"open", "done", "failed"}]
    /\ ask \in [Askers -> AskSteps]
    /\ scope \in {"open", "closing", "retiring", "closed"}
    /\ windows \in 0 .. MaxOutages

\* listen has bound the port before it returns.
ListenerInit ==
    /\ status = "bound"
    /\ holder = Nobody
    /\ bound = Owner
    /\ binding = [u \in Users |-> IF u = Owner THEN "up" ELSE "none"]
    /\ ready = [u \in Users |-> "open"]
    /\ ask = [a \in Askers |-> "idle"]
    /\ scope = "open"
    /\ windows = 0

Asks(a, step) == ask' = [ask EXCEPT ![a] = step]
Free == holder = Nobody

-----------------------------------------------------------------------------
(* Who asks: the operator what they like, the windows down, asleep and up. *)

OperatorTypes(command) ==
    /\ ask[Operator] = "idle"
    /\ Asks(Operator, command)
    /\ UNCHANGED <<status, holder, bound, binding, ready, scope, windows>>

\* A RefuseConnections fault.
RefusesFor ==
    /\ windows < MaxOutages
    /\ windows' = windows + 1
    /\ UNCHANGED <<status, holder, bound, binding, ready, ask, scope>>

WindowOpens ==
    /\ ask[Outages] = "idle" /\ windows > 0
    /\ Asks(Outages, "down")
    /\ UNCHANGED <<status, holder, bound, binding, ready, scope, windows>>

\* A mutant: the window is over, and the port is not asked for.
WindowClosesDark ==
    /\ ask[Outages] = "asleep"
    /\ Asks(Outages, "idle")
    /\ windows' = windows - 1
    /\ UNCHANGED <<status, holder, bound, binding, ready, scope>>

\* The sleep between refuse(true) and refuse(false) is over.
WindowCloses ==
    /\ ask[Outages] = "asleep"
    /\ Asks(Outages, "up")
    /\ UNCHANGED <<status, holder, bound, binding, ready, scope, windows>>

\* refuse returns.
Returned(a, wanted) ==
    IF a = Operator THEN Asks(a, "idle") /\ UNCHANGED windows
    ELSE IF wanted = "down" THEN Asks(a, "asleep") /\ UNCHANGED windows
    ELSE Asks(a, "idle") /\ windows' = windows - 1

-----------------------------------------------------------------------------
(* release(Unbound), bind: each reads the status and acts under the lock.  *)

\* A binding that is still open is told to end.
Stop(u) == [binding EXCEPT ![u] = IF @ = "none" THEN @ ELSE "ending"]

GivesUpPort(a) ==
    /\ ask[a] = "down" /\ Free
    /\ status = "bound"
    /\ status' = "unbound"
    /\ binding' = Stop(bound)
    /\ holder' = a
    /\ Asks(a, "releasing")
    /\ UNCHANGED <<bound, ready, scope, windows>>

PortIsGivenUp(a) ==
    /\ ask[a] = "releasing"
    /\ binding[bound] = "none"
    /\ holder' = Nobody
    /\ bound' = Nobody
    /\ Returned(a, "down")
    /\ UNCHANGED <<status, binding, ready, scope>>

\* Unbound stays so, and Retired.
HasNoPort(a) ==
    /\ ask[a] = "down" /\ Free
    /\ status # "bound"
    /\ Returned(a, "down")
    /\ UNCHANGED <<status, holder, bound, binding, ready, scope>>

Binds(a) ==
    /\ ask[a] = "up" /\ Free
    /\ status = "unbound"
    /\ binding' = [binding EXCEPT ![a] = IF scope = "open" THEN "opening" ELSE "ending"]
    /\ ready' = [ready EXCEPT ![a] = "open"]
    /\ holder' = a
    /\ Asks(a, "binding")
    /\ UNCHANGED <<status, bound, scope, windows>>

NeedNotBind(a) ==
    /\ ask[a] = "up" /\ Free
    /\ status # "unbound"
    /\ Returned(a, "up")
    /\ UNCHANGED <<status, holder, bound, binding, ready, scope>>

\* The deferred is spent.
Unlocks(a) ==
    /\ holder' = Nobody
    /\ ready' = [ready EXCEPT ![a] = "open"]
    /\ Returned(a, "up")

IsBound(a) ==
    /\ ask[a] = "binding" /\ ready[a] = "done"
    /\ status' = "bound"
    /\ bound' = a
    /\ Unlocks(a)
    /\ UNCHANGED <<binding, scope>>

\* The port is taken: refuse logs it and the controller stays dark.
CannotBind(a) ==
    /\ ask[a] = "binding" /\ ready[a] = "failed"
    /\ Unlocks(a)
    /\ UNCHANGED <<status, bound, binding, scope>>

-----------------------------------------------------------------------------
(* The binding fiber.                                                      *)

Opens(u) ==
    /\ binding[u] = "opening"
    /\ binding' = [binding EXCEPT ![u] = "up"]
    /\ ready' = [ready EXCEPT ![u] = "done"]
    /\ UNCHANGED <<status, holder, bound, ask, scope, windows>>

PortIsTaken(u) ==
    /\ binding[u] = "opening"
    /\ binding' = [binding EXCEPT ![u] = "none"]
    /\ ready' = [ready EXCEPT ![u] = "failed"]
    /\ UNCHANGED <<status, holder, bound, ask, scope, windows>>

\* The server fails after it was ready, and nobody hears of it.
ServerFails(u) ==
    /\ binding[u] = "up"
    /\ binding' = [binding EXCEPT ![u] = "none"]
    /\ UNCHANGED <<status, holder, bound, ready, ask, scope, windows>>

\* Interrupted: the sockets are closed, and the server.  The deferred of a
\* binding that was not ready stays open.
BindingEnds(u) ==
    /\ binding[u] = "ending"
    /\ binding' = [binding EXCEPT ![u] = "none"]
    /\ UNCHANGED <<status, holder, bound, ready, ask, scope, windows>>

-----------------------------------------------------------------------------
(* The end of the scope.                                                   *)

ScopeCloses ==
    /\ scope = "open"
    /\ scope' = "closing"
    /\ binding' = [u \in Users |->
        IF u # Owner /\ binding[u] # "none" THEN "ending" ELSE binding[u]]
    /\ UNCHANGED <<status, holder, bound, ready, ask, windows>>

\* release(Retired), once the later bindings have ended and the lock is free.
Retires ==
    /\ scope = "closing" /\ Free
    /\ \A u \in Askers : binding[u] = "none"
    /\ scope' = "retiring"
    /\ holder' = Owner
    /\ status' = "retired"
    /\ binding' = IF status = "bound" THEN Stop(bound) ELSE binding
    /\ bound' = Nobody
    /\ UNCHANGED <<ready, ask, windows>>

Retired ==
    /\ scope = "retiring"
    /\ binding[Owner] = "none"
    /\ scope' = "closed"
    /\ holder' = Nobody
    /\ UNCHANGED <<status, bound, binding, ready, ask, windows>>
=============================================================================
