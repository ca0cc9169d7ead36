------------------------------- MODULE Fleet --------------------------------
(***************************************************************************)
(* A pool of devices against the controller they connect to, over TCP: the *)
(* rig of cli chaos.ts and of the in-process tests with the listener of    *)
(* the controller command.  A device's fiber dials whenever it has no      *)
(* socket; the port goes dark for outages.  The run ends as chaos does:    *)
(* quiesce stops new faults and calls, the devices come back, the scope of *)
(* the controllers closes, and after it the layer of the pool.             *)
(***************************************************************************)
EXTENDS DevicePool, Listener

VARIABLES
    served,     \* the binding that accepted a device's socket and still holds it
    quiet,      \* quiesce: no more faults
    excused     \* history: the port is dark for a reason that does not end by itself

vars == <<poolVars, listenerVars, served, quiet, excused>>

TypeOK ==
    /\ PoolTypeOK
    /\ ListenerTypeOK
    /\ served \in [Calls -> Users \cup {Nobody}]
    /\ quiet \in BOOLEAN
    /\ excused \in BOOLEAN

Init ==
    /\ PoolInit
    /\ ListenerInit
    /\ served = [f \in Calls |-> Nobody]
    /\ quiet = FALSE
    /\ excused = FALSE

-----------------------------------------------------------------------------
(* The devices.                                                            *)

PoolStep ==
    /\ \/ ~quiet /\ \E c \in Calls, d \in Devices : AddClaims(c, d) \/ RemoveStarts(c, d)
       \/ \E c \in Calls :
           \/ AddRuns(c) \/ AddFindsPoolClosed(c)
           \/ AddReturns(c) \/ AddInterrupted(c) \/ RemoveReturns(c)
       \/ \E f \in Calls : Supervises(f) \/ Stops(f)
       \/ scope = "closed" /\ PoolCloses
    /\ UNCHANGED <<listenerVars, served, quiet, excused>>

\* An attempt finds the port up; one that does not changes nothing here.
Connects(f) ==
    /\ Dials(f)
    /\ \E u \in Users : binding[u] = "up" /\ served' = [served EXCEPT ![f] = u]
    /\ UNCHANGED <<listenerVars, quiet, excused>>

\* The socket goes: the link fails, the controller dropped it, or the
\* connection is released.
HangsUp(f) ==
    /\ LosesSocket(f) \/ Ends(f)
    /\ served' = [served EXCEPT ![f] = Nobody]
    /\ UNCHANGED <<listenerVars, quiet, excused>>

-----------------------------------------------------------------------------
(* The controller.                                                         *)

\* The sockets of a binding close with it.
HoldsSockets ==
    served' = [f \in Calls |->
        IF served[f] # Nobody /\ binding'[served[f]] = "none" THEN Nobody ELSE served[f]]

\* A fault is drawn where a frame is sent, over a socket.
Outage ==
    /\ ~quiet
    /\ \E f \in Calls : served[f] # Nobody
    /\ RefusesFor
    /\ UNCHANGED <<poolVars, served, quiet, excused>>

Quiesces ==
    /\ ~quiet
    /\ quiet' = TRUE
    /\ UNCHANGED <<poolVars, listenerVars, served, excused>>

\* A server or a port that fails leaves the port dark until somebody asks again.
GoesDark ==
    /\ \E u \in Users : PortIsTaken(u) \/ ServerFails(u)
    /\ excused' = TRUE
    /\ HoldsSockets
    /\ UNCHANGED <<poolVars, quiet>>

Windows == WindowOpens \/ WindowCloses

\* The operator who gives the port up wants it dark; it is not any more when
\* it is bound, by the operator or by an outage that ends.
PortStep(a) ==
    \/ GivesUpPort(a) /\ excused' = (excused \/ a = Operator)
    \/ IsBound(a) /\ excused' = (excused /\ binding[a] # "up")
    \/ /\ \/ PortIsGivenUp(a) \/ HasNoPort(a)
          \/ Binds(a) \/ NeedNotBind(a) \/ CannotBind(a)
       /\ UNCHANGED excused

Closing == Retires \/ Retired

ListenerStep ==
    /\ \/ \E a \in Askers : PortStep(a)
       \/ /\ \/ \E command \in {"down", "up"} : OperatorTypes(command)
             \/ Windows
             \/ \E u \in Users : Opens(u) \/ BindingEnds(u)
             \/ quiet /\ ScopeCloses
             \/ Closing
          /\ UNCHANGED excused
    /\ HoldsSockets
    /\ UNCHANGED <<poolVars, quiet>>

Next ==
    \/ PoolStep
    \/ \E f \in Calls : Connects(f) \/ HangsUp(f)
    \/ Outage
    \/ Quiesces
    \/ GoesDark
    \/ ListenerStep

Spec == Init /\ [][Next]_vars

\* What runs by itself: fibers that can go on do, a sleep ends, the network
\* answers, and tells a client of a socket that its peer closed.  Nobody has
\* to call, to type, or to close anything.
Fairness ==
    /\ \A c \in Calls :
        /\ WF_vars((AddRuns(c) \/ AddFindsPoolClosed(c) \/ AddReturns(c) \/ RemoveReturns(c))
                   /\ UNCHANGED <<listenerVars, served, quiet, excused>>)
        /\ WF_vars(Supervises(c) /\ UNCHANGED <<listenerVars, served, quiet, excused>>)
        /\ WF_vars(stopped[c] /\ Stops(c) /\ UNCHANGED <<listenerVars, served, quiet, excused>>)
        /\ WF_vars(Connects(c))
        /\ WF_vars((Ends(c) \/ served[c] = Nobody) /\ HangsUp(c))
    /\ WF_vars(Windows /\ ListenerStep)
    /\ \A a \in Askers : SF_vars(PortStep(a) /\ ListenerStep)
    /\ \A u \in Users :
        WF_vars((Opens(u) \/ BindingEnds(u)) /\ ListenerStep)
    /\ WF_vars(Closing /\ ListenerStep)

FairSpec == Spec /\ Fairness

-----------------------------------------------------------------------------
(* What the rig promises.                                                  *)

\* When the faults stop, every device that is in the pool gets a session
\* again, however outages and commands of the operator took the port from each
\* other, unless the operator or the machine keeps it dark (chaos.ts settle,
\* the outage loop of ControllerSimulator.ts:112-119).
DevicesComeBack ==
    \A f \in Calls :
        quiet /\ TaskIs(f, "running") ~>
            served[f] # Nobody \/ ~TaskIs(f, "running") \/ stopped[f] \/ excused \/ scope # "open"

\* Every add and every remove is answered (DevicePool.ts:100-108).
CallsAreAnswered == \A c \in Calls : ~CallIs(c, "idle") ~> CallIs(c, "idle")

=============================================================================
