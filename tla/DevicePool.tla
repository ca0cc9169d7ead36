----------------------------- MODULE DevicePool -----------------------------
(***************************************************************************)
(* Many controllers in one process, pool/DevicePool.ts: the slots that     *)
(* name the devices, the fiber that supervises each, and the calls that    *)
(* add and remove devices while others do the same.                        *)
(*                                                                         *)
(* The fiber an add starts is known by the call that started it.  FiberMap *)
(* is effect's: run puts a fiber under a key and interrupts the one it     *)
(* finds there, remove interrupts the fiber and waits for its end, and a   *)
(* fiber that ends takes its own entry out.  A call is interrupted only    *)
(* where it waits.                                                         *)
(***************************************************************************)
EXTENDS Naturals

CONSTANTS
    Devices,    \* DeviceId
    Calls,      \* fibers of the application that call the pool
    NoCall      \* not one of them

ASSUME NoCallAssumption == NoCall \notin Calls

VARIABLES
    slots,      \* of a device: free, claimed (O.none) or named (O.some)
    fibers,     \* the fiber the map holds for a device
    call,       \* what each call is doing, and for which device
    task,       \* the supervising fiber a call started
    socket,     \* whether that fiber's connection holds a socket
    stopped,    \* whether that fiber was interrupted
    poolClosed  \* the scope of the layer has closed

poolVars == <<slots, fibers, call, task, socket, stopped, poolClosed>>

CallSteps == {"idle", "claimed", "adding", "removing"}
TaskSteps == {"none", "making", "running", "closing"}

At(step, d, f) == [step |-> step, device |-> d, fiber |-> f]

PoolTypeOK ==
    /\ slots \in [Devices -> {"free", "claimed", "named"}]
    /\ fibers \in [Devices -> Calls \cup {NoCall}]
    /\ call \in [Calls -> [step : CallSteps, device : Devices, fiber : Calls \cup {NoCall}]]
    /\ task \in [Calls -> [step : TaskSteps, device : Devices, started : BOOLEAN]]
    /\ socket \in [Calls -> BOOLEAN]
    /\ stopped \in [Calls -> BOOLEAN]
    /\ poolClosed \in BOOLEAN

PoolInit ==
    /\ slots = [d \in Devices |-> "free"]
    /\ fibers = [d \in Devices |-> NoCall]
    /\ \E d \in Devices :
        /\ call = [c \in Calls |-> At("idle", d, NoCall)]
        /\ task = [c \in Calls |-> [step |-> "none", device |-> d, started |-> FALSE]]
    /\ socket = [c \in Calls |-> FALSE]
    /\ stopped = [c \in Calls |-> FALSE]
    /\ poolClosed = FALSE

CallIs(c, step) == call[c].step = step
TaskIs(f, step) == task[f].step = step

IsLive(f) == ~TaskIs(f, "none")

-----------------------------------------------------------------------------
(* add and remove.                                                         *)

Rests(c) == call' = [call EXCEPT ![c] = At("idle", @.device, NoCall)]

\* The fiber of the call's last add is gone, and nobody waits for its end.
MayAdd(c) ==
    /\ CallIs(c, "idle") /\ TaskIs(c, "none")
    /\ \A other \in Calls : CallIs(other, "removing") => call[other].fiber # c

\* A mutant: the duplicate is noticed, the claim is left to the fiber.
AddOnlyLooks(c, d) ==
    /\ MayAdd(c)
    /\ slots[d] = "free"
    /\ call' = [call EXCEPT ![c] = At("claimed", d, NoCall)]
    /\ UNCHANGED <<slots, fibers, task, socket, stopped, poolClosed>>

\* The slot is claimed in the step that finds it free; DeviceAlreadyAdded
\* leaves everything as it was.
AddClaims(c, d) ==
    /\ MayAdd(c)
    /\ slots[d] = "free"
    /\ slots' = [slots EXCEPT ![d] = "claimed"]
    /\ call' = [call EXCEPT ![c] = At("claimed", d, NoCall)]
    /\ UNCHANGED <<fibers, task, socket, stopped, poolClosed>>

Interrupts(f) == stopped' = [stopped EXCEPT ![f] = TRUE]

\* FiberMap.run starts the fiber at once.  A map that is closed interrupts the
\* caller instead.
AddRuns(c) ==
    LET d == call[c].device
    IN  /\ CallIs(c, "claimed")
        /\ ~poolClosed
        /\ call' = [call EXCEPT ![c] = At("adding", d, c)]
        /\ task' = [task EXCEPT ![c] = [step |-> "making", device |-> d, started |-> FALSE]]
        /\ fibers' = [fibers EXCEPT ![d] = c]
        /\ stopped' = [f \in Calls |-> IF f = c THEN FALSE ELSE stopped[f] \/ f = fibers[d]]
        /\ UNCHANGED <<slots, socket, poolClosed>>

AddFindsPoolClosed(c) ==
    /\ CallIs(c, "claimed")
    /\ poolClosed
    /\ Rests(c)
    /\ UNCHANGED <<slots, fibers, task, socket, stopped, poolClosed>>

\* A mutant: only started answers.
AddAwaitsStarted(c) ==
    /\ CallIs(c, "adding")
    /\ task[c].started
    /\ Rests(c)
    /\ UNCHANGED <<slots, fibers, task, socket, stopped, poolClosed>>

\* started answers the call; the end of the fiber does when started never will.
AddReturns(c) ==
    /\ CallIs(c, "adding")
    /\ task[c].started \/ TaskIs(c, "none")
    /\ Rests(c)
    /\ UNCHANGED <<slots, fibers, task, socket, stopped, poolClosed>>

\* The caller is interrupted while it waits.  The fiber is the pool's and goes on.
AddInterrupted(c) ==
    /\ CallIs(c, "adding")
    /\ Rests(c)
    /\ UNCHANGED <<slots, fibers, task, socket, stopped, poolClosed>>

\* A mutant: the fiber is told to stop, and not waited for.
RemoveForgets(c, d) ==
    /\ CallIs(c, "idle")
    /\ ~poolClosed /\ fibers[d] # NoCall
    /\ call' = [call EXCEPT ![c] = At("removing", d, NoCall)]
    /\ Interrupts(fibers[d])
    /\ UNCHANGED <<slots, fibers, task, socket, poolClosed>>

RemoveStarts(c, d) ==
    /\ CallIs(c, "idle")
    /\ ~poolClosed /\ fibers[d] # NoCall
    /\ call' = [call EXCEPT ![c] = At("removing", d, fibers[d])]
    /\ Interrupts(fibers[d])
    /\ UNCHANGED <<slots, fibers, task, socket, poolClosed>>

\* Fiber.interrupt waits for the end.
RemoveReturns(c) ==
    /\ CallIs(c, "removing")
    /\ call[c].fiber # NoCall => TaskIs(call[c].fiber, "none")
    /\ Rests(c)
    /\ UNCHANGED <<slots, fibers, task, socket, stopped, poolClosed>>

\* The layer's scope closes: the map interrupts every fiber it holds.
PoolCloses ==
    /\ ~poolClosed
    /\ poolClosed' = TRUE
    /\ stopped' = [f \in Calls |-> stopped[f] \/ \E d \in Devices : fibers[d] = f]
    /\ UNCHANGED <<slots, fibers, call, task, socket>>

-----------------------------------------------------------------------------
(* supervise, the fiber of one device.                                     *)

TaskGoes(f, step) == task' = [task EXCEPT ![f].step = step]

\* The connection is made and named, and started completed.
Supervises(f) ==
    /\ TaskIs(f, "making") /\ ~stopped[f]
    /\ slots' = [slots EXCEPT ![task[f].device] = "named"]
    /\ task' = [task EXCEPT ![f].step = "running", ![f].started = TRUE]
    /\ UNCHANGED <<fibers, call, socket, stopped, poolClosed>>

\* The supervisor of the connection, Connection's own subject.
Dials(f) ==
    /\ TaskIs(f, "running") /\ ~stopped[f] /\ ~socket[f]
    /\ socket' = [socket EXCEPT ![f] = TRUE]
    /\ UNCHANGED <<slots, fibers, call, task, stopped, poolClosed>>

LosesSocket(f) ==
    /\ TaskIs(f, "running") /\ socket[f]
    /\ socket' = [socket EXCEPT ![f] = FALSE]
    /\ UNCHANGED <<slots, fibers, call, task, stopped, poolClosed>>

\* A mutant: ensuring inside the scope, so the slot is given up as the closing begins.
StopsGivingUpSlot(f) ==
    /\ TaskIs(f, "making") \/ (TaskIs(f, "running") /\ stopped[f])
    /\ TaskGoes(f, "closing")
    /\ slots' = [slots EXCEPT ![task[f].device] = "free"]
    /\ UNCHANGED <<fibers, call, socket, stopped, poolClosed>>

\* A defect in make, or an interruption: the scope starts to close.
Stops(f) ==
    /\ TaskIs(f, "making") \/ (TaskIs(f, "running") /\ stopped[f])
    /\ TaskGoes(f, "closing")
    /\ UNCHANGED <<slots, fibers, call, socket, stopped, poolClosed>>

\* A mutant: the slot is freed by a finalizer that a failing make never reaches.
EndsIfStarted(f) ==
    /\ TaskIs(f, "closing")
    /\ task' = [task EXCEPT ![f].step = "none", ![f].started = FALSE]
    /\ socket' = [socket EXCEPT ![f] = FALSE]
    /\ slots' = IF task[f].started THEN [slots EXCEPT ![task[f].device] = "free"] ELSE slots
    /\ fibers' = [d \in Devices |-> IF fibers[d] = f THEN NoCall ELSE fibers[d]]
    /\ stopped' = [stopped EXCEPT ![f] = FALSE]
    /\ UNCHANGED <<call, poolClosed>>

\* The finalizer of the connection has closed it, goodbye said and socket
\* released; ensuring frees the slot, and the fiber ends.  Nothing suspends it
\* from there on.  The entry it takes out is its own.
Ends(f) ==
    /\ TaskIs(f, "closing")
    /\ task' = [task EXCEPT ![f].step = "none", ![f].started = FALSE]
    /\ socket' = [socket EXCEPT ![f] = FALSE]
    /\ slots' = [slots EXCEPT ![task[f].device] = "free"]
    /\ fibers' = [d \in Devices |-> IF fibers[d] = f THEN NoCall ELSE fibers[d]]
    /\ stopped' = [stopped EXCEPT ![f] = FALSE]
    /\ UNCHANGED <<call, poolClosed>>

-----------------------------------------------------------------------------
PoolNext ==
    \/ \E c \in Calls, d \in Devices : AddClaims(c, d) \/ RemoveStarts(c, d)
    \/ \E c \in Calls :
        \/ AddRuns(c) \/ AddFindsPoolClosed(c)
        \/ AddReturns(c) \/ AddInterrupted(c) \/ RemoveReturns(c)
    \/ \E f \in Calls :
        \/ Supervises(f) \/ Dials(f) \/ LosesSocket(f)
        \/ Stops(f) \/ Ends(f)
    \/ PoolCloses

PoolSpec == PoolInit /\ [][PoolNext]_poolVars

-----------------------------------------------------------------------------
(* What the pool promises.                                                 *)

\* Adding a device starts exactly one fiber: two fibers never hold a
\* connection to the same device, whatever adds and removes race (add,
\* supervise, DevicePool.ts:71-106).
OneFiberPerDevice ==
    \A f, g \in Calls :
        IsLive(f) /\ IsLive(g) /\ task[f].device = task[g].device => f = g

\* No slot outlives what it stands for: a slot that is taken is an add's that
\* has yet to run its fiber, or a live fiber's that a remove would find.
SlotsAreHeld ==
    \A d \in Devices :
        slots[d] # "free" =>
            \/ \E c \in Calls : CallIs(c, "claimed") /\ call[c].device = d
            \/ \E f \in Calls : IsLive(f) /\ task[f].device = d /\ fibers[d] = f
            \/ poolClosed

\* A live fiber can be reached: the map holds it, or it has been told to stop.
LiveIsReachable ==
    \A f \in Calls :
        IsLive(f) => slots[task[f].device] # "free" /\ (fibers[task[f].device] = f \/ stopped[f])

\* A remove that returns has released the socket of the connection it found
\* (remove, DevicePool.ts:108): once the last of the removes under way is back,
\* no connection to the device that was told to stop holds a socket.
RemoveReleases ==
    [][\A c \in Calls :
        /\ CallIs(c, "removing") /\ call'[c].step = "idle"
        /\ \A other \in Calls \ {c} : ~CallIs(other, "removing")
        /\ ~poolClosed
        => \A f \in Calls : socket[f] /\ stopped[f] => task[f].device # call[c].device]_poolVars
=============================================================================
