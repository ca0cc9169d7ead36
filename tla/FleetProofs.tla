---------------------------- MODULE FleetProofs -----------------------------
(***************************************************************************)
(* The safety of the two ends of a fleet: the pool that owns the devices,  *)
(* for any number of devices and calls, and the simulated controller they  *)
(* connect to, for any number of connections, results and attempts and any *)
(* faults.                                                                 *)
(*                                                                         *)
(* In the pool, that two adds cannot both win rests on the slot: it is     *)
(* taken from the claim to the end of the fiber.  The inductive invariant  *)
(* says so from each side: a claim, a live fiber and an entry of the map   *)
(* all stand for a taken slot, exclude each other, and name each other.    *)
(* Module Fleet is shown to use the pool by its own operations only.       *)
(*                                                                         *)
(* In the controller, fibers share one session state while the connection  *)
(* they were started for may have been replaced.  What makes the newest    *)
(* connection the current one is that connections are opened in order and  *)
(* that whoever unhooks one names it.                                      *)
(***************************************************************************)
EXTENDS Fleet, Simulator, TLAPS

-----------------------------------------------------------------------------
(* The pool.                                                               *)

\* A call that claimed a device has no fiber yet, and is alone with it.
ClaimsAreAlone ==
    \A c \in Calls : CallIs(c, "claimed") =>
        /\ TaskIs(c, "none")
        /\ slots[call[c].device] # "free"
        /\ \A e \in Calls :
              CallIs(e, "claimed") /\ call[e].device = call[c].device => e = c
        /\ \A f \in Calls : IsLive(f) => task[f].device # call[c].device

\* A live fiber is what the map holds for its device, and its slot is taken.
LivesAreHeld ==
    \A f \in Calls : IsLive(f) =>
        /\ fibers[task[f].device] = f
        /\ slots[task[f].device] # "free"

\* What the map holds is live and under the name of its device.
HeldIsLive ==
    \A d \in Devices : fibers[d] # NoCall =>
        IsLive(fibers[d]) /\ task[fibers[d]].device = d

\* Only live fibers hold sockets and are told to stop, and as long as the pool
\* is open it is a remove under way that told them.
StopsAreRemoves ==
    \A f \in Calls :
        /\ socket[f] => IsLive(f)
        /\ stopped[f] => IsLive(f)
        /\ stopped[f] /\ ~poolClosed =>
              \E c \in Calls : CallIs(c, "removing") /\ call[c].fiber = f

PoolInv ==
    /\ PoolTypeOK
    /\ ClaimsAreAlone
    /\ LivesAreHeld
    /\ HeldIsLive
    /\ StopsAreRemoves
    /\ SlotsAreHeld

-----------------------------------------------------------------------------
(* The parts of the invariant that an action leaves alone.                 *)
LEMMA ClaimsKept ==
    ASSUME ClaimsAreAlone, UNCHANGED <<slots, call, task>>
    PROVE  ClaimsAreAlone'
BY DEF ClaimsAreAlone, CallIs, TaskIs, IsLive

LEMMA LivesKept ==
    ASSUME LivesAreHeld, UNCHANGED <<slots, fibers, task>>
    PROVE  LivesAreHeld'
BY DEF LivesAreHeld, TaskIs, IsLive

LEMMA HeldKept ==
    ASSUME HeldIsLive, UNCHANGED <<fibers, task>>
    PROVE  HeldIsLive'
BY DEF HeldIsLive, TaskIs, IsLive

LEMMA StopsKept ==
    ASSUME StopsAreRemoves, UNCHANGED <<call, task, socket, stopped, poolClosed>>
    PROVE  StopsAreRemoves'
BY DEF StopsAreRemoves, CallIs, TaskIs, IsLive

LEMMA SlotsKept ==
    ASSUME SlotsAreHeld, UNCHANGED <<slots, fibers, call, task, poolClosed>>
    PROVE  SlotsAreHeld'
BY DEF SlotsAreHeld, CallIs, TaskIs, IsLive

-----------------------------------------------------------------------------
(* The pool starts empty (make).                                           *)
LEMMA PoolStarts == PoolInit => PoolInv
<1> SUFFICES ASSUME PoolInit PROVE PoolInv
    OBVIOUS
<1> USE DEF PoolInit
<1>0. PICK d \in Devices :
        /\ call = [c \in Calls |-> At("idle", d, NoCall)]
        /\ task = [c \in Calls |-> [step |-> "none", device |-> d, started |-> FALSE]]
  OBVIOUS
<1>1. PoolTypeOK
  BY <1>0 DEF PoolTypeOK, At, CallSteps, TaskSteps
<1>2. ClaimsAreAlone /\ LivesAreHeld /\ HeldIsLive /\ StopsAreRemoves /\ SlotsAreHeld
  BY <1>0 DEF ClaimsAreAlone, LivesAreHeld, HeldIsLive, StopsAreRemoves, SlotsAreHeld,
         CallIs, TaskIs, IsLive, At
<1>3. QED
  BY <1>1, <1>2 DEF PoolInv

(* A claim takes a free slot, so nobody else can hold the device (add).    *)
LEMMA AddClaimsKeeps ==
    ASSUME PoolInv, NEW c \in Calls, NEW d \in Devices, AddClaims(c, d)
    PROVE  PoolInv'
<1> USE DEF PoolInv, AddClaims, CallIs, TaskIs, IsLive, At
<1>1. PoolTypeOK'
  BY DEF PoolTypeOK, CallSteps
<1>2. /\ call[c].step = "idle" /\ task[c].step = "none" /\ slots[d] = "free"
      /\ call'[c].step = "claimed" /\ call'[c].device = d
      /\ \A e \in Calls : e # c => call'[e] = call[e]
      /\ slots'[d] = "claimed" /\ \A x \in Devices : x # d => slots'[x] = slots[x]
      /\ UNCHANGED <<fibers, task, socket, stopped, poolClosed>>
  BY DEF MayAdd, PoolTypeOK
<1>3. ClaimsAreAlone'
  BY <1>2 DEF ClaimsAreAlone, LivesAreHeld, PoolTypeOK
<1>4. LivesAreHeld'
  BY <1>2 DEF LivesAreHeld, PoolTypeOK
<1>5. HeldIsLive'
  BY <1>2, HeldKept
<1>6. StopsAreRemoves'
  BY <1>2 DEF StopsAreRemoves
<1>7. SlotsAreHeld'
  BY <1>2 DEF SlotsAreHeld, PoolTypeOK
<1>8. QED
  BY <1>1, <1>3, <1>4, <1>5, <1>6, <1>7

(* The claim turns into the fiber; the map held nothing for the device.    *)
LEMMA AddRunsKeeps ==
    ASSUME PoolInv, NEW c \in Calls, AddRuns(c)
    PROVE  PoolInv'
<1> DEFINE d == call[c].device
<1> USE DEF PoolInv, CallIs, TaskIs, IsLive
<1>0. d \in Devices
  BY DEF PoolTypeOK
<1>1. fibers[d] = NoCall
  BY <1>0 DEF AddRuns, ClaimsAreAlone, HeldIsLive, PoolTypeOK
<1>2. /\ call[c].step = "claimed" /\ task[c].step = "none" /\ ~poolClosed
      /\ call'[c].step = "adding"
      /\ \A e \in Calls : e # c => call'[e] = call[e]
      /\ task'[c].step = "making" /\ task'[c].device = d
      /\ \A e \in Calls : e # c => task'[e] = task[e]
      /\ fibers'[d] = c /\ \A x \in Devices : x # d => fibers'[x] = fibers[x]
      /\ ~stopped'[c] /\ \A f \in Calls : f # c => stopped'[f] = stopped[f]
      /\ UNCHANGED <<slots, socket, poolClosed>>
  BY <1>0, <1>1, NoCallAssumption DEF AddRuns, ClaimsAreAlone, PoolTypeOK, At
<1>3. PoolTypeOK'
  BY <1>0 DEF AddRuns, At, PoolTypeOK, CallSteps, TaskSteps
<1>4. ClaimsAreAlone'
  BY <1>0, <1>2 DEF ClaimsAreAlone
<1>5. LivesAreHeld'
  BY <1>0, <1>2 DEF LivesAreHeld, ClaimsAreAlone, PoolTypeOK
<1>6. HeldIsLive'
  BY <1>0, <1>2 DEF HeldIsLive, PoolTypeOK
<1>7. StopsAreRemoves'
  BY <1>0, <1>2 DEF StopsAreRemoves
<1>8. SlotsAreHeld'
  <2> SUFFICES ASSUME NEW x \in Devices, slots'[x] # "free"
               PROVE  \/ \E e \in Calls : call'[e].step = "claimed" /\ call'[e].device = x
                      \/ \E f \in Calls :
                           task'[f].step # "none" /\ task'[f].device = x /\ fibers'[x] = f
    BY DEF SlotsAreHeld
  <2>1. CASE x = d
    BY <1>2, <2>1
  <2>2. CASE x # d
    <3>1. CASE \E e \in Calls : call[e].step = "claimed" /\ call[e].device = x
      BY <1>2, <2>2, <3>1
    <3>2. CASE \E f \in Calls :
                  task[f].step # "none" /\ task[f].device = x /\ fibers[x] = f
      BY <1>2, <2>2, <3>2
    <3>3. QED
      BY <1>2, <3>1, <3>2 DEF SlotsAreHeld
  <2>3. QED
    BY <2>1, <2>2
<1>9. QED
  BY <1>3, <1>4, <1>5, <1>6, <1>7, <1>8

(* A call that gives up, or returns, leaves the device to its fiber.       *)
LEMMA RestsKeeps ==
    ASSUME PoolInv, NEW c \in Calls, Rests(c),
           UNCHANGED <<slots, fibers, task, socket, stopped, poolClosed>>,
           CallIs(c, "claimed") => poolClosed,
           CallIs(c, "removing") =>
               \A f \in Calls : call[c].fiber = f => TaskIs(f, "none")
    PROVE  PoolInv'
<1> USE DEF PoolInv, Rests, At, CallIs, TaskIs, IsLive
<1>1. PoolTypeOK'
  BY DEF PoolTypeOK, CallSteps
<1>2. /\ call'[c].step = "idle"
      /\ \A e \in Calls : e # c => call'[e] = call[e]
  BY DEF PoolTypeOK
<1>3. ClaimsAreAlone'
  BY <1>2 DEF ClaimsAreAlone
<1>4. LivesAreHeld' /\ HeldIsLive'
  BY LivesKept, HeldKept
<1>5. StopsAreRemoves'
  BY <1>2 DEF StopsAreRemoves
<1>6. SlotsAreHeld'
  BY <1>2 DEF SlotsAreHeld
<1>7. QED
  BY <1>1, <1>3, <1>4, <1>5, <1>6

(* A remove tells the live fiber it finds to stop, and waits for it.       *)
LEMMA RemoveStartsKeeps ==
    ASSUME PoolInv, NEW c \in Calls, NEW d \in Devices, RemoveStarts(c, d)
    PROVE  PoolInv'
<1> USE DEF PoolInv, RemoveStarts, At, CallIs, TaskIs, IsLive
<1>1. PoolTypeOK'
  BY DEF PoolTypeOK, CallSteps, Interrupts
<1>2. /\ call[c].step = "idle" /\ fibers[d] \in Calls
      /\ call'[c].step = "removing" /\ call'[c].fiber = fibers[d]
      /\ \A e \in Calls : e # c => call'[e] = call[e]
      /\ \A f \in Calls : f # fibers[d] => stopped'[f] = stopped[f]
      /\ UNCHANGED <<slots, fibers, task, socket, poolClosed>>
  BY DEF PoolTypeOK, Interrupts
<1>3. ClaimsAreAlone'
  BY <1>2 DEF ClaimsAreAlone
<1>4. LivesAreHeld' /\ HeldIsLive'
  BY <1>2, LivesKept, HeldKept
<1>5. StopsAreRemoves'
  BY <1>2 DEF StopsAreRemoves, HeldIsLive
<1>6. SlotsAreHeld'
  BY <1>2 DEF SlotsAreHeld
<1>7. QED
  BY <1>1, <1>3, <1>4, <1>5, <1>6

(* The pool's close tells the live fibers it finds, and owes nothing more. *)
LEMMA PoolClosesKeeps ==
    ASSUME PoolInv, PoolCloses
    PROVE  PoolInv'
<1> USE DEF PoolInv, PoolCloses
<1>1. PoolTypeOK'
  BY DEF PoolTypeOK
<1>2. ClaimsAreAlone' /\ LivesAreHeld' /\ HeldIsLive'
  BY ClaimsKept, LivesKept, HeldKept
<1>3. StopsAreRemoves'
  BY NoCallAssumption DEF StopsAreRemoves, HeldIsLive, TaskIs, IsLive, PoolTypeOK
<1>4. SlotsAreHeld'
  BY DEF SlotsAreHeld
<1>5. QED
  BY <1>1, <1>2, <1>3, <1>4

(* Until it ends, what a fiber does changes neither its device nor its     *)
(* life, and leaves its slot taken (supervise).                            *)
LEMMA FiberStepKeeps ==
    ASSUME PoolInv, PoolTypeOK', NEW f \in Calls, IsLive(f), IsLive(f)',
           task'[f].device = task[f].device,
           \A g \in Calls : g # f => task'[g] = task[g] /\ socket'[g] = socket[g],
           \A d \in Devices : slots'[d] # slots[d] => d = task[f].device /\ slots'[d] = "named",
           UNCHANGED <<fibers, call, stopped, poolClosed>>
    PROVE  PoolInv'
<1> USE DEF PoolInv, CallIs, TaskIs, IsLive
<1>0. /\ \A g \in Calls :
            task'[g].device = task[g].device /\ (task'[g].step = "none" <=> task[g].step = "none")
      /\ \A d \in Devices : slots[d] # "free" => slots'[d] # "free"
      /\ \A g \in Calls : task[g].device \in Devices /\ call[g].device \in Devices
      /\ \A d \in Devices : fibers[d] \in Calls \cup {NoCall}
  BY DEF PoolTypeOK
<1>1. ClaimsAreAlone'
  <2> SUFFICES ASSUME NEW c \in Calls, call[c].step = "claimed"
               PROVE  /\ task'[c].step = "none"
                      /\ slots'[call[c].device] # "free"
                      /\ \A e \in Calls :
                            call[e].step = "claimed" /\ call[e].device = call[c].device => e = c
                      /\ \A g \in Calls :
                            task'[g].step # "none" => task'[g].device # call[c].device
    BY DEF ClaimsAreAlone
  <2>1. QED
    BY <1>0 DEF ClaimsAreAlone
<1>2. LivesAreHeld'
  BY <1>0 DEF LivesAreHeld
<1>3. HeldIsLive'
  BY <1>0 DEF HeldIsLive
<1>4. StopsAreRemoves'
  BY DEF StopsAreRemoves
<1>5. SlotsAreHeld'
  <2> SUFFICES ASSUME NEW d \in Devices, slots'[d] # "free"
               PROVE  \/ \E c \in Calls : call[c].step = "claimed" /\ call[c].device = d
                      \/ \E g \in Calls :
                           task'[g].step # "none" /\ task'[g].device = d /\ fibers[d] = g
                      \/ poolClosed
    BY DEF SlotsAreHeld
  <2>1. CASE d = task[f].device
    BY <1>0, <2>1 DEF LivesAreHeld
  <2>2. CASE d # task[f].device
    <3>1. slots[d] # "free"
      BY <2>2
    <3>2. QED
      BY <1>0, <3>1 DEF SlotsAreHeld
  <2>3. QED
    BY <2>1, <2>2
<1>6. QED
  BY <1>1, <1>2, <1>3, <1>4, <1>5

LEMMA SupervisesKeeps ==
    ASSUME PoolInv, NEW f \in Calls, Supervises(f)
    PROVE  PoolInv'
<1> USE DEF PoolInv, Supervises, CallIs, TaskIs, IsLive
<1>1. PoolTypeOK'
  BY ZenonT(40) DEF PoolTypeOK, TaskSteps
<1>2. /\ task[f].step = "making" /\ task'[f].step = "running"
      /\ task'[f].device = task[f].device
      /\ \A g \in Calls : g # f => task'[g] = task[g]
      /\ \A d \in Devices : slots'[d] # slots[d] => d = task[f].device /\ slots'[d] = "named"
  BY DEF PoolTypeOK
<1>3. QED
  BY <1>1, <1>2, FiberStepKeeps

LEMMA StopsKeeps ==
    ASSUME PoolInv, NEW f \in Calls, Stops(f)
    PROVE  PoolInv'
<1> USE DEF PoolInv, Stops, TaskGoes, CallIs, TaskIs, IsLive
<1>1. PoolTypeOK'
  BY DEF PoolTypeOK, TaskSteps
<1>2. /\ task[f].step # "none" /\ task'[f].step = "closing"
      /\ task'[f].device = task[f].device
      /\ \A g \in Calls : g # f => task'[g] = task[g]
  BY DEF PoolTypeOK
<1>3. QED
  BY <1>1, <1>2, FiberStepKeeps

LEMMA SocketStepKeeps ==
    ASSUME PoolInv, NEW f \in Calls, Dials(f) \/ LosesSocket(f)
    PROVE  PoolInv'
<1> USE DEF PoolInv, Dials, LosesSocket, CallIs, TaskIs, IsLive
<1>1. PoolTypeOK'
  BY DEF PoolTypeOK
<1>2. /\ task[f].step = "running" /\ UNCHANGED <<slots, fibers, call, task, stopped, poolClosed>>
      /\ \A g \in Calls : g # f => socket'[g] = socket[g]
  BY DEF PoolTypeOK
<1>3. QED
  BY <1>1, <1>2, FiberStepKeeps

(* The fiber ends with its slot and its entry; no other names the device.  *)
LEMMA EndsKeeps ==
    ASSUME PoolInv, NEW f \in Calls, Ends(f)
    PROVE  PoolInv'
<1> DEFINE d == task[f].device
<1> USE DEF PoolInv, CallIs, TaskIs, IsLive
<1>0. d \in Devices /\ f # NoCall
  BY NoCallAssumption DEF PoolTypeOK
<1>1. PoolTypeOK'
  <2>1. task' \in [Calls -> [step : TaskSteps, device : Devices, started : BOOLEAN]]
    <3> DEFINE R == [step : TaskSteps, device : Devices, started : BOOLEAN]
               r == [task[f] EXCEPT !.step = "none"]
    <3>1. task[f] \in R
      BY DEF PoolTypeOK
    <3>2. r \in R
      BY <3>1 DEF TaskSteps
    <3>3. [r EXCEPT !.started = FALSE] \in R
      BY <3>2
    <3>4. task' = [task EXCEPT ![f] = [r EXCEPT !.started = FALSE]]
      BY DEF Ends, PoolTypeOK
    <3> HIDE DEF r
    <3>5. QED
      BY <3>3, <3>4 DEF PoolTypeOK
  <2>2. slots' \in [Devices -> {"free", "claimed", "named"}]
    BY <1>0 DEF Ends, PoolTypeOK
  <2>3. fibers' \in [Devices -> Calls \cup {NoCall}]
    BY DEF Ends, PoolTypeOK
  <2>4. socket' \in [Calls -> BOOLEAN] /\ stopped' \in [Calls -> BOOLEAN]
    BY DEF Ends, PoolTypeOK
  <2>5. QED
    BY <2>1, <2>2, <2>3, <2>4 DEF Ends, PoolTypeOK
<1>2. /\ task[f].step = "closing" /\ task'[f].step = "none"
      /\ \A g \in Calls : g # f => task'[g] = task[g]
      /\ ~socket'[f] /\ \A g \in Calls : g # f => socket'[g] = socket[g]
      /\ ~stopped'[f] /\ \A g \in Calls : g # f => stopped'[g] = stopped[g]
      /\ slots'[d] = "free" /\ \A x \in Devices : x # d => slots'[x] = slots[x]
      /\ UNCHANGED <<call, poolClosed>>
  BY <1>0 DEF Ends, PoolTypeOK
<1>3. fibers[d] = f
  BY <1>2 DEF LivesAreHeld
<1>4. fibers'[d] = NoCall /\ \A x \in Devices : x # d => fibers'[x] = fibers[x]
  <2>1. \A x \in Devices : fibers[x] = f => x = d
    BY <1>0 DEF HeldIsLive
  <2>2. QED
    BY <1>0, <1>3, <2>1 DEF Ends, PoolTypeOK
<1>5. ClaimsAreAlone'
  <2> SUFFICES ASSUME NEW c \in Calls, call[c].step = "claimed"
               PROVE  /\ task'[c].step = "none"
                      /\ slots'[call[c].device] # "free"
                      /\ \A e \in Calls :
                            call[e].step = "claimed" /\ call[e].device = call[c].device => e = c
                      /\ \A g \in Calls :
                            task'[g].step # "none" => task'[g].device # call[c].device
    BY <1>2 DEF ClaimsAreAlone
  <2>1. call[c].device # d /\ call[c].device \in Devices
    BY <1>2 DEF ClaimsAreAlone, PoolTypeOK
  <2>2. QED
    BY <1>2, <2>1 DEF ClaimsAreAlone
<1>6. LivesAreHeld'
  BY <1>0, <1>2, <1>3, <1>4 DEF LivesAreHeld, PoolTypeOK
<1>7. HeldIsLive'
  BY <1>0, <1>2, <1>3, <1>4 DEF HeldIsLive, PoolTypeOK
<1>8. StopsAreRemoves'
  BY <1>2 DEF StopsAreRemoves
<1>9. SlotsAreHeld'
  <2> SUFFICES ASSUME NEW x \in Devices, slots'[x] # "free"
               PROVE  \/ \E c \in Calls : call[c].step = "claimed" /\ call[c].device = x
                      \/ \E g \in Calls :
                           task'[g].step # "none" /\ task'[g].device = x /\ fibers'[x] = g
                      \/ poolClosed
    BY <1>2 DEF SlotsAreHeld
  <2>1. x # d /\ slots[x] # "free"
    BY <1>2
  <2>2. \A g \in Calls : task[g].device = x => g # f
    BY <2>1
  <2>3. CASE \E g \in Calls :
                task[g].step # "none" /\ task[g].device = x /\ fibers[x] = g
    BY <1>2, <1>4, <2>1, <2>2, <2>3
  <2>4. QED
    BY <2>1, <2>3 DEF SlotsAreHeld
<1>10. QED
  BY <1>1, <1>5, <1>6, <1>7, <1>8, <1>9

-----------------------------------------------------------------------------
(* Every step of the pool keeps the invariant.                             *)
LEMMA PoolStepKeeps == PoolInv /\ [PoolNext]_poolVars => PoolInv'
<1> SUFFICES ASSUME PoolInv, [PoolNext]_poolVars PROVE PoolInv'
    OBVIOUS
<1>1. ASSUME NEW c \in Calls, NEW d \in Devices, AddClaims(c, d) PROVE PoolInv'
  BY <1>1, AddClaimsKeeps
<1>2. ASSUME NEW c \in Calls, NEW d \in Devices, RemoveStarts(c, d) PROVE PoolInv'
  BY <1>2, RemoveStartsKeeps
<1>3. ASSUME NEW c \in Calls, AddRuns(c) PROVE PoolInv'
  BY <1>3, AddRunsKeeps
<1>4. ASSUME NEW c \in Calls, AddFindsPoolClosed(c) PROVE PoolInv'
  BY <1>4, RestsKeeps DEF AddFindsPoolClosed, CallIs
<1>5. ASSUME NEW c \in Calls, AddReturns(c) \/ AddInterrupted(c) PROVE PoolInv'
  BY <1>5, RestsKeeps DEF AddReturns, AddInterrupted, CallIs
<1>6. ASSUME NEW c \in Calls, RemoveReturns(c) PROVE PoolInv'
  <2>1. \A f \in Calls : call[c].fiber = f => TaskIs(f, "none")
    BY <1>6, NoCallAssumption DEF RemoveReturns
  <2>2. QED
    BY <1>6, <2>1, RestsKeeps DEF RemoveReturns, CallIs
<1>7. ASSUME NEW f \in Calls, Supervises(f) PROVE PoolInv'
  BY <1>7, SupervisesKeeps
<1>8. ASSUME NEW f \in Calls, Dials(f) \/ LosesSocket(f) PROVE PoolInv'
  BY <1>8, SocketStepKeeps
<1>9. ASSUME NEW f \in Calls, Stops(f) PROVE PoolInv'
  BY <1>9, StopsKeeps
<1>10. ASSUME NEW f \in Calls, Ends(f) PROVE PoolInv'
  BY <1>10, EndsKeeps
<1>11. CASE PoolCloses
  BY <1>11, PoolClosesKeeps
<1>12. CASE UNCHANGED poolVars
  <2>1. PoolTypeOK'
    BY <1>12 DEF poolVars, PoolInv, PoolTypeOK
  <2>2. QED
    BY <1>12, <2>1, ClaimsKept, LivesKept, HeldKept, StopsKept, SlotsKept
       DEF poolVars, PoolInv
<1>13. QED
  BY <1>1, <1>2, <1>3, <1>4, <1>5, <1>6, <1>7, <1>8, <1>9, <1>10, <1>11, <1>12
     DEF PoolNext

LEMMA PoolInvariant == PoolSpec => []PoolInv
BY PoolStarts, PoolStepKeeps, PTL DEF PoolSpec

-----------------------------------------------------------------------------
(* The state of the pool is always of its types.                           *)
THEOREM PoolTyped == PoolSpec => []PoolTypeOK
<1>1. PoolInv => PoolTypeOK
  BY DEF PoolInv
<1>2. QED
  BY <1>1, PoolInvariant, PTL

(* Whatever adds and removes race, a device has one fiber (add, supervise, *)
(* DevicePool.ts:71-106).                                                  *)
THEOREM AlwaysOneFiberPerDevice == PoolSpec => []OneFiberPerDevice
<1>1. PoolInv => OneFiberPerDevice
  BY DEF PoolInv, LivesAreHeld, OneFiberPerDevice
<1>2. QED
  BY <1>1, PoolInvariant, PTL

(* No slot is left over, by a defect or an interruption at any step.       *)
THEOREM SlotsAreAlwaysHeld == PoolSpec => []SlotsAreHeld
<1>1. PoolInv => SlotsAreHeld
  BY DEF PoolInv
<1>2. QED
  BY <1>1, PoolInvariant, PTL

(* A remove can reach every live fiber.                                    *)
THEOREM LiveIsAlwaysReachable == PoolSpec => []LiveIsReachable
<1>1. PoolInv => LiveIsReachable
  BY DEF PoolInv, LivesAreHeld, LiveIsReachable
<1>2. QED
  BY <1>1, PoolInvariant, PTL

(* When the last remove under way returns, no fiber that was told to stop  *)
(* still holds a socket (remove, DevicePool.ts:108).                       *)
THEOREM RemoveAlwaysReleases == PoolSpec => RemoveReleases
<1> DEFINE Released ==
        \A c \in Calls :
            /\ CallIs(c, "removing") /\ call'[c].step = "idle"
            /\ \A other \in Calls \ {c} : ~CallIs(other, "removing")
            /\ ~poolClosed
            => \A f \in Calls : socket[f] /\ stopped[f] => task[f].device # call[c].device
<1>1. PoolInv /\ [PoolNext]_poolVars => [Released]_poolVars
  <2> SUFFICES ASSUME PoolInv, PoolNext, NEW c \in Calls,
                      CallIs(c, "removing"), call'[c].step = "idle",
                      \A other \in Calls \ {c} : ~CallIs(other, "removing"),
                      ~poolClosed, NEW f \in Calls, stopped[f]
               PROVE  FALSE
    OBVIOUS
  <2>1. call[c].fiber = f /\ IsLive(f)
    BY DEF PoolInv, StopsAreRemoves
  <2>2. RemoveReturns(c)
    <3>1. ASSUME NEW e \in Calls, NEW d \in Devices,
                 AddClaims(e, d) \/ RemoveStarts(e, d)
          PROVE  FALSE
      BY <3>1 DEF AddClaims, MayAdd, RemoveStarts, CallIs, At, PoolInv, PoolTypeOK
    <3>2. ASSUME NEW e \in Calls,
                 AddRuns(e) \/ AddFindsPoolClosed(e) \/ AddReturns(e) \/ AddInterrupted(e)
          PROVE  FALSE
      BY <3>2 DEF AddRuns, AddFindsPoolClosed, AddReturns, AddInterrupted, Rests,
                  CallIs, At, PoolInv, PoolTypeOK
    <3>3. ASSUME NEW e \in Calls, RemoveReturns(e)
          PROVE  e = c
      BY <3>3 DEF RemoveReturns, CallIs
    <3>4. ASSUME NEW g \in Calls,
                 Supervises(g) \/ Dials(g) \/ LosesSocket(g) \/ Stops(g) \/ Ends(g)
          PROVE  FALSE
      BY <3>4 DEF Supervises, Dials, LosesSocket, Stops, Ends, CallIs
    <3>5. ~PoolCloses
      BY DEF PoolCloses, CallIs
    <3>6. QED
      BY <3>1, <3>2, <3>3, <3>4, <3>5 DEF PoolNext
  <2>3. QED
    BY <2>1, <2>2, NoCallAssumption DEF RemoveReturns, IsLive, TaskIs
<1>2. QED
  BY <1>1, PoolInvariant, PTL DEF PoolSpec, RemoveReleases

-----------------------------------------------------------------------------
\* A fleet's devices come and go through the pool's own operations, whatever
\* the port, the outages and the operator do (DevicePool.ts:71-108).
THEOREM FleetUsesThePool == Spec => PoolSpec
<1>1. Init => PoolInit
  BY DEF Init
<1>2. ASSUME [Next]_vars
      PROVE  [PoolNext]_poolVars
  <2>1. CASE PoolStep
    BY <2>1 DEF PoolStep, PoolNext
  <2>2. ASSUME NEW f \in Calls, Connects(f) \/ HangsUp(f)
        PROVE  PoolNext
    BY <2>2 DEF Connects, HangsUp, PoolNext
  <2>3. CASE Outage \/ Quiesces \/ GoesDark \/ ListenerStep
    BY <2>3 DEF Outage, Quiesces, GoesDark, ListenerStep
  <2>4. CASE UNCHANGED vars
    BY <2>4 DEF vars
  <2> QED
    BY <1>2, <2>1, <2>2, <2>3, <2>4 DEF Next
<1> QED
  BY <1>1, <1>2, PTL DEF Spec, PoolSpec

\* So in a chaos run, too, no slot is left over, no two fibers run one device
\* and every live fiber is within a remove's reach (DevicePool.ts:71-108).
THEOREM FleetKeepsThePool ==
    Spec => [](OneFiberPerDevice /\ SlotsAreHeld /\ LiveIsReachable) /\ RemoveReleases
BY FleetUsesThePool, AlwaysOneFiberPerDevice, SlotsAreAlwaysHeld,
   LiveIsAlwaysReachable, RemoveAlwaysReleases, PTL

-----------------------------------------------------------------------------
(* The simulated controller.                                               *)

Serving == {"none", "reading", "replying", "ended"}

\* The part of the state that says which connection is which.
Wired ==
    /\ serve \in [Connections -> Serving]
    /\ closed \in [Connections -> BOOLEAN]
    /\ current \in Connections \cup {None}

\* No connection is accepted before those opened earlier.
Ordered ==
    \A c \in Connections : serve[c] # "none" => \A b \in 1 .. c - 1 : serve[b] # "none"

\* Nobody is served on the connection but its fiber: c is the last one opened.
Newest(c) ==
    /\ serve[c] \notin {"none", "ended"}
    /\ \A d \in Connections : d > c => serve[d] = "none"

SimulatorInv == Wired /\ Ordered /\ NewestIsCurrent

\* How a connection may be unhooked: by one who names it, or because it is closed.
Unhooks ==
    /\ closed' \in [Connections -> BOOLEAN]
    /\ \A c \in Connections : closed[c] => closed'[c]
    /\ current' = current \/ (current' = None /\ (current = None \/ closed'[current]))

-----------------------------------------------------------------------------
LEMMA ConnectionsAreNumbers == Connections \subseteq Nat /\ None \notin Connections
BY BoundsAssumption DEF Connections, None

\* Whatever is written to a connection, faults or not, no other is unhooked.
LEMMA SendsUnhooks ==
    ASSUME Wired, NEW c, NEW frame, NEW fiber, Sends(c, frame, fiber)
    PROVE  /\ Unhooks
           /\ \A d \in Connections : closed'[d] => closed[d] \/ d = c
<1>1. CASE Drops(c)
  <2>1. closed' = [closed EXCEPT ![c] = TRUE] /\ current' = (IF current = c THEN None ELSE current)
    BY <1>1 DEF Drops, Forgets
  <2>2. QED
    BY <2>1, ConnectionsAreNumbers DEF Unhooks, Wired
<1>2. CASE UNCHANGED <<current, closed>>
  BY <1>2 DEF Unhooks, Wired
<1>3. StaysSilent \/ HoldsBack(c, frame, fiber) \/ Flushes(c, frame) => UNCHANGED <<current, closed>>
  BY DEF StaysSilent, HoldsBack, Flushes
<1>4. QED
  BY <1>1, <1>2, <1>3 DEF Sends

\* While nobody comes or goes, unhooking keeps the newest connection current.
LEMMA UnhooksKeepsNewest ==
    ASSUME SimulatorInv, Unhooks, serve' \in [Connections -> Serving],
           \A c \in Connections : serve'[c] = serve[c] \/ {serve[c], serve'[c]} = {"reading", "replying"}
    PROVE  SimulatorInv'
<1>1. \A c \in Connections : /\ (serve'[c] = "none") <=> (serve[c] = "none")
                             /\ (serve'[c] = "ended") <=> (serve[c] = "ended")
  OBVIOUS
<1>2. Wired'
  BY DEF SimulatorInv, Wired, Unhooks
<1>3. Ordered'
  <2> SUFFICES ASSUME NEW c \in Connections, serve'[c] # "none", NEW b \in 1 .. c - 1
               PROVE  serve'[b] # "none"
    BY DEF Ordered
  <2>1. b \in Connections
    BY BoundsAssumption DEF Connections
  <2>2. serve[c] # "none"
    BY <1>1
  <2>3. QED
    BY <1>1, <2>1, <2>2 DEF SimulatorInv, Ordered
<1>4. NewestIsCurrent'
  <2> SUFFICES ASSUME NEW c \in Connections, Newest(c)', ~closed'[c]
               PROVE  current' = c
    BY DEF NewestIsCurrent, Newest
  <2>1. Newest(c) /\ ~closed[c]
    BY <1>1 DEF Newest, Unhooks
  <2>2. current = c
    BY <2>1 DEF SimulatorInv, NewestIsCurrent, Newest
  <2>3. QED
    BY <2>2, ConnectionsAreNumbers DEF Unhooks
<1>5. QED
  BY <1>2, <1>3, <1>4 DEF SimulatorInv

\* A step that changes none of this.
Apart == UNCHANGED <<serve, closed, current>>

LEMMA ApartKeepsInv ==
    ASSUME SimulatorInv, Apart
    PROVE  SimulatorInv'
BY DEF Apart, SimulatorInv, Wired, Ordered, NewestIsCurrent

-----------------------------------------------------------------------------
LEMMA SimulatorStarts == SimulatorInit => SimulatorInv
<1> SUFFICES ASSUME SimulatorInit PROVE SimulatorInv
  OBVIOUS
<1>1. \A c \in Connections : serve[c] = "none" /\ closed[c] = FALSE
  BY DEF SimulatorInit
<1>2. Wired
  BY DEF SimulatorInit, Wired, Serving
<1>3. QED
  BY <1>1, <1>2 DEF SimulatorInv, Ordered, NewestIsCurrent

\* A connection that is opened is newer than all others, and becomes the current one.
LEMMA OpensKeepsInv ==
    ASSUME SimulatorInv, NEW c \in Connections, ClientOpens(c)
    PROVE  SimulatorInv'
<1> USE DEF ClientOpens
<1>1. /\ serve' = [serve EXCEPT ![c] = "reading"]
      /\ serve \in [Connections -> Serving]
      /\ closed' = closed /\ current' = c
  BY DEF SimulatorInv, Wired
<1>2. Wired'
  BY <1>1 DEF SimulatorInv, Wired, Serving
<1>3. Ordered'
  <2> SUFFICES ASSUME NEW d \in Connections, serve'[d] # "none", NEW b \in 1 .. d - 1
               PROVE  serve'[b] # "none"
    BY DEF Ordered
  <2>1. b \in Connections /\ b < d
    BY BoundsAssumption DEF Connections
  <2>2. d = c \/ serve[d] # "none"
    BY <1>1
  <2>3. serve[b] # "none"
    BY <2>2 DEF SimulatorInv, Ordered
  <2>4. QED
    BY <1>1, <2>1, <2>3
<1>4. NewestIsCurrent'
  <2> SUFFICES ASSUME NEW d \in Connections, Newest(d)', d # c
               PROVE  FALSE
    BY <1>1 DEF NewestIsCurrent, Newest
  <2>1. serve'[c] # "none"
    BY <1>1
  <2>2. c < d
    BY <2>1, ConnectionsAreNumbers DEF Newest
  <2>3. serve[d] # "none"
    BY <1>1 DEF Newest
  <2>4. c \in 1 .. d - 1
    BY <2>2, BoundsAssumption DEF Connections
  <2>5. QED
    BY <2>3, <2>4 DEF SimulatorInv, Ordered
<1>5. QED
  BY <1>2, <1>3, <1>4 DEF SimulatorInv

\* A fiber that ends takes nothing from the connection that replaced its own.
LEMMA ServeEndsKeepsInv ==
    ASSUME SimulatorInv, NEW c \in Connections, ServeEnds(c)
    PROVE  SimulatorInv'
<1> USE DEF ServeEnds, Forgets
<1>1. /\ serve' = [serve EXCEPT ![c] = "ended"]
      /\ serve \in [Connections -> Serving] /\ serve[c] = "reading"
      /\ closed' = closed
      /\ current' = IF current = c THEN None ELSE current
  BY DEF SimulatorInv, Wired
<1>2. Wired'
  BY <1>1 DEF SimulatorInv, Wired, Serving
<1>3. \A d \in Connections : (serve'[d] = "none") <=> (serve[d] = "none")
  BY <1>1
<1>4. Ordered'
  <2> SUFFICES ASSUME NEW d \in Connections, serve'[d] # "none", NEW b \in 1 .. d - 1
               PROVE  serve'[b] # "none"
    BY DEF Ordered
  <2>1. b \in Connections
    BY BoundsAssumption DEF Connections
  <2>2. QED
    BY <1>3, <2>1 DEF SimulatorInv, Ordered
<1>5. NewestIsCurrent'
  <2> SUFFICES ASSUME NEW d \in Connections, Newest(d)', ~closed'[d]
               PROVE  current' = d
    BY DEF NewestIsCurrent, Newest
  <2>1. d # c
    BY <1>1 DEF Newest
  <2>2. Newest(d) /\ ~closed[d]
    BY <1>1, <1>3, <2>1 DEF Newest
  <2>3. current = d
    BY <2>2 DEF SimulatorInv, NewestIsCurrent, Newest
  <2>4. QED
    BY <1>1, <2>1, <2>3
<1>6. QED
  BY <1>2, <1>4, <1>5 DEF SimulatorInv

-----------------------------------------------------------------------------
\* Every step keeps the newest connection current, one case for each action
\* that accepts, closes, unhooks or serves a connection.
LEMMA SimulatorKeepsInv == SimulatorInv /\ [SimulatorNext]_simulatorVars => SimulatorInv'
<1> SUFFICES ASSUME SimulatorInv, [SimulatorNext]_simulatorVars
             PROVE  SimulatorInv'
  OBVIOUS
<1>0. Wired
  BY DEF SimulatorInv
<1>1. ASSUME NEW c \in Connections, ClientOpens(c)
      PROVE  SimulatorInv'
  BY <1>1, OpensKeepsInv
<1>2. ASSUME NEW c \in Connections, Reads(c)
      PROVE  SimulatorInv'
  <2>1. serve' = [serve EXCEPT ![c] = "replying"] /\ serve[c] = "reading"
    BY <1>2 DEF Reads
  <2>2. closed' = closed /\ current' = current
    BY <1>2 DEF Reads
  <2>3. Unhooks
    BY <2>2, <1>0 DEF Unhooks, Wired
  <2>4. serve' \in [Connections -> Serving]
    BY <2>1, <1>0 DEF Wired, Serving
  <2>5. \A d \in Connections : serve'[d] = serve[d] \/ {serve[d], serve'[d]} = {"reading", "replying"}
    BY <2>1, <1>0 DEF Wired
  <2>6. QED
    BY <2>3, <2>4, <2>5, UnhooksKeepsNewest
<1>3. ASSUME NEW c \in Connections, Answers(c)
      PROVE  SimulatorInv'
  <2>1. serve' = [serve EXCEPT ![c] = "reading"] /\ serve[c] = "replying"
    BY <1>3 DEF Answers
  <2>2. Sends(c, "reply", c)
    BY <1>3 DEF Answers
  <2>3. Unhooks
    BY <2>2, <1>0, SendsUnhooks
  <2>4. serve' \in [Connections -> Serving]
    BY <2>1, <1>0 DEF Wired, Serving
  <2>5. \A d \in Connections : serve'[d] = serve[d] \/ {serve[d], serve'[d]} = {"reading", "replying"}
    BY <2>1, <1>0 DEF Wired
  <2>6. QED
    BY <2>3, <2>4, <2>5, UnhooksKeepsNewest
<1>4. ASSUME NEW c \in Connections, ServeEnds(c)
      PROVE  SimulatorInv'
  BY <1>4, ServeEndsKeepsInv
<1>5. ASSUME Unhooks, serve' = serve
      PROVE  SimulatorInv'
  <2>1. serve' \in [Connections -> Serving]
    BY <1>5, <1>0 DEF Wired
  <2>2. QED
    BY <1>5, <2>1, UnhooksKeepsNewest
<1>6. CASE Pushes
  <2>1. Sends(push.to, "LastResult", Pusher) /\ serve' = serve
    BY <1>6 DEF Pushes
  <2>2. Unhooks
    BY <2>1, <1>0, SendsUnhooks
  <2>3. QED
    BY <2>1, <2>2, <1>5
<1>7. CASE GivesUp
  <2>1. closed' = [closed EXCEPT ![push.to] = TRUE] /\ serve' = serve /\ current' = current
    BY <1>7 DEF GivesUp
  <2>2. Unhooks
    BY <2>1, <1>0 DEF Unhooks, Wired
  <2>3. QED
    BY <2>1, <2>2, <1>5
<1>8. CASE Drop
  <2>1. closed' = [closed EXCEPT ![current] = TRUE] /\ serve' = serve /\ current' = None
    BY <1>8 DEF Drop
  <2>2. current \in Connections
    BY <1>8, <1>0 DEF Drop, Wired
  <2>3. Unhooks
    BY <2>1, <2>2, <1>0 DEF Unhooks, Wired
  <2>4. QED
    BY <2>1, <2>3, <1>5
<1>9. CASE Apart
  BY <1>9, ApartKeepsInv
<1>10. ASSUME NEW c \in Connections,
              ClientAsks(c) \/ ClientAcknowledges(c) \/ ClientGoes(c) \/ ReadsAcknowledgement(c)
       PROVE  Apart
  BY <1>10 DEF Apart, sessionVars, ClientAsks, ClientAcknowledges, ClientGoes, ReadsAcknowledgement
<1>11. ASSUME NEW c \in Connections \cup {Pusher}, FlushesLater(c)
       PROVE  Apart
  BY <1>11 DEF Apart, FlushesLater
<1>12. CASE Ticks \/ FindsNoSubscriber \/ StartsPush \/ IsAcknowledged \/ Resends
  <2>1. Apart
    BY <1>12 DEF Apart, sessionVars, Ticks, FindsNoSubscriber, StartsPush, IsAcknowledged, Resends
  <2>2. QED
    BY <2>1, <1>9
<1>13. CASE UNCHANGED simulatorVars
  <2>1. Apart
    BY <1>13 DEF Apart, simulatorVars, sessionVars
  <2>2. QED
    BY <2>1, <1>9
<1>14. QED
  BY <1>1, <1>2, <1>3, <1>4, <1>6, <1>7, <1>8, <1>9, <1>10, <1>11, <1>12, <1>13 DEF SimulatorNext

\* Whichever old sessions are still cleaning up, and whatever faults are
\* injected, the newest connection that is served and that the controller has
\* not closed is the current one (forget, SessionState.ts:56-67).
THEOREM NewestIsAlwaysCurrent == SimulatorSpec => []NewestIsCurrent
<1>1. SimulatorInv => NewestIsCurrent
  BY DEF SimulatorInv
<1>2. QED
  BY <1>1, SimulatorStarts, SimulatorKeepsInv, PTL DEF SimulatorSpec

\* A connection the controller closes was written to by the push that gave up
\* on it, was dropped by a fault on its own frames, or was the one the operator
\* dropped (push, ControllerSimulator.ts:174-213).
THEOREM PushClosesItsOwn == SimulatorSpec => GivesUpOnItsOwn
<1> DEFINE Mine == \A c \in Connections :
                     ~closed[c] /\ closed'[c] =>
                         push.to = c \/ serve[c] = "replying" \/ (current = c /\ push' = push)
<1>1. ASSUME Wired, [SimulatorNext]_simulatorVars
      PROVE  Mine
  <2> USE <1>1
  <2>1. ASSUME closed' = closed PROVE Mine
    BY <2>1
  <2>2. ASSUME NEW c \in Connections, Answers(c) PROVE Mine
    <3>1. Sends(c, "reply", c) /\ serve[c] = "replying"
      BY <2>2 DEF Answers
    <3>2. \A d \in Connections : closed'[d] => closed[d] \/ d = c
      BY <3>1, SendsUnhooks
    <3>3. QED
      BY <3>1, <3>2
  <2>3. CASE Pushes
    <3>1. Sends(push.to, "LastResult", Pusher)
      BY <2>3 DEF Pushes
    <3>2. \A d \in Connections : closed'[d] => closed[d] \/ d = push.to
      BY <3>1, SendsUnhooks
    <3>3. QED
      BY <3>2
  <2>4. CASE GivesUp
    BY <2>4 DEF GivesUp, Wired
  <2>5. CASE Drop
    BY <2>5 DEF Drop, Wired, pushVars
  <2>6. ASSUME NEW c \in Connections,
               \/ ClientOpens(c) \/ ClientAsks(c) \/ ClientAcknowledges(c) \/ ClientGoes(c)
               \/ Reads(c) \/ ReadsAcknowledgement(c) \/ ServeEnds(c)
        PROVE  closed' = closed
    BY <2>6 DEF ClientOpens, ClientAsks, ClientAcknowledges, ClientGoes, Reads,
                ReadsAcknowledgement, ServeEnds
  <2>7. ASSUME NEW c \in Connections \cup {Pusher}, FlushesLater(c)
        PROVE  closed' = closed
    BY <2>7 DEF FlushesLater
  <2>8. Ticks \/ FindsNoSubscriber \/ StartsPush \/ IsAcknowledged \/ Resends => closed' = closed
    BY DEF Ticks, FindsNoSubscriber, StartsPush, IsAcknowledged, Resends
  <2>9. UNCHANGED simulatorVars => closed' = closed
    BY DEF simulatorVars
  <2> HIDE DEF Mine
  <2>10. QED
    BY <2>1, <2>2, <2>3, <2>4, <2>5, <2>6, <2>7, <2>8, <2>9 DEF SimulatorNext
<1>2. SimulatorInv => Wired
  BY DEF SimulatorInv
<1>3. Wired /\ [SimulatorNext]_simulatorVars => [Mine]_simulatorVars
  BY <1>1
<1>4. QED
  BY <1>2, <1>3, SimulatorStarts, SimulatorKeepsInv, PTL DEF SimulatorSpec, GivesUpOnItsOwn

=============================================================================
