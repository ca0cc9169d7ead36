-------------------------- MODULE ConnectionProofs --------------------------
(***************************************************************************)
(* The safety of module Connection, for any number of closing fibers, any  *)
(* number of failures and any cap of the backoff.                          *)
(*                                                                         *)
(* The state alone does not tell what the fibers hold.  The inductive      *)
(* invariant Coherent adds where the socket and the session live, who may  *)
(* still be closing, and how far the backoff is while an attempt runs.     *)
(***************************************************************************)
EXTENDS Connection, TLAPS

\* The session lives from the step that opens it to the finalizer that ends
\* it, and the socket until the finalizer after.
Holdings ==
    /\ session <=> supervisor \in UpSteps \cup {"ending"}
    /\ socket <=> supervisor \in UpSteps \cup {"ending", "closing socket"}

\* At most one fiber closes, the state says so, and only it interrupts.
OneCloser ==
    /\ \A c \in Closers :
          closer[c] \in {"goodbye", "awaiting"} => state.tag = "Closing"
    /\ \A c, d \in Closers :
          closer[c] \in {"goodbye", "awaiting"} /\ closer[d] \in {"goodbye", "awaiting"}
          => c = d
    /\ interrupted => IsClosedOrClosing(state)
    /\ supervisor = "stopped" => interrupted

\* While an attempt runs, the backoff is that of the failure before it.
Streak ==
    ~IsClosedOrClosing(state) =>
        /\ state.tag = "Disconnected" => state.attempt = 0 /\ backoff = 0
        /\ state.tag \in Opening =>
              state.attempt > 0 /\ backoff = AtMostCap(state.attempt - 1)
        /\ state.tag = "WaitingToReconnect" =>
              /\ state.attempt > 0
              /\ backoff = AtMostCap(IF supervisor = "waiting" THEN state.attempt
                                     ELSE state.attempt - 1)

Coherent ==
    /\ TypeOK
    /\ Holdings
    /\ OneCloser
    /\ Streak
    /\ StateFollowsSupervisor
    /\ ClosedIsReleased

-----------------------------------------------------------------------------
(* The cap of the backoff keeps it in range, and counting on from a capped *)
(* value or from the value itself comes to the same (AtMostCap).           *)
LEMMA CapCounts ==
    /\ \A n \in Nat : AtMostCap(n) \in 0 .. MaxBackoff
    /\ \A n \in Nat : n > 0 => AtMostCap(AtMostCap(n - 1) + 1) = AtMostCap(n)
    /\ AtMostCap(0) = 0 /\ AtMostCap(1) = 1
BY MaxBackoffAssumption DEF AtMostCap

(* A legal event leads to a state of the machine (transition).             *)
LEMMA TransitionTyped ==
    ASSUME NEW s \in ConnectionStates, NEW event \in Events
    PROVE  Transition(s, event) \in ConnectionStates
<1>1. Target[event] \in Tags
      BY DEF Events, Target, Tags
<1>2. NextAttempt(s, event) \in Nat
      BY DEF NextAttempt, ConnectionStates
<1> QED
    BY <1>1, <1>2 DEF Transition, At, ConnectionStates

(* The connection starts coherent (make).                                  *)
LEMMA StartsCoherent == Init => Coherent
<1> SUFFICES ASSUME Init PROVE Coherent
    OBVIOUS
<1> USE DEF Init, Initial, At
<1>1. TypeOK
  <2>1. state \in ConnectionStates
        BY DEF ConnectionStates, Tags
  <2>2. closer \in [Closers -> CloserSteps]
        BY DEF CloserSteps
  <2>3. supervisor \in SupervisorSteps
        BY DEF SupervisorSteps
  <2>4. backoff \in 0 .. MaxBackoff /\ failures \in 0 .. MaxFailures
        BY MaxBackoffAssumption, MaxFailuresAssumption
  <2> QED
      BY <2>1, <2>2, <2>3, <2>4 DEF TypeOK
<1>2. Holdings /\ ClosedIsReleased
      BY DEF Holdings, UpSteps, ClosedIsReleased
<1>3. OneCloser
      BY DEF OneCloser
<1>4. Streak
      BY DEF Streak, Opening
<1>5. StateFollowsSupervisor
      BY DEF StateFollowsSupervisor, Expects
<1> QED
    BY <1>1, <1>2, <1>3, <1>4, <1>5 DEF Coherent

(* The machine refuses every event of the supervisor once a close is       *)
(* requested, and none before (transition).                                *)
LEMMA ClosingRefuses ==
    ASSUME IsClosedOrClosing(state),
           NEW event \in Events \ {"CloseRequested", "Released"}
    PROVE  ~Legal(state, event)
BY DEF IsClosedOrClosing, Legal, Events, Opening

(* An emit of the supervisor keeps the types (emit).                       *)
LEMMA EmitTyped ==
    ASSUME TypeOK, NEW event \in Events,
           NEW next \in SupervisorSteps, NEW refused \in SupervisorSteps,
           Emit(event, next, refused)
    PROVE  state' \in ConnectionStates /\ supervisor' \in SupervisorSteps
BY TransitionTyped DEF Emit, TypeOK

(* The parts of the invariant but for the types of the supervisor's step,  *)
(* after a step that leaves the closing fibers alone while nobody closes:  *)
(* it must hold what it should, follow the state and keep the streak.      *)
LEMMA OpenKeepsCoherent ==
    ASSUME Coherent, TypeOK', Holdings', Streak', StateFollowsSupervisor',
           ~IsClosedOrClosing(state), ~IsClosedOrClosing(state'),
           UNCHANGED <<interrupted, closer>>
    PROVE  Coherent'
<1>1. OneCloser'
      BY DEF Coherent, OneCloser, IsClosedOrClosing, StateFollowsSupervisor, Expects,
             TypeOK
<1>2. ClosedIsReleased'
      BY DEF ClosedIsReleased, IsClosedOrClosing
<1> QED
    BY <1>1, <1>2 DEF Coherent

(* Once a close is requested the state is not the supervisor's any more;   *)
(* what it holds is all there is to keep.                                  *)
LEMMA ClosingKeepsCoherent ==
    ASSUME Coherent, TypeOK', Holdings', IsClosedOrClosing(state),
           UNCHANGED <<state, interrupted, registry, closer>>,
           supervisor # "stopped", supervisor' = "stopped" => interrupted
    PROVE  Coherent'
<1>1. OneCloser'
      BY DEF Coherent, OneCloser, IsClosedOrClosing
<1>2. Streak' /\ StateFollowsSupervisor'
      BY DEF Streak, StateFollowsSupervisor, IsClosedOrClosing
<1>3. ClosedIsReleased'
      BY DEF Coherent, ClosedIsReleased
<1> QED
    BY <1>1, <1>2, <1>3 DEF Coherent

-----------------------------------------------------------------------------
(* The steps of the supervisor.                                            *)

(* An attempt begins (the delay has passed).                               *)
LEMMA BeginsAttemptKeeps ==
    ASSUME Coherent, BeginsAttempt
    PROVE  Coherent'
<1>1. TypeOK'
  <2>1. state' \in ConnectionStates /\ supervisor' \in SupervisorSteps
        BY EmitTyped DEF Coherent, BeginsAttempt, Events, SupervisorSteps
  <2> QED
      BY <2>1 DEF Coherent, TypeOK, BeginsAttempt
<1>2. Holdings'
      BY DEF Coherent, Holdings, BeginsAttempt, Emit, UpSteps
<1>3. CASE IsClosedOrClosing(state)
  <2>1. UNCHANGED state /\ supervisor' = "failed"
        BY <1>3, ClosingRefuses DEF BeginsAttempt, Emit, Events
  <2> QED
      BY <1>1, <1>2, <1>3, <2>1, ClosingKeepsCoherent DEF BeginsAttempt
<1>4. CASE ~IsClosedOrClosing(state)
  <2>1. state.tag \in {"Disconnected", "WaitingToReconnect"}
        BY <1>4 DEF Coherent, StateFollowsSupervisor, Expects, BeginsAttempt
  <2>2. state' = At("Connecting", state.attempt + 1) /\ supervisor' = "connecting"
        BY <2>1 DEF BeginsAttempt, Emit, Legal, Transition, Target, NextAttempt
  <2>3. state.attempt \in Nat
        BY DEF Coherent, TypeOK, ConnectionStates
  <2>4. backoff = AtMostCap(state.attempt)
        BY <1>4, <2>1, CapCounts DEF Coherent, Streak, BeginsAttempt
  <2>5. Streak' /\ StateFollowsSupervisor' /\ ~IsClosedOrClosing(state')
        BY <2>2, <2>3, <2>4
        DEF Streak, StateFollowsSupervisor, Expects, IsClosedOrClosing, At,
            BeginsAttempt, Opening
  <2> QED
      BY <1>1, <1>2, <1>4, <2>5, OpenKeepsCoherent DEF BeginsAttempt
<1> QED
    BY <1>3, <1>4

(* The connection is made (the socket, the session and the Opened event).  *)
LEMMA ConnectsKeeps ==
    ASSUME Coherent, Connects
    PROVE  Coherent'
<1>1. TypeOK'
  <2>1. state' \in ConnectionStates /\ supervisor' \in SupervisorSteps
        BY EmitTyped DEF Coherent, Connects, Events, SupervisorSteps, UpSteps
  <2>2. session' \in BOOLEAN
        BY DEF Connects, Legal
  <2> QED
      BY <2>1, <2>2 DEF Coherent, TypeOK, Connects
<1>2. Holdings'
      BY DEF Coherent, Holdings, Connects, Emit, UpSteps
<1>3. CASE IsClosedOrClosing(state)
  <2>1. UNCHANGED state /\ supervisor' = "closing socket"
        BY <1>3, ClosingRefuses DEF Connects, Emit, Events
  <2> QED
      BY <1>1, <1>2, <1>3, <2>1, ClosingKeepsCoherent DEF Connects
<1>4. CASE ~IsClosedOrClosing(state)
  <2>1. state.tag = "Connecting"
        BY <1>4 DEF Coherent, StateFollowsSupervisor, Expects, Connects
  <2>2. state' = At("Handshaking", state.attempt) /\ supervisor' = "handshaking"
        BY <2>1 DEF Connects, Emit, Legal, Transition, Target, NextAttempt
  <2>3. Streak' /\ StateFollowsSupervisor' /\ ~IsClosedOrClosing(state')
        BY <1>4, <2>1, <2>2
        DEF Coherent, Streak, StateFollowsSupervisor, Expects, IsClosedOrClosing, At,
            Connects, Opening
  <2> QED
      BY <1>1, <1>2, <1>4, <2>3, OpenKeepsCoherent DEF Connects
<1> QED
    BY <1>3, <1>4

(* The connection is not made.                                             *)
LEMMA ConnectFailsKeeps ==
    ASSUME Coherent, ConnectFails
    PROVE  Coherent'
<1>1. TypeOK'
  <2>1. state' \in ConnectionStates /\ supervisor' \in SupervisorSteps
        BY EmitTyped DEF Coherent, ConnectFails, Events, SupervisorSteps
  <2>2. failures' \in 0 .. MaxFailures
        BY MaxFailuresAssumption DEF Coherent, TypeOK, ConnectFails, MayFail
  <2> QED
      BY <2>1, <2>2 DEF Coherent, TypeOK, ConnectFails
<1>2. Holdings'
      BY DEF Coherent, Holdings, ConnectFails, Emit, UpSteps
<1>3. CASE IsClosedOrClosing(state)
  <2>1. UNCHANGED state /\ supervisor' = "failed"
        BY <1>3, ClosingRefuses DEF ConnectFails, Emit, Events
  <2> QED
      BY <1>1, <1>2, <1>3, <2>1, ClosingKeepsCoherent DEF ConnectFails
<1>4. CASE ~IsClosedOrClosing(state)
  <2>1. state.tag = "Connecting"
        BY <1>4 DEF Coherent, StateFollowsSupervisor, Expects, ConnectFails
  <2>2. state' = At("WaitingToReconnect", state.attempt) /\ supervisor' = "failed"
        BY <2>1 DEF ConnectFails, Emit, Legal, Transition, Target, NextAttempt, Opening
  <2>3. Streak' /\ StateFollowsSupervisor' /\ ~IsClosedOrClosing(state')
        BY <1>4, <2>1, <2>2
        DEF Coherent, Streak, StateFollowsSupervisor, Expects, IsClosedOrClosing, At,
            ConnectFails, Opening
  <2> QED
      BY <1>1, <1>2, <1>4, <2>3, OpenKeepsCoherent DEF ConnectFails
<1> QED
    BY <1>3, <1>4

(* The session makes progress (each of its emits).                         *)
LEMMA ProgressesKeeps ==
    ASSUME Coherent, Progresses
    PROVE  Coherent'
<1>1. PICK event \in {"Accepted", "Recovered", "Subscribed"},
           next \in {"recovering", "subscribing", "serving"} :
           /\ Emit(event, next, "ending")
           /\ \/ supervisor = "handshaking" /\ event = "Accepted" /\ next = "recovering"
              \/ supervisor = "recovering" /\ event = "Recovered" /\ next = "subscribing"
              \/ supervisor = "subscribing" /\ event = "Subscribed" /\ next = "serving"
      BY DEF Progresses
<1>2. TypeOK'
  <2>1. state' \in ConnectionStates /\ supervisor' \in SupervisorSteps
        BY <1>1, EmitTyped DEF Coherent, Events, SupervisorSteps, UpSteps
  <2> QED
      BY <2>1 DEF Coherent, TypeOK, Progresses
<1>3. Holdings'
      BY <1>1 DEF Coherent, Holdings, Progresses, Emit, UpSteps
<1>4. CASE IsClosedOrClosing(state)
  <2>1. UNCHANGED state /\ supervisor' = "ending"
        BY <1>1, <1>4, ClosingRefuses DEF Emit, Events
  <2> QED
      BY <1>1, <1>2, <1>3, <1>4, <2>1, ClosingKeepsCoherent DEF Progresses
<1>5. CASE ~IsClosedOrClosing(state)
  <2>1. \/ event = "Accepted" /\ state.tag = "Handshaking"
        \/ event = "Recovered" /\ state.tag = "Recovering"
        \/ event = "Subscribed" /\ state.tag = "Subscribing"
        BY <1>1, <1>5 DEF Coherent, StateFollowsSupervisor, Expects
  <2>2. /\ state' = At(Target[event], NextAttempt(state, event))
        /\ supervisor' = next
        BY <1>1, <2>1 DEF Emit, Legal, Transition
  <2>3. Streak'
    <3>1. CASE event = "Subscribed"
          BY <2>1, <2>2, <3>1 DEF Streak, At, Target, Opening
    <3>2. CASE event # "Subscribed"
      <4>1. state'.attempt = state.attempt /\ state'.tag \in {"Recovering", "Subscribing"}
            BY <2>1, <2>2, <3>2 DEF At, Target, NextAttempt
      <4>2. state.attempt > 0 /\ backoff = AtMostCap(state.attempt - 1)
            BY <1>5, <2>1, <3>2 DEF Coherent, Streak, Opening
      <4>3. backoff' = backoff
            BY DEF Progresses
      <4> QED
          BY <4>1, <4>2, <4>3 DEF Streak, AtMostCap
    <3> QED
        BY <3>1, <3>2
  <2>4. StateFollowsSupervisor' /\ ~IsClosedOrClosing(state')
    <3>1. \/ supervisor' = "recovering" /\ state'.tag = "Recovering"
          \/ supervisor' = "subscribing" /\ state'.tag = "Subscribing"
          \/ supervisor' = "serving" /\ state'.tag = "Ready"
          BY <1>1, <2>2 DEF At, Target
    <3> QED
        BY <3>1 DEF StateFollowsSupervisor, Expects, IsClosedOrClosing
  <2> QED
      BY <1>2, <1>3, <1>5, <2>3, <2>4, OpenKeepsCoherent DEF Progresses
<1> QED
    BY <1>4, <1>5

(* A step that leaves the state alone and moves on to where the same state *)
(* is expected keeps the invariant: a session that fails, its finalizers,  *)
(* an interruption.                                                        *)
LEMMA SilentStepKeeps ==
    ASSUME Coherent, TypeOK', Holdings',
           UNCHANGED <<state, backoff, interrupted, registry, closer>>,
           supervisor \notin {"waiting", "stopped"} \/ IsClosedOrClosing(state),
           supervisor # "stopped",
           supervisor' = "stopped" => interrupted,
           ~IsClosedOrClosing(state) =>
               /\ supervisor' # "waiting"
               /\ Expects(supervisor, state.tag) => Expects(supervisor', state.tag)
    PROVE  Coherent'
<1>1. CASE IsClosedOrClosing(state)
      BY <1>1, ClosingKeepsCoherent
<1>2. CASE ~IsClosedOrClosing(state)
  <2>1. Streak'
        BY <1>2 DEF Coherent, Streak
  <2>2. StateFollowsSupervisor'
        BY <1>2 DEF Coherent, StateFollowsSupervisor
  <2> QED
      BY <1>2, <2>1, <2>2, OpenKeepsCoherent
<1> QED
    BY <1>1, <1>2

(* A session fails.                                                        *)
LEMMA SessionFailsKeeps ==
    ASSUME Coherent, SessionFails
    PROVE  Coherent'
<1>1. TypeOK'
  <2>1. failures' \in 0 .. MaxFailures
        BY MaxFailuresAssumption DEF Coherent, TypeOK, SessionFails, MayFail
  <2> QED
      BY <2>1 DEF Coherent, TypeOK, SessionFails, SupervisorSteps
<1>2. Holdings'
      BY DEF Coherent, Holdings, SessionFails, UpSteps
<1>3. Expects(supervisor, state.tag) => Expects("ending", state.tag)
      BY DEF SessionFails, UpSteps, Expects
<1> QED
    BY <1>1, <1>2, <1>3, SilentStepKeeps DEF SessionFails, UpSteps

(* The finalizers of an attempt run.                                       *)
LEMMA FinalizersKeep ==
    ASSUME Coherent, SessionReleased \/ SocketReleased
    PROVE  Coherent'
<1>1. CASE SessionReleased
  <2>1. TypeOK' /\ Holdings'
        BY <1>1 DEF Coherent, TypeOK, Holdings, SessionReleased, SupervisorSteps, UpSteps
  <2>2. Expects(supervisor, state.tag) => Expects(supervisor', state.tag)
        BY <1>1 DEF SessionReleased, Expects
  <2> QED
      BY <1>1, <2>1, <2>2, SilentStepKeeps DEF SessionReleased
<1>2. CASE SocketReleased
  <2>1. TypeOK' /\ Holdings'
        BY <1>2 DEF Coherent, TypeOK, Holdings, SocketReleased, SupervisorSteps, UpSteps
  <2>2. interrupted => IsClosedOrClosing(state)
        BY DEF Coherent, OneCloser
  <2>3. ~IsClosedOrClosing(state) =>
            (Expects(supervisor, state.tag) => Expects(supervisor', state.tag))
        BY <1>2, <2>2 DEF SocketReleased, Expects
  <2>4. supervisor' \in {"stopped", "failed"} /\ (supervisor' = "stopped" => interrupted)
        BY <1>2 DEF SocketReleased
  <2> QED
      BY <1>2, <2>1, <2>2, <2>3, <2>4, SilentStepKeeps DEF SocketReleased
<1> QED
    BY <1>1, <1>2

(* A failure is recorded and the schedule steps (retry, restartingWhen).   *)
LEMMA RecordsFailureKeeps ==
    ASSUME Coherent, RecordsFailure
    PROVE  Coherent'
<1>1. TypeOK'
  <2>1. state' \in ConnectionStates
        BY TransitionTyped DEF RecordsFailure, Coherent, TypeOK, Events
  <2>2. backoff' \in 0 .. MaxBackoff
        BY CapCounts, MaxBackoffAssumption DEF RecordsFailure, NextBackoff, Coherent, TypeOK
  <2> QED
      BY <2>1, <2>2 DEF Coherent, TypeOK, RecordsFailure, SupervisorSteps
<1>2. Holdings'
      BY DEF Coherent, Holdings, RecordsFailure, UpSteps
<1>3. CASE IsClosedOrClosing(state)
  <2>1. UNCHANGED state
        BY <1>3, ClosingRefuses DEF RecordsFailure, Events
  <2> QED
      BY <1>1, <1>2, <1>3, <2>1, ClosingKeepsCoherent DEF RecordsFailure
<1>4. CASE ~IsClosedOrClosing(state)
  <2>1. state.tag \in {"Handshaking", "Recovering", "Subscribing", "Ready",
                       "WaitingToReconnect"}
        BY <1>4 DEF Coherent, StateFollowsSupervisor, Expects, RecordsFailure
  <2>2. state.attempt \in Nat
        BY DEF Coherent, TypeOK, ConnectionStates
  <2>3. /\ state'.tag = "WaitingToReconnect" /\ state'.attempt > 0
        /\ backoff' = AtMostCap(state'.attempt)
    <3>1. CASE state.tag = "Ready"
      <4>1. state' = At("WaitingToReconnect", 1)
            BY <3>1 DEF RecordsFailure, Legal, Transition, Target, NextAttempt
      <4> QED
          BY <4>1, CapCounts DEF RecordsFailure, NextBackoff, IsStreakStart, At
    <3>2. CASE state.tag # "Ready"
      <4>1. state' = At("WaitingToReconnect", state.attempt)
        <5>1. CASE state.tag = "WaitingToReconnect"
          <6>1. state' = state
                BY <5>1 DEF RecordsFailure, Legal, Opening
          <6> QED
              BY <5>1, <6>1 DEF Coherent, TypeOK, ConnectionStates, At
        <5>2. CASE state.tag # "WaitingToReconnect"
              BY <2>1, <3>2, <5>2
              DEF RecordsFailure, Legal, Opening, Transition, Target, NextAttempt
        <5> QED
            BY <5>1, <5>2
      <4>2. state.attempt > 0 /\ backoff = AtMostCap(state.attempt - 1)
            BY <1>4, <2>1, <3>2 DEF Coherent, Streak, Opening, RecordsFailure
      <4>3. AtMostCap(backoff + 1) = AtMostCap(state.attempt)
            BY <2>2, <4>2, CapCounts
      <4> QED
          BY <2>2, <4>1, <4>2, <4>3, CapCounts DEF RecordsFailure, NextBackoff, IsStreakStart, At
    <3> QED
        BY <3>1, <3>2
  <2>4. Streak' /\ StateFollowsSupervisor' /\ ~IsClosedOrClosing(state')
        BY <2>3
        DEF Streak, StateFollowsSupervisor, Expects, IsClosedOrClosing, Opening,
            RecordsFailure
  <2> QED
      BY <1>1, <1>2, <1>4, <2>4, OpenKeepsCoherent DEF RecordsFailure
<1> QED
    BY <1>3, <1>4

(* The interrupted supervisor unwinds.                                     *)
LEMMA UnwindsKeeps ==
    ASSUME Coherent, Unwinds
    PROVE  Coherent'
<1>1. IsClosedOrClosing(state)
      BY DEF Coherent, OneCloser, Unwinds
<1>2. TypeOK'
      BY DEF Coherent, TypeOK, Unwinds, SupervisorSteps
<1>3. Holdings'
      BY DEF Coherent, Holdings, Unwinds, UpSteps
<1> QED
    BY <1>1, <1>2, <1>3, ClosingKeepsCoherent DEF Unwinds

(* Every step of the supervisor keeps the invariant.                       *)
LEMMA SupervisorKeepsCoherent ==
    ASSUME Coherent, Supervises
    PROVE  Coherent'
BY BeginsAttemptKeeps, ConnectsKeeps, ConnectFailsKeeps, ProgressesKeeps,
   SessionFailsKeeps, FinalizersKeep, RecordsFailureKeeps, UnwindsKeeps
DEF Supervises

-----------------------------------------------------------------------------
(* The steps of the closing fibers.                                        *)

(* A fiber closes, or finds that a close is under way (close).             *)
LEMMA ClosesKeeps ==
    ASSUME Coherent, NEW c \in Closers, Closes(c)
    PROVE  Coherent'
<1>0. closer \in [Closers -> CloserSteps]
      BY DEF Coherent, TypeOK
<1>1. CASE IsClosedOrClosing(state)
  <2>1. closer' = [closer EXCEPT ![c] = "returned"] /\ UNCHANGED state
        BY <1>1 DEF Closes, MovesTo
  <2>2. TypeOK'
        BY <1>0, <2>1 DEF Coherent, TypeOK, Closes, CloserSteps
  <2>3. OneCloser'
        BY <1>0, <1>1, <2>1 DEF Coherent, OneCloser, Closes, IsClosedOrClosing
  <2>4. Holdings' /\ Streak' /\ StateFollowsSupervisor' /\ ClosedIsReleased'
        BY <1>1, <2>1
        DEF Coherent, Holdings, Streak, StateFollowsSupervisor, ClosedIsReleased,
            Closes, IsClosedOrClosing
  <2> QED
      BY <2>2, <2>3, <2>4 DEF Coherent
<1>2. CASE ~IsClosedOrClosing(state)
  <2>1. closer' = [closer EXCEPT ![c] = "goodbye"] /\ state' = At("Closing", 0)
        BY <1>2 DEF Closes, MovesTo, Transition, Target, NextAttempt
  <2>2. TypeOK'
    <3>1. state' \in ConnectionStates
          BY <2>1 DEF ConnectionStates, At, Tags
    <3> QED
        BY <1>0, <2>1, <3>1 DEF Coherent, TypeOK, Closes, CloserSteps
  <2>3. state'.tag = "Closing"
        BY <2>1 DEF At
  <2>4. OneCloser'
    <3>1. \A d \in Closers : closer[d] \notin {"goodbye", "awaiting"}
          BY <1>2 DEF Coherent, OneCloser, IsClosedOrClosing
    <3>2. \A d \in Closers : closer'[d] \in {"goodbye", "awaiting"} => d = c
          BY <1>0, <2>1, <3>1
    <3> QED
        BY <2>3, <3>2 DEF Coherent, OneCloser, Closes, IsClosedOrClosing
  <2>5. Holdings' /\ Streak' /\ StateFollowsSupervisor' /\ ClosedIsReleased'
        BY <2>3
        DEF Coherent, Holdings, Streak, StateFollowsSupervisor, ClosedIsReleased,
            Closes, IsClosedOrClosing
  <2> QED
      BY <2>2, <2>4, <2>5 DEF Coherent
<1> QED
    BY <1>1, <1>2

(* The closing fiber interrupts the supervisor, or is interrupted itself.  *)
LEMMA CloserMovesKeeps ==
    ASSUME Coherent, NEW c \in Closers, Interrupts(c) \/ CloseInterrupted(c)
    PROVE  Coherent'
<1>0. closer \in [Closers -> CloserSteps]
      BY DEF Coherent, TypeOK
<1>1. PICK step \in {"awaiting", "interrupted"} :
          closer' = [closer EXCEPT ![c] = step]
      BY DEF Interrupts, CloseInterrupted, MovesTo
<1>2. state.tag = "Closing" /\ UNCHANGED <<state, supervisor, socket, session, backoff,
                                          registry, failures>>
      BY DEF Coherent, OneCloser, Interrupts, CloseInterrupted
<1>3. interrupted' = interrupted \/ interrupted' = TRUE
      BY DEF Interrupts, CloseInterrupted
<1>4. TypeOK'
  <2>1. closer' \in [Closers -> CloserSteps]
        BY <1>0, <1>1 DEF CloserSteps
  <2>2. interrupted' \in BOOLEAN
        BY <1>3 DEF Coherent, TypeOK
  <2> QED
      BY <1>2, <2>1, <2>2 DEF Coherent, TypeOK
<1>5. OneCloser'
  <2>1. \A d \in Closers : closer'[d] \in {"goodbye", "awaiting"}
                           => closer[d] \in {"goodbye", "awaiting"}
        BY <1>0, <1>1 DEF Interrupts, CloseInterrupted
  <2>2. interrupted => interrupted'
        BY <1>3
  <2> QED
      BY <1>2, <2>1, <2>2 DEF Coherent, OneCloser, IsClosedOrClosing
<1>6. Holdings' /\ Streak' /\ StateFollowsSupervisor' /\ ClosedIsReleased'
      BY <1>2
      DEF Coherent, Holdings, Streak, StateFollowsSupervisor, ClosedIsReleased,
          IsClosedOrClosing
<1> QED
    BY <1>4, <1>5, <1>6 DEF Coherent

(* The supervisor has ended and everything is released.                    *)
LEMMA ReleasedKeeps ==
    ASSUME Coherent, NEW c \in Closers, Released(c)
    PROVE  Coherent'
<1>0. closer \in [Closers -> CloserSteps]
      BY DEF Coherent, TypeOK
<1>1. /\ closer' = [closer EXCEPT ![c] = "returned"]
      /\ state' = At("Closed", 0)
      BY DEF Released, MovesTo, Transition, Target, NextAttempt
<1>2. state'.tag = "Closed"
      BY <1>1 DEF At
<1>3. TypeOK'
  <2>1. closer' \in [Closers -> CloserSteps]
        BY <1>0, <1>1 DEF CloserSteps
  <2>2. state' \in ConnectionStates
        BY <1>1 DEF ConnectionStates, At, Tags
  <2> QED
      BY <2>1, <2>2 DEF Coherent, TypeOK, Released
<1>4. OneCloser'
  <2>1. \A d \in Closers : closer'[d] \notin {"goodbye", "awaiting"}
    <3>1. \A d \in Closers : closer[d] \in {"goodbye", "awaiting"} => d = c
          BY DEF Coherent, OneCloser, Released
    <3> QED
        BY <1>0, <1>1, <3>1
  <2> QED
      BY <1>2, <2>1 DEF Coherent, OneCloser, Released, IsClosedOrClosing
<1>5. Holdings' /\ Streak' /\ StateFollowsSupervisor'
      BY <1>2
      DEF Coherent, Holdings, Streak, StateFollowsSupervisor, Released,
          IsClosedOrClosing
<1>6. ClosedIsReleased'
      BY DEF Coherent, Holdings, ClosedIsReleased, Released, UpSteps
<1> QED
    BY <1>3, <1>4, <1>5, <1>6 DEF Coherent

-----------------------------------------------------------------------------
(* Coherent is inductive: it holds at the start, and every step keeps it.  *)
THEOREM AlwaysCoherent == Spec => []Coherent
<1>1. Init => Coherent
      BY StartsCoherent
<1>2. Coherent /\ [Next]_vars => Coherent'
  <2> SUFFICES ASSUME Coherent, [Next]_vars PROVE Coherent'
      OBVIOUS
  <2>1. CASE Supervises
        BY <2>1, SupervisorKeepsCoherent
  <2>2. ASSUME NEW c \in Closers, Closes(c) PROVE Coherent'
        BY <2>2, ClosesKeeps
  <2>3. ASSUME NEW c \in Closers, Interrupts(c) \/ CloseInterrupted(c) PROVE Coherent'
        BY <2>3, CloserMovesKeeps
  <2>4. ASSUME NEW c \in Closers, Released(c) PROVE Coherent'
        BY <2>4, ReleasedKeeps
  <2>5. CASE UNCHANGED vars
        BY <2>5
        DEF vars, Coherent, TypeOK, Holdings, OneCloser, Streak, StateFollowsSupervisor,
            ClosedIsReleased
  <2> QED
      BY <2>1, <2>2, <2>3, <2>4, <2>5 DEF Next
<1> QED
    BY <1>1, <1>2, PTL DEF Spec

(* The variables of a connection keep their types: the machine never       *)
(* leaves its states and the backoff never exceeds its cap.                *)
THEOREM ConnectionTyped == Spec => []TypeOK
<1>1. Coherent => TypeOK
      BY DEF Coherent
<1> QED
    BY <1>1, AlwaysCoherent, PTL

(* No emit of the supervisor is refused before a close is requested        *)
(* (emit dies on an InvalidTransition).                                    *)
THEOREM StateAlwaysFollowsSupervisor == Spec => []StateFollowsSupervisor
<1>1. Coherent => StateFollowsSupervisor
      BY DEF Coherent
<1> QED
    BY <1>1, AlwaysCoherent, PTL

(* A connection that is Closed holds nothing any more (close).             *)
THEOREM ClosedIsAlwaysReleased == Spec => []ClosedIsReleased
<1>1. Coherent => ClosedIsReleased
      BY DEF Coherent
<1> QED
    BY <1>1, AlwaysCoherent, PTL

(* The backoff before an attempt is that of the streak of failures before  *)
(* it (restartingWhen, forAttempt).                                        *)
THEOREM BackoffAlwaysFollowsStreak == Spec => []BackoffFollowsStreak
<1>1. Coherent => BackoffFollowsStreak
  <2> SUFFICES ASSUME Coherent, supervisor = "waiting", ~IsClosedOrClosing(state)
               PROVE  backoff = AtMostCap(state.attempt)
      BY DEF BackoffFollowsStreak
  <2>1. state.tag \in {"Disconnected", "WaitingToReconnect"}
        BY DEF Coherent, StateFollowsSupervisor, Expects
  <2> QED
      BY <2>1, CapCounts DEF Coherent, Streak
<1> QED
    BY <1>1, AlwaysCoherent, PTL

=============================================================================
