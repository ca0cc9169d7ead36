----------------------------- MODULE Connection -----------------------------
(***************************************************************************)
(* The life of one device connection, connection/DeviceConnection.ts: the  *)
(* supervisor fiber that opens sessions one after the other until the      *)
(* connection is closed, and the fibers that close it.                     *)
(*                                                                         *)
(* emit reads the state and writes the next one.  Nothing suspends a fiber *)
(* between the two unless its slice of the scheduler runs out just there,  *)
(* which this module leaves out: an emit is part of the step around it.    *)
(* What a session does while it is up is the subject of other modules;     *)
(* here it goes on until something ends it.                                *)
(***************************************************************************)
EXTENDS ConnectionState, FiniteSets

CONSTANTS
    Closers,        \* fibers that close the connection
    Interruptible,  \* those that may be interrupted; a scope's finalizer is not
    MaxBackoff,     \* schedule steps after which the delay is at its cap
    MaxFailures     \* bound: attempts and sessions that fail

ASSUME InterruptibleAssumption == Interruptible \subseteq Closers
ASSUME MaxBackoffAssumption == MaxBackoff \in Nat \ {0}
ASSUME MaxFailuresAssumption == MaxFailures \in Nat

VARIABLES
    state,          \* ConnectionState
    supervisor,     \* where the supervisor fiber is
    socket,         \* whether the transport connection is open
    session,        \* whether a session is set, for requests and acknowledgements
    backoff,        \* steps of the reconnect schedule since it started over
    interrupted,    \* the supervisor was told to stop
    registry,       \* the subscriptions: open, or ended
    closer,         \* where each closing fiber is
    failures        \* failures so far

vars == <<state, supervisor, socket, session, backoff, interrupted, registry, closer,
          failures>>

\* An attempt passes through these; "serving" is a session that is ready.
UpSteps == {"handshaking", "recovering", "subscribing", "serving"}
SupervisorSteps ==
    UpSteps \cup {"waiting", "connecting", "ending", "closing socket", "failed", "stopped"}

CloserSteps == {"idle", "goodbye", "awaiting", "returned", "interrupted"}

Init ==
    /\ state = Initial
    /\ supervisor = "waiting"
    /\ socket = FALSE
    /\ session = FALSE
    /\ backoff = 0
    /\ interrupted = FALSE
    /\ registry = "open"
    /\ closer = [c \in Closers |-> "idle"]
    /\ failures = 0

-----------------------------------------------------------------------------
(* The supervisor.                                                         *)

\* emit dies on a refused transition, which ends the attempt; what follows is
\* then the release of what the attempt holds.
Emit(event, next, refused) ==
    IF Legal(state, event)
    THEN state' = Transition(state, event) /\ supervisor' = next
    ELSE supervisor' = refused /\ UNCHANGED state

Running == ~interrupted

\* The delay has passed, or there was none before the first attempt.
BeginsAttempt ==
    /\ Running
    /\ supervisor = "waiting"
    /\ Emit("AttemptStarted", "connecting", "failed")
    /\ UNCHANGED <<socket, session, backoff, interrupted, registry, closer, failures>>

\* The socket is open, and the session set before anything can suspend.
Connects ==
    /\ Running
    /\ supervisor = "connecting"
    /\ socket' = TRUE
    /\ session' = Legal(state, "Opened")
    /\ Emit("Opened", "handshaking", "closing socket")
    /\ UNCHANGED <<backoff, interrupted, registry, closer, failures>>

MayFail == failures < MaxFailures /\ failures' = failures + 1

\* The connection is refused or connectTimeout passes.  This emit dies too
\* when the machine refuses it.
ConnectFails ==
    /\ Running
    /\ supervisor = "connecting"
    /\ MayFail
    /\ Emit("Failed", "failed", "failed")
    /\ UNCHANGED <<socket, session, backoff, interrupted, registry, closer>>

\* startCommunication, recover and restore each end with an emit.
Progresses ==
    /\ Running
    /\ \/ supervisor = "handshaking" /\ Emit("Accepted", "recovering", "ending")
       \/ supervisor = "recovering"  /\ Emit("Recovered", "subscribing", "ending")
       \/ supervisor = "subscribing" /\ Emit("Subscribed", "serving", "ending")
    /\ UNCHANGED <<socket, session, backoff, interrupted, registry, closer, failures>>

\* A refused handshake, a reader that fails, a keep-alive without answer, a
\* refused subscription: the attempt is over.
SessionFails ==
    /\ Running
    /\ supervisor \in UpSteps
    /\ MayFail
    /\ supervisor' = "ending"
    /\ UNCHANGED <<state, socket, session, backoff, interrupted, registry, closer>>

\* The finalizers of the attempt, last acquired first: the session goes,
SessionReleased ==
    /\ supervisor = "ending"
    /\ session' = FALSE
    /\ supervisor' = "closing socket"
    /\ UNCHANGED <<state, socket, backoff, interrupted, registry, closer, failures>>

\* then the socket.
SocketReleased ==
    /\ supervisor = "closing socket"
    /\ socket' = FALSE
    /\ supervisor' = IF interrupted THEN "stopped" ELSE "failed"
    /\ UNCHANGED <<state, session, backoff, interrupted, registry, closer, failures>>

AtMostCap(n) == IF n > MaxBackoff THEN MaxBackoff ELSE n

\* restartingWhen: the next step of the schedule, or the first one of it again.
NextBackoff(recorded) == IF IsStreakStart(recorded) THEN 1 ELSE AtMostCap(backoff + 1)

\* Mutant of RecordsFailure: the schedule steps before the failure is recorded.
StepsBeforeRecording ==
    /\ Running
    /\ supervisor = "failed"
    /\ state' = IF Legal(state, "Failed") THEN Transition(state, "Failed") ELSE state
    /\ backoff' = NextBackoff(state)
    /\ supervisor' = "waiting"
    /\ UNCHANGED <<socket, session, interrupted, registry, closer, failures>>

\* emitIfLegal, then the next step of the schedule, which starts over when the
\* recorded state begins a streak.
RecordsFailure ==
    /\ Running
    /\ supervisor = "failed"
    /\ state' = IF Legal(state, "Failed") THEN Transition(state, "Failed") ELSE state
    /\ backoff' = NextBackoff(state')
    /\ supervisor' = "waiting"
    /\ UNCHANGED <<socket, session, interrupted, registry, closer, failures>>

\* Mutant of Unwinds: only a session can be interrupted, not a delay.
UnwindsSession ==
    /\ interrupted
    /\ supervisor \in UpSteps
    /\ supervisor' = "ending"
    /\ UNCHANGED <<state, socket, session, backoff, interrupted, registry, closer,
                   failures>>

\* The interrupted fiber unwinds: an attempt first releases what it holds.
Unwinds ==
    /\ interrupted
    /\ supervisor \notin {"ending", "closing socket", "stopped"}
    /\ supervisor' = IF session THEN "ending" ELSE "stopped"
    /\ UNCHANGED <<state, socket, session, backoff, interrupted, registry, closer,
                   failures>>

-----------------------------------------------------------------------------
(* Closing.                                                                *)

MovesTo(c, step) == closer' = [closer EXCEPT ![c] = step]

\* close does nothing once a close is under way or done.
Closes(c) ==
    /\ closer[c] = "idle"
    /\ IF IsClosedOrClosing(state)
       THEN MovesTo(c, "returned") /\ UNCHANGED state
       ELSE MovesTo(c, "goodbye") /\ state' = Transition(state, "CloseRequested")
    /\ UNCHANGED <<supervisor, socket, session, backoff, interrupted, registry, failures>>

\* sayGoodbye is over, at the latest after stopTimeout; the supervisor is
\* interrupted.
Interrupts(c) ==
    /\ closer[c] = "goodbye"
    /\ interrupted' = TRUE
    /\ MovesTo(c, "awaiting")
    /\ UNCHANGED <<state, supervisor, socket, session, backoff, registry, failures>>

\* Mutant of Released: does not wait for the supervisor.
ReleasedEarly(c) ==
    /\ closer[c] = "awaiting"
    /\ registry' = "ended"
    /\ state' = Transition(state, "Released")
    /\ MovesTo(c, "returned")
    /\ UNCHANGED <<supervisor, socket, session, backoff, interrupted, failures>>

\* The supervisor has ended: the subscriptions end, and the state is final.
Released(c) ==
    /\ closer[c] = "awaiting"
    /\ supervisor = "stopped"
    /\ registry' = "ended"
    /\ state' = Transition(state, "Released")
    /\ MovesTo(c, "returned")
    /\ UNCHANGED <<supervisor, socket, session, backoff, interrupted, failures>>

\* The closing fiber itself is interrupted.
CloseInterrupted(c) ==
    /\ c \in Interruptible
    /\ closer[c] \in {"goodbye", "awaiting"}
    /\ MovesTo(c, "interrupted")
    /\ UNCHANGED <<state, supervisor, socket, session, backoff, interrupted, registry,
                   failures>>

Supervises ==
    \/ BeginsAttempt \/ Connects \/ ConnectFails \/ Progresses \/ SessionFails
    \/ SessionReleased \/ SocketReleased \/ RecordsFailure \/ Unwinds

Next ==
    \/ Supervises
    \/ \E c \in Closers :
          Closes(c) \/ Interrupts(c) \/ Released(c) \/ CloseInterrupted(c)

Spec == Init /\ [][Next]_vars

\* The supervisor goes on: an attempt that does not fail makes progress, a
\* delay passes, finalizers run.  A fiber that began to close goes on as well.
Fairness ==
    /\ WF_vars(BeginsAttempt \/ Connects \/ Progresses)
    /\ WF_vars(SessionReleased \/ SocketReleased \/ RecordsFailure \/ Unwinds)
    /\ \A c \in Closers : WF_vars(Interrupts(c)) /\ WF_vars(Released(c))

FairSpec == Spec /\ Fairness

-----------------------------------------------------------------------------
(* The state of the connection is of its types.                            *)
TypeOK ==
    /\ state \in ConnectionStates
    /\ supervisor \in SupervisorSteps
    /\ socket \in BOOLEAN
    /\ session \in BOOLEAN
    /\ backoff \in 0 .. MaxBackoff
    /\ interrupted \in BOOLEAN
    /\ registry \in {"open", "ended"}
    /\ closer \in [Closers -> CloserSteps]
    /\ failures \in 0 .. MaxFailures

\* The states an emit of the supervisor expects to find where it is.
Expects(step, tag) ==
    \/ step = "waiting"     /\ tag \in {"Disconnected", "WaitingToReconnect"}
    \/ step = "connecting"  /\ tag = "Connecting"
    \/ step = "handshaking" /\ tag = "Handshaking"
    \/ step = "recovering"  /\ tag = "Recovering"
    \/ step = "subscribing" /\ tag = "Subscribing"
    \/ step = "serving"     /\ tag = "Ready"
    \/ step \in {"ending", "closing socket", "failed"}
       /\ tag \in {"Handshaking", "Recovering", "Subscribing", "Ready"}
    \/ step = "failed"      /\ tag = "WaitingToReconnect"

(* A refused transition is a wiring bug: as long as nobody closes the      *)
(* connection, the state always tells where the supervisor is, so none of  *)
(* its emits dies.                                                         *)
StateFollowsSupervisor ==
    ~IsClosedOrClosing(state) => Expects(supervisor, state.tag)

(* Closed means released: no fiber, no session, no socket, no stream that  *)
(* waits for more.                                                         *)
ClosedIsReleased ==
    state.tag = "Closed" =>
        /\ supervisor = "stopped"
        /\ ~socket /\ ~session
        /\ registry = "ended"

(* The delay before an attempt follows the streak of failures it ends: the *)
(* backoff starts over after a session that was ready, and never before.   *)
BackoffFollowsStreak ==
    supervisor = "waiting" /\ ~IsClosedOrClosing(state) =>
        backoff = AtMostCap(state.attempt)

(* A connection nobody closes is ready again after every failure.          *)
ComesUp ==
    (state.tag = "WaitingToReconnect") ~> (state.tag = "Ready" \/ IsClosedOrClosing(state))

(* A close that is not itself interrupted ends with the connection Closed, *)
(* whatever the supervisor was doing.                                      *)
CloseCompletes ==
    \A c \in Closers :
        closer[c] = "goodbye" ~> (state.tag = "Closed" \/ closer[c] = "interrupted")

=============================================================================
