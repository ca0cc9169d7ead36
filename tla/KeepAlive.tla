----------------------------- MODULE KeepAlive -----------------------------
(***************************************************************************)
(* The clock of a session that is ready: Session.ts keepAliveLoop, the     *)
(* time its slot notes at every send (DeviceConnection.ts attempt), and    *)
(* the requests of the application that share the gate of RequestReply.    *)
(*                                                                         *)
(* Time is counted in ticks.  Local steps take none: a tick waits until    *)
(* the fibers of the client have done what is due.  The controller answers *)
(* whenever it likes, and from some moment on may not answer at all.       *)
(***************************************************************************)
EXTENDS RequestReply, DeviceSettings

CONSTANTS
    Apps,               \* application fibers that make requests
    Loop,               \* the keep-alive fiber
    Link,               \* the number of the session
    Query, Mirror,      \* an application's request, and MID 9999
    Config,             \* what the application sets; the rest has defaults
    TickLength          \* tenths of a second in a tick

ASSUME FibersAssumption == Loop \notin Apps /\ Fibers = Apps \cup {Loop}
ASSUME LinkAssumption == Sessions = {Link}
ASSUME MirrorAssumption == Query # Mirror /\ Commands = {Query, Mirror}

Settings == ResolveSettings(Config)
Interval == Settings.keepAliveInterval \div TickLength

ASSUME ConfigAssumption == IsConfig(Config) /\ TickLength \in Nat \ {0}
ASSUME TimesAssumption ==
    ResponseTimeout = Settings.responseTimeout \div TickLength

\* No setting is checked against another: the timeout may be the longer one.
LongestSilence ==
    Interval + (IF ResponseTimeout < Interval THEN Interval - 1
                                              ELSE ResponseTimeout)

VARIABLES
    ready,      \* the session lasts
    timer,      \* ticks until the loop wakes
    idle,       \* now - lastSent, as the loop computes it
    wokeFor,    \* now - the time the loop woke at
    silence,    \* history: ticks since a request was sent
    blocked,    \* the reader waits for room in the queue of a subscription
    mute        \* the controller answers no more

clockVars == <<timer, idle, wokeFor, silence>>
linkVars == <<blocked, mute>>
vars == <<requestVars, ready, clockVars, linkVars>>

\* Idle times are told apart up to the longest the link may be silent.
Forever == LongestSilence + 1
OneMore(n) == IF n < Forever THEN n + 1 ELSE Forever

TypeOK ==
    /\ RequestTypeOK
    /\ {ready, blocked, mute} \subseteq BOOLEAN
    /\ timer \in 0 .. Interval
    /\ idle \in 0 .. Forever
    /\ wokeFor \in 0 .. Forever
    /\ silence \in 0 .. Forever

\* The last subscribe was sent up to a timeout ago when the loop is forked.
Init ==
    /\ RequestInit
    /\ ready = TRUE
    /\ timer = Interval
    /\ idle \in 0 .. ResponseTimeout
    /\ silence = idle
    /\ wokeFor = 0
    /\ blocked = FALSE
    /\ mute = FALSE

-----------------------------------------------------------------------------
\* The slot's send: the frame is written, and the time noted.
SendsRequest(f) ==
    /\ ready
    /\ Sends(f)
    /\ idle' = 0
    /\ silence' = 0
    /\ UNCHANGED <<ready, timer, wokeFor, linkVars>>

SendFails(f) ==
    /\ ~ready
    /\ FailsToSend(f)
    /\ UNCHANGED <<ready, clockVars, linkVars>>

\* request of an application fiber: nothing notes what came of it.
AppRequests(a) ==
    /\ ready
    /\ Asks(a, Link, Query)
    /\ UNCHANGED <<ready, clockVars, linkVars>>

AppResumes(a) ==
    /\ Resumes(a)
    /\ UNCHANGED <<ready, clockVars, linkVars>>

\* Mutant of RequestGivesUp: the library's own request has no timeout.
QueryGivesUp ==
    /\ slot[Link] \in Apps
    /\ TimesOut(Link)
    /\ UNCHANGED <<ready, clockVars, linkVars>>

RequestGivesUp ==
    /\ TimesOut(Link)
    /\ UNCHANGED <<ready, clockVars, linkVars>>

\* Mutant of LinkIsIdle: takes an interval that just passed for a recent one.
LinkIsLongIdle == idle > Interval

\* keepAliveLoop: nothing was sent for an interval.
LinkIsIdle == idle >= Interval

Wakes == ready /\ timer = 0 /\ IsIdle(Loop)

LoopSkips ==
    /\ Wakes
    /\ ~LinkIsIdle
    /\ timer' = Interval
    /\ UNCHANGED <<requestVars, ready, idle, wokeFor, silence, linkVars>>

LoopAsks ==
    /\ Wakes
    /\ LinkIsIdle
    /\ Asks(Loop, Link, Mirror)
    /\ wokeFor' = 0
    /\ UNCHANGED <<ready, timer, idle, silence, linkVars>>

\* The mirror came back: lastSent is set to the time the loop woke at.
LoopReturns ==
    /\ Resumes(Loop)
    /\ request[Loop].verdict = "accepted"
    /\ timer' = Interval
    /\ idle' = wokeFor
    /\ UNCHANGED <<ready, wokeFor, silence, linkVars>>

\* orLost: the session ends with its keep-alive; its reader is interrupted.
LoopFails ==
    /\ ready
    /\ IsSettled(Loop)
    /\ request[Loop].verdict # "accepted"
    /\ ready' = FALSE
    /\ EndsRequests(Link, {Loop})
    /\ blocked' = FALSE
    /\ UNCHANGED <<clockVars, mute>>

-----------------------------------------------------------------------------
\* readLoop: an answer arrives and is read.
ControllerAnswers ==
    /\ ready /\ ~mute /\ ~blocked
    /\ slot[Link] # NoFiber
    /\ IsSent(slot[Link])
    /\ \E v \in {"accepted", "refused"} :
         SettlesReply(Link, request[slot[Link]].command, v)
    /\ UNCHANGED <<ready, clockVars, linkVars>>

GoesMute ==
    /\ ~mute
    /\ mute' = TRUE
    /\ UNCHANGED <<requestVars, ready, clockVars, blocked>>

\* readLoop: a value is pushed to a consumer whose queue is full.
ReaderBlocks ==
    /\ ready /\ ~blocked /\ ~mute
    /\ blocked' = TRUE
    /\ UNCHANGED <<requestVars, ready, clockVars, mute>>

\* The consumer takes a value, or leaves.
ConsumerMakesRoom ==
    /\ blocked
    /\ blocked' = FALSE
    /\ UNCHANGED <<requestVars, ready, clockVars, mute>>

\* What the client's fibers do without letting time pass.
IsUrgent ==
    \/ \E f \in Fibers : IsSettled(f)
    \/ \E f \in Fibers : Queues(f) /\ slot[request[f].session] = NoFiber
    \/ Wakes

Tick ==
    /\ ~IsUrgent
    /\ RequestsAge
    /\ timer' = IF timer > 0 THEN timer - 1 ELSE 0
    /\ idle' = OneMore(idle)
    /\ wokeFor' = OneMore(wokeFor)
    /\ silence' = OneMore(silence)
    /\ UNCHANGED <<ready, linkVars>>

-----------------------------------------------------------------------------
Next ==
    \/ \E f \in Fibers : SendsRequest(f) \/ SendFails(f)
    \/ \E a \in Apps : AppRequests(a) \/ AppResumes(a)
    \/ RequestGivesUp
    \/ LoopSkips \/ LoopAsks \/ LoopReturns \/ LoopFails
    \/ ControllerAnswers \/ GoesMute
    \/ ReaderBlocks \/ ConsumerMakesRoom
    \/ Tick

Spec == Init /\ [][Next]_vars

\* The fibers run, time passes, and the gate lets every fiber in that queues
\* for it again and again: its waiters are served in order.
FairSpec ==
    /\ Spec
    /\ WF_vars(Tick)
    /\ WF_vars(RequestGivesUp)
    /\ WF_vars(LoopSkips) /\ WF_vars(LoopAsks)
    /\ WF_vars(LoopReturns) /\ WF_vars(LoopFails)
    /\ \A f \in Fibers : SF_vars(SendsRequest(f)) /\ SF_vars(SendFails(f))
    /\ \A a \in Apps : WF_vars(AppResumes(a))

\* An application that at last leaves the link alone.
QuietApps == <>[][\A a \in Apps : ~AppRequests(a)]_vars

-----------------------------------------------------------------------------
\* The loop never believes the link spoke more recently than it did, and no
\* silence outlasts the bound: less than two intervals, or an interval and a
\* timeout when the timeout is no shorter than the interval (Session.ts:142).
SilenceIsBounded ==
    ready => idle >= silence /\ silence <= LongestSilence

\* Every request comes back to its fiber, also when the controller is mute or
\* the session ends while it queues (RequestReply.ts:149).
RequestsComeBack == \A f \in Fibers : ~IsIdle(f) ~> IsIdle(f)

\* A reader that waits for a full queue does not wait for ever: nobody reads
\* the answer to the next keep-alive either, and the session ends
\* (Subscriptions.ts:187).
ReaderMovesOn == QuietApps => (blocked ~> ~blocked)

=============================================================================
