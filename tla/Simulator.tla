----------------------------- MODULE Simulator ------------------------------
(***************************************************************************)
(* A simulated controller behind its port: ControllerSimulator.ts with the *)
(* bookkeeping of SessionState.ts, the replies of ControllerBehaviour.ts   *)
(* and the misbehaving writes of FaultyWire.ts and Faults.ts.  One fiber   *)
(* serves each accepted connection, one pushes results, and all of them    *)
(* share one session state; module Listener has the port.                  *)
(*                                                                         *)
(* A connection is known by its number; the client opens the next one once *)
(* it has given up on the one before, whose fiber may still be busy.  What *)
(* a frame says is left out but for its kind.  A fault that sleeps before  *)
(* it writes is a write that comes late.  quiesce is left out: it only     *)
(* takes choices away.                                                     *)
(***************************************************************************)
EXTENDS Naturals, Sequences, FiniteSets

CONSTANTS
    MaxConnections, \* bound: connections the client opens
    MaxResults,     \* bound: results the controller produces
    MaxAttempts,    \* ackAttempts
    MaxInbox,       \* bound: frames that wait to be read on a connection
    MaxHeld,        \* bound: frames held back at once
    FaultKinds      \* FaultConfig.kinds: the faults that are injected

ASSUME BoundsAssumption ==
    /\ MaxConnections \in Nat \ {0} /\ MaxResults \in Nat \ {0}
    /\ MaxAttempts \in Nat \ {0}
    /\ MaxInbox \in Nat \ {0} /\ MaxHeld \in Nat \ {0}

FaultKind ==
    {"dropConnection", "goSilent", "delayReply", "splitFrame", "coalesceFrames",
     "rejectCommand", "refuseConnections"}

ASSUME KindsAssumption == FaultKinds \subseteq FaultKind

Connections == 1 .. MaxConnections
Results == 1 .. MaxResults
None == 0
Pusher == 0     \* the fiber that pushes, beside those that serve

VARIABLES
    client,     \* the client's end, how far it has asked, what it has to acknowledge
    inbox,      \* what it has written and the controller not read
    serve,      \* the fiber that serves a connection
    closed,     \* the controller has closed its end
    current,    \* SessionState.connection
    subscribed, \* SessionState.subscribed
    everSubscribed,
    pendingAck, \* the result SessionState.pendingAck was made for
    acknowledged, \* that deferred is done
    pending,    \* SessionState.pending: frames held back
    flusher,    \* fibers with a flushLater child, by their connection or Pusher
    outbox,     \* results that wait to be pushed
    push,       \* the push in progress
    settled     \* what became of each result

sessionVars == <<current, subscribed, everSubscribed, pendingAck, acknowledged, pending>>
pushVars == <<outbox, push, settled>>
simulatorVars == <<client, inbox, serve, closed, sessionVars, flusher, pushVars>>

\* The requests that change the state, in a client's order: UnsubscribeResults
\* does what CommunicationStop does, and the others are only owed a reply.
Requests == <<"SubscribeResults", "CommunicationStop">>
Kinds == {"SubscribeResults", "CommunicationStop", "AcknowledgeResult"}
Frames == {"reply", "LastResult"}

NoPush == [result |-> None, to |-> None, left |-> 0, step |-> "idle"]

SimulatorTypeOK ==
    /\ client \in [Connections -> [open : BOOLEAN, asked : 0 .. 2, owes : 0 .. MaxAttempts * MaxResults]]
    /\ inbox \in [Connections -> Seq(Kinds)]
    /\ serve \in [Connections -> {"none", "reading", "replying", "ended"}]
    /\ closed \in [Connections -> BOOLEAN]
    /\ current \in Connections \cup {None}
    /\ pending \in Seq(Frames)
    /\ pendingAck \in Results \cup {None}
    /\ push \in [result : Results \cup {None}, to : Connections \cup {None},
                 left : 0 .. MaxAttempts, step : {"idle", "sending", "awaiting"}]
    /\ settled \in [Results -> {"unborn", "waiting", "acknowledged", "abandoned", "discarded"}]
    /\ push.step = "idle" <=> pendingAck = None

SimulatorInit ==
    /\ client = [c \in Connections |-> [open |-> FALSE, asked |-> 0, owes |-> 0]]
    /\ inbox = [c \in Connections |-> <<>>]
    /\ serve = [c \in Connections |-> "none"]
    /\ closed = [c \in Connections |-> FALSE]
    /\ current = None
    /\ subscribed = FALSE
    /\ everSubscribed = FALSE
    /\ pendingAck = None
    /\ acknowledged = FALSE
    /\ pending = <<>>
    /\ flusher = {}
    /\ outbox = <<>>
    /\ push = NoPush
    /\ settled = [r \in Results |-> "unborn"]

-----------------------------------------------------------------------------
(* The client, as far as the controller can tell.                          *)

\* serve hooks the connection up before anything is read from it.
ClientOpens(c) ==
    /\ serve[c] = "none"
    /\ \A b \in 1 .. c - 1 : serve[b] # "none"
    /\ \A b \in Connections : ~client[b].open
    /\ client' = [client EXCEPT ![c].open = TRUE]
    /\ serve' = [serve EXCEPT ![c] = "reading"]
    /\ current' = c
    /\ subscribed' = FALSE
    /\ UNCHANGED <<inbox, closed, everSubscribed, pendingAck, acknowledged, pending, flusher,
                   pushVars>>

Writes(c, kind) == inbox' = [inbox EXCEPT ![c] = Append(@, kind)]

ClientAsks(c) ==
    /\ client[c].open /\ client[c].asked < 2 /\ Len(inbox[c]) < MaxInbox
    /\ Writes(c, Requests[client[c].asked + 1])
    /\ client' = [client EXCEPT ![c].asked = @ + 1]
    /\ UNCHANGED <<serve, closed, sessionVars, flusher, pushVars>>

ClientAcknowledges(c) ==
    /\ client[c].open /\ client[c].owes > 0 /\ Len(inbox[c]) < MaxInbox
    /\ Writes(c, "AcknowledgeResult")
    /\ client' = [client EXCEPT ![c].owes = @ - 1]
    /\ UNCHANGED <<serve, closed, sessionVars, flusher, pushVars>>

ClientGoes(c) ==
    /\ client[c].open
    /\ client' = [client EXCEPT ![c] = [open |-> FALSE, asked |-> 0, owes |-> 0]]
    /\ UNCHANGED <<inbox, serve, closed, sessionVars, flusher, pushVars>>

-----------------------------------------------------------------------------
(* Writing, through the faults.                                            *)

\* Frames that reach connection c: it is open at both ends.
Delivers(c, frames) ==
    LET pushed == Len(SelectSeq(frames, LAMBDA f : f = "LastResult"))
    IN  client' = IF client[c].open /\ ~closed[c]
                  THEN [client EXCEPT ![c].owes = @ + pushed] ELSE client

\* A mutant: an old session cleaning up unhooks the one that replaced it.
ForgetsAny(c) ==
    /\ current' = None
    /\ subscribed' = (subscribed /\ current = None)

\* forget: only the current connection is unhooked.
Forgets(c) ==
    /\ current' = IF current = c THEN None ELSE current
    /\ subscribed' = (subscribed /\ current # c)

\* flush: what a coalesce fault held back goes in front.  A refused command, a
\* split frame and an outage elsewhere write as well.
Flushes(c, frame) ==
    /\ Delivers(c, Append(pending, frame))
    /\ pending' = <<>>
    /\ UNCHANGED <<current, subscribed, closed, flusher>>

Drops(c) ==
    /\ Forgets(c)
    /\ closed' = [closed EXCEPT ![c] = TRUE]
    /\ UNCHANGED <<client, pending, flusher>>

HoldsBack(c, frame, fiber) ==
    /\ Len(pending) < MaxHeld
    /\ pending' = Append(pending, frame)
    /\ flusher' = flusher \cup {fiber}
    /\ UNCHANGED <<client, current, subscribed, closed>>

\* GoSilent.
StaysSilent == UNCHANGED <<client, current, subscribed, closed, pending, flusher>>

\* next: an opportunity produces a fault or none, whatever the rate.
NextFault == {"none"} \cup FaultKinds

\* The faults without a disjunct of their own change what is written, or when.
Sends(c, frame, fiber) ==
    \/ "dropConnection" \in NextFault /\ Drops(c)
    \/ "goSilent" \in NextFault /\ StaysSilent
    \/ "coalesceFrames" \in NextFault /\ HoldsBack(c, frame, fiber)
    \/ Flushes(c, frame)

\* flushLater: what is held goes to the connection of the fiber that set the timer.
FlushesLater(c) ==
    /\ c \in flusher
    /\ flusher' = flusher \ {c}
    /\ pending' = <<>>
    /\ Delivers(IF c = Pusher THEN push.to ELSE c, pending)
    /\ UNCHANGED <<inbox, serve, closed, current, subscribed, everSubscribed, pendingAck, acknowledged, pushVars>>

-----------------------------------------------------------------------------
(* serve: one fiber for each connection.                                   *)

\* observe changes the state before the frame is answered.
Reads(c) ==
    /\ serve[c] = "reading" /\ inbox[c] # <<>> /\ Head(inbox[c]) # "AcknowledgeResult"
    /\ inbox' = [inbox EXCEPT ![c] = Tail(@)]
    /\ serve' = [serve EXCEPT ![c] = "replying"]
    /\ LET kind == Head(inbox[c])
       IN  /\ subscribed' = CASE kind = "SubscribeResults" -> TRUE
                              [] kind \in {"UnsubscribeResults", "CommunicationStop"} -> FALSE
                              [] OTHER -> subscribed
           /\ everSubscribed' = (everSubscribed \/ kind = "SubscribeResults")
    /\ UNCHANGED <<client, closed, current, pendingAck, acknowledged, pending, flusher,
                   pushVars>>

\* An acknowledgement completes whatever deferred the state holds.
ReadsAcknowledgement(c) ==
    /\ serve[c] = "reading" /\ inbox[c] # <<>> /\ Head(inbox[c]) = "AcknowledgeResult"
    /\ inbox' = [inbox EXCEPT ![c] = Tail(@)]
    /\ acknowledged' = (acknowledged \/ pendingAck # None)
    /\ UNCHANGED <<client, serve, closed, current, subscribed, everSubscribed, pendingAck, pending, flusher, pushVars>>

Answers(c) ==
    /\ serve[c] = "replying"
    /\ Sends(c, "reply", c)
    /\ serve' = [serve EXCEPT ![c] = "reading"]
    /\ UNCHANGED <<inbox, everSubscribed, pendingAck, acknowledged, pushVars>>

\* The stream ends: forget, and the children of the fiber are interrupted.
ServeEnds(c) ==
    /\ serve[c] = "reading"
    /\ ~client[c].open \/ closed[c]
    /\ serve' = [serve EXCEPT ![c] = "ended"]
    /\ inbox' = [inbox EXCEPT ![c] = <<>>]
    /\ Forgets(c)
    /\ flusher' = flusher \ {c}
    /\ UNCHANGED <<client, closed, everSubscribed, pendingAck, acknowledged, pending, pushVars>>

-----------------------------------------------------------------------------
(* push: one result at a time, resent until it is acknowledged.            *)

\* A result that finds no subscriber is not pushed; the client may fetch it.
Settles(r, how) == settled' = [settled EXCEPT ![r] = how]

Ticks ==
    /\ everSubscribed
    /\ \E r \in Results :
        /\ settled[r] = "unborn" /\ \A q \in 1 .. r - 1 : settled[q] # "unborn"
        /\ Settles(r, "waiting")
        /\ outbox' = Append(outbox, r)
    /\ UNCHANGED <<client, inbox, serve, closed, sessionVars, flusher, push>>

FindsNoSubscriber ==
    /\ push.step = "idle" /\ outbox # <<>>
    /\ current = None \/ ~subscribed
    /\ Settles(Head(outbox), "discarded")
    /\ outbox' = Tail(outbox)
    /\ UNCHANGED <<client, inbox, serve, closed, sessionVars, flusher, push>>

StartsPush ==
    /\ push.step = "idle" /\ outbox # <<>>
    /\ current # None /\ subscribed
    /\ push' = [result |-> Head(outbox), to |-> current, left |-> MaxAttempts, step |-> "sending"]
    /\ pendingAck' = Head(outbox)
    /\ acknowledged' = FALSE
    /\ outbox' = Tail(outbox)
    /\ UNCHANGED <<client, inbox, serve, closed, current, subscribed, everSubscribed, pending,
                   flusher, settled>>

PushGoes(step) == push' = [push EXCEPT !.step = step]

Pushes ==
    /\ push.step = "sending"
    /\ Sends(push.to, "LastResult", Pusher)
    /\ PushGoes("awaiting")
    /\ UNCHANGED <<inbox, serve, everSubscribed, pendingAck, acknowledged, outbox, settled>>

\* The push is over, and so is what its fiber had forked.
PushIsOver ==
    /\ push' = NoPush
    /\ pendingAck' = None
    /\ acknowledged' = FALSE
    /\ flusher' = flusher \ {Pusher}

IsAcknowledged ==
    /\ push.step = "awaiting" /\ acknowledged
    /\ Settles(push.result, "acknowledged")
    /\ PushIsOver
    /\ UNCHANGED <<client, inbox, serve, closed, current, subscribed, everSubscribed, pending,
                   outbox>>

\* ackTimeout, over the send as well as the wait.
TimedOut == push.step = "sending" \/ (push.step = "awaiting" /\ ~acknowledged)

\* A mutant: the attempts are not counted.
ResendsForEver ==
    /\ TimedOut /\ push.left > 1
    /\ PushGoes("sending")
    /\ flusher' = flusher \ {Pusher}
    /\ UNCHANGED <<client, inbox, serve, closed, sessionVars, outbox, settled>>

Resends ==
    /\ TimedOut /\ push.left > 1
    /\ push' = [push EXCEPT !.left = @ - 1, !.step = "sending"]
    /\ flusher' = flusher \ {Pusher}
    /\ UNCHANGED <<client, inbox, serve, closed, sessionVars, outbox, settled>>

\* A mutant: the connection of the moment is closed, not the one pushed to.
GivesUpOnCurrent ==
    /\ TimedOut /\ push.left = 1
    /\ Settles(push.result, "abandoned")
    /\ closed' = [c \in Connections |-> closed[c] \/ c = current]
    /\ PushIsOver
    /\ UNCHANGED <<client, inbox, serve, current, subscribed, everSubscribed, pending, outbox>>

GivesUp ==
    /\ TimedOut /\ push.left = 1
    /\ Settles(push.result, "abandoned")
    /\ closed' = [closed EXCEPT ![push.to] = TRUE]
    /\ PushIsOver
    /\ UNCHANGED <<client, inbox, serve, current, subscribed, everSubscribed, pending, outbox>>

-----------------------------------------------------------------------------
(* Whoever runs the simulator.                                             *)

Drop ==
    /\ current # None
    /\ closed' = [closed EXCEPT ![current] = TRUE]
    /\ current' = None
    /\ subscribed' = FALSE
    /\ UNCHANGED <<client, inbox, serve, everSubscribed, pendingAck, acknowledged, pending,
                   flusher, pushVars>>

SimulatorNext ==
    \/ \E c \in Connections :
        \/ ClientOpens(c) \/ ClientAsks(c) \/ ClientAcknowledges(c) \/ ClientGoes(c)
        \/ Reads(c) \/ ReadsAcknowledgement(c) \/ Answers(c) \/ ServeEnds(c)
    \/ \E c \in Connections \cup {Pusher} : FlushesLater(c)
    \/ Ticks \/ FindsNoSubscriber \/ StartsPush \/ Pushes
    \/ IsAcknowledged \/ Resends \/ GivesUp
    \/ Drop

SimulatorSpec == SimulatorInit /\ [][SimulatorNext]_simulatorVars

\* The controller's fibers run, its sleeps and timeouts end; the client and the
\* operator need do nothing.
SimulatorFairness ==
    /\ \A c \in Connections :
        WF_simulatorVars(Reads(c) \/ ReadsAcknowledgement(c) \/ Answers(c) \/ ServeEnds(c))
    /\ WF_simulatorVars(FindsNoSubscriber \/ StartsPush \/ Pushes)
    /\ WF_simulatorVars(IsAcknowledged \/ Resends \/ GivesUp)

SimulatorFairSpec == SimulatorSpec /\ SimulatorFairness

-----------------------------------------------------------------------------
(* What the controller promises.                                           *)

\* An old session cleaning up never unhooks the one that replaced it (forget,
\* SessionState.ts:56-67): the newest connection that is served and that the
\* controller has not closed is the current one.
NewestIsCurrent ==
    \A c \in Connections :
        /\ serve[c] \notin {"none", "ended"} /\ ~closed[c]
        /\ \A d \in Connections : d > c => serve[d] = "none"
        => current = c

\* Nothing a push does ends a connection it was not made on (push,
\* ControllerSimulator.ts:174-213): a connection the controller closes was
\* written to by the push that gave up on it, was dropped by a fault on its own
\* frames, or was the one the operator dropped.
GivesUpOnItsOwn ==
    [][\A c \in Connections :
        ~closed[c] /\ closed'[c] =>
            push.to = c \/ serve[c] = "replying" \/ (current = c /\ push' = push)]_simulatorVars

\* No result stays in the outbox for ever, and none is pushed for ever, whatever
\* becomes of the connections (push and its queue, ControllerSimulator.ts:174-219).
ResultsMoveOn ==
    \A r \in Results :
        settled[r] = "waiting" ~> settled[r] \in {"acknowledged", "abandoned", "discarded"}

=============================================================================
