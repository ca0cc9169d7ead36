------------------------------ MODULE Session ------------------------------
(***************************************************************************)
(* The sessions of one connection: connection/Session.ts (the reader and   *)
(* the keep-alive loop), connection/Handshake.ts and what DeviceConnection *)
(* makes of them, over the slot of RequestReply and the registry of        *)
(* Subscriptions, against a controller that keeps subscriptions the way    *)
(* simulator/ControllerSimulator.ts does and may stay silent.              *)
(*                                                                         *)
(* The network and the controller may be as slow as they like, so a        *)
(* request may time out whatever is under way: ResponseTimeout is 0, due   *)
(* at any time.  When a keep-alive is due is the subject of module         *)
(* KeepAlive: here the loop may wake at any time.  Recovery, the subject   *)
(* of module ResultFlow, is left out of a session's start.                 *)
(***************************************************************************)
EXTENDS Subscriptions, Sequences

CONSTANTS
    Apps,               \* application fibers that make requests
    KeepAlive,          \* the keep-alive fiber
    MaxSessions,        \* bound: sessions of a behaviour
    MaxChannel          \* bound: frames under way to the client, and commands
                        \* to the controller when the application asks more

ASSUME KeepAliveIsFiber == KeepAlive \in Fibers \ (Consumers \cup {Attempt})
ASSUME AppsAreFibers == Apps \subseteq Fibers \ (Consumers \cup {Attempt, KeepAlive})
ASSUME SessionsAssumption == Sessions = 1 .. MaxSessions
ASSUME BoundsAssumption == {MaxSessions, MaxChannel} \subseteq Nat

VARIABLES
    status,         \* how far the connection attempt got
    sess,           \* number of the current session
    up,             \* its socket is open
    toController,   \* commands under way
    toClient,       \* frames under way
    subscribed,     \* controller: MIDs it pushes on this connection
    blocked         \* the consumer whose full queue the reader waits for

wireVars == <<up, toController, toClient, subscribed>>
sessionVars == <<status, sess, blocked>>
vars == <<requestVars, registryVars, sessionVars, wireVars>>

NoMid == "none"
Start == [op |-> "start", mid |-> NoMid]
Mirror == [op |-> "keepAlive", mid |-> NoMid]
Query == [op |-> "query", mid |-> NoMid]

SessionCommands ==
    {Start, Mirror, Query} \cup {Subscribe(m) : m \in Mids}
                           \cup {Unsubscribe(m) : m \in Mids}
ASSUME CommandsAssumption == Commands = SessionCommands

Reply(command, verdict) == [kind |-> "reply", command |-> command, verdict |-> verdict]
Push(m) == [kind |-> "push", command |-> Subscribe(m), verdict |-> "accepted"]

SessionTypeOK ==
    /\ RequestTypeOK
    /\ RegistryTypeOK
    /\ status \in {"down", "handshake", "restoring", "ready", "closing", "closed"}
    /\ sess \in 0 .. MaxSessions
    /\ up \in BOOLEAN
    /\ \A i \in DOMAIN toController : toController[i] \in Commands
    /\ Len(toClient) <= MaxChannel
    /\ subscribed \subseteq Mids
    /\ blocked \in Consumers \cup {NoConsumer}

Init ==
    /\ RequestInit
    /\ RegistryInit
    /\ status = "down"
    /\ sess = 0
    /\ up = FALSE
    /\ toController = <<>>
    /\ toClient = <<>>
    /\ subscribed = {}
    /\ blocked = NoConsumer

IsOpen == status \in {"handshake", "restoring", "ready"}

-----------------------------------------------------------------------------
(* The connection attempt.                                                 *)

\* attempt: a socket, a slot of its own, and MID 0001.  The controller
\* starts the connection without a subscription (serve).
SessionStarts ==
    /\ status = "down" /\ ~up
    /\ sess < MaxSessions
    /\ sess' = sess + 1
    /\ status' = "handshake"
    /\ up' = TRUE
    /\ toController' = <<>> /\ toClient' = <<>>
    /\ subscribed' = {}
    /\ Asks(Attempt, sess + 1, Start)
    /\ UNCHANGED <<registryVars, blocked>>

\* startCommunication returns: Accepted.
HandshakeReturns ==
    /\ status = "handshake"
    /\ Resumes(Attempt)
    /\ request[Attempt].verdict = "accepted"
    /\ status' = "restoring"
    /\ UNCHANGED <<registryVars, sess, blocked, wireVars>>

Restores ==
    /\ status = "restoring"
    /\ RestoreStarts \/ RestoreAsks(sess) \/ RestoreReturns
    /\ UNCHANGED <<sessionVars, wireVars>>

\* The last entry is sent: Ready.
BecomesReady ==
    /\ status = "restoring"
    /\ RestoreDone(sess)
    /\ status' = "ready"
    /\ UNCHANGED <<sess, blocked, wireVars>>

\* The end of the attempt's scope: its fibers are interrupted, the request
\* in flight fails, the registry forgets the session.  The socket is
\* released after that.
Ends(next) ==
    /\ IsOpen
    /\ EndsRequests(sess, {Attempt, KeepAlive})
    /\ Detaches
    /\ status' = next
    /\ blocked' = NoConsumer
    /\ toClient' = <<>>
    /\ UNCHANGED <<sess, up, toController, subscribed>>

\* A request of the session itself failed: the handshake, one of the restored
\* subscriptions, a keep-alive.
AttemptFails ==
    /\ \/ IsSettled(Attempt) /\ status = "handshake"
          /\ request[Attempt].verdict # "accepted"
       \/ IsSettled(Attempt) /\ status = "restoring"
          /\ request[Attempt].verdict \notin {"accepted", "refused"}
       \/ IsSettled(KeepAlive) /\ request[KeepAlive].verdict # "accepted"
    /\ Ends("down")

\* readLoop: the stream of frames ended.
ReaderFails ==
    /\ ~up
    /\ toClient = <<>>
    /\ blocked = NoConsumer
    /\ Ends("down")

SocketReleased ==
    /\ ~IsOpen
    /\ up
    /\ up' = FALSE
    /\ toController' = <<>>
    /\ UNCHANGED <<requestVars, registryVars, sessionVars, toClient,
                   subscribed>>

\* close: the supervisor is interrupted, and then the registry is closed.
CloseRequested ==
    \/ Ends("closing")
    \/ /\ status = "down"
       /\ status' = "closing"
       /\ UNCHANGED <<requestVars, registryVars, sess, blocked, wireVars>>

Closes ==
    /\ status = "closing" /\ ~up
    /\ CloseRegistry
    /\ status' = "closed"
    /\ UNCHANGED <<sess, blocked, wireVars>>

-----------------------------------------------------------------------------
(* Sending.                                                                *)

\* exchange, the fiber's turn: the frame is written.
SendsRequest(f) ==
    /\ Queues(f) /\ up /\ request[f].session = sess
    /\ Sends(f)
    /\ toController' = Append(toController, request[f].command)
    /\ UNCHANGED <<registryVars, sessionVars, up, toClient, subscribed>>

\* exchange on a session whose socket is gone.
SendFails(f) ==
    /\ Queues(f) /\ ~(up /\ request[f].session = sess)
    /\ FailsToSend(f)
    /\ UNCHANGED <<registryVars, sessionVars, wireVars>>

RequestGivesUp(s) ==
    /\ TimesOut(s)
    /\ UNCHANGED <<registryVars, sessionVars, wireVars>>

-----------------------------------------------------------------------------
(* Session.ts.                                                             *)

\* readLoop: a reply settles the request it names, or is dropped.
ReadsReply ==
    /\ IsOpen /\ blocked = NoConsumer
    /\ toClient # <<>> /\ Head(toClient).kind = "reply"
    /\ IF Recognises(sess, Head(toClient).command)
       THEN SettlesReply(sess, Head(toClient).command, Head(toClient).verdict)
       ELSE UNCHANGED requestVars
    /\ toClient' = Tail(toClient)
    /\ UNCHANGED <<registryVars, sessionVars, up, toController, subscribed>>

\* readLoop: a pushed value goes to its entry's queue; a full one stops the
\* reader.  Without an entry it is dropped.
ReadsPush ==
    /\ IsOpen /\ blocked = NoConsumer
    /\ toClient # <<>> /\ Head(toClient).kind = "push"
    /\ LET c == entries[Head(toClient).command.mid]
       IN  /\ buffered' = [d \in Consumers |->
                             IF d = c /\ buffered[d] < BufferSize
                             THEN buffered[d] + 1 ELSE buffered[d]]
           /\ blocked' = IF c # NoConsumer /\ buffered[c] = BufferSize
                         THEN c ELSE NoConsumer
    /\ toClient' = Tail(toClient)
    /\ UNCHANGED <<requestVars, entries, closed, live, turn, phase, stream, todo,
                   restored, asked, status, sess, up, toController, subscribed>>

\* The offer that waited for room goes through, or is let go by a queue that
\* was shut down.
ReaderUnblocked ==
    /\ IsOpen
    /\ blocked # NoConsumer
    /\ \/ stream[blocked] # "open" /\ UNCHANGED buffered
       \/ stream[blocked] = "open" /\ buffered[blocked] < BufferSize
          /\ buffered' = [buffered EXCEPT ![blocked] = @ + 1]
    /\ blocked' = NoConsumer
    /\ UNCHANGED <<requestVars, entries, closed, live, turn, phase, stream, todo,
                   restored, asked, status, sess, wireVars>>

\* keepAliveLoop: the loop woke on an idle link.
KeepAliveAsks ==
    /\ status = "ready"
    /\ Asks(KeepAlive, sess, Mirror)
    /\ UNCHANGED <<registryVars, sessionVars, wireVars>>

\* keepAliveLoop: the mirror came back, and the loop sleeps again.
KeepAliveReturns ==
    /\ Resumes(KeepAlive)
    /\ request[KeepAlive].verdict = "accepted"
    /\ UNCHANGED <<registryVars, sessionVars, wireVars>>

-----------------------------------------------------------------------------
(* The application.                                                        *)

\* request, through withSession: only a Ready connection takes one.
AppRequests(a) ==
    /\ status = "ready"
    /\ Len(toController) < MaxChannel
    /\ Asks(a, sess, Query)
    /\ UNCHANGED <<registryVars, sessionVars, wireVars>>

AppResumes(a) ==
    /\ Resumes(a)
    /\ UNCHANGED <<registryVars, sessionVars, wireVars>>

AppInterrupted(a) ==
    /\ Interrupted(a)
    /\ UNCHANGED <<registryVars, sessionVars, wireVars>>

\* A consumer takes a value; its ack is sent bare and needs no slot.
ConsumerTakes(c) ==
    /\ Takes(c)
    /\ UNCHANGED <<sessionVars, wireVars>>

OpensSome(c) == Opens(c) /\ Len(toController) < MaxChannel

Registers(c) == OpensSome(c) \/ AddsClosed(c) \/ AddsTaken(c) \/ AddsForLater(c) \/ AddsLive(c)

Unregisters(c) == Leaves(c) \/ LeavesUnsubscribing(c) \/ LeavesQuietly(c)

ConsumerSteps(c) ==
    /\ Registers(c) \/ Unregisters(c)
    /\ UNCHANGED <<sessionVars, wireVars>>

ConsumerReturns(c) ==
    /\ AddReturns(c) \/ RemoveReturns(c)
    /\ UNCHANGED <<sessionVars, wireVars>>

-----------------------------------------------------------------------------
(* The controller and the network.                                         *)

Observed(command) ==
    IF command.op = "subscribe" THEN subscribed \cup {command.mid}
    ELSE IF command.op = "unsubscribe" THEN subscribed \ {command.mid}
    ELSE subscribed

\* onFrame: the command is observed, and then answered, refused (a
\* RejectCommand fault) or left without an answer (GoSilent).
ControllerReplies ==
    /\ up
    /\ toController # <<>>
    /\ toController' = Tail(toController)
    /\ subscribed' = Observed(Head(toController))
    /\ \/ UNCHANGED toClient
       \/ /\ IsOpen
          /\ Len(toClient) < MaxChannel
          /\ \E v \in {"accepted", "refused"} :
               toClient' = Append(toClient, Reply(Head(toController), v))
    /\ UNCHANGED <<requestVars, registryVars, sessionVars, up>>

ControllerPushes ==
    /\ up /\ IsOpen
    /\ Len(toClient) < MaxChannel
    /\ \E m \in subscribed : toClient' = Append(toClient, Push(m))
    /\ UNCHANGED <<requestVars, registryVars, sessionVars, up, toController,
                   subscribed>>

\* The connection dies: what is under way to the controller is lost, what is
\* under way to the client may still arrive.
SocketDies ==
    /\ up /\ IsOpen
    /\ up' = FALSE
    /\ toController' = <<>>
    /\ toClient' \in {toClient, <<>>}
    /\ UNCHANGED <<requestVars, registryVars, sessionVars, subscribed>>

-----------------------------------------------------------------------------
Next ==
    \/ SessionStarts \/ HandshakeReturns \/ Restores \/ BecomesReady
    \/ AttemptFails \/ ReaderFails \/ SocketReleased \/ CloseRequested \/ Closes
    \/ \E f \in Fibers : SendsRequest(f) \/ SendFails(f)
    \/ \E s \in Sessions : RequestGivesUp(s)
    \/ ReadsReply \/ ReadsPush \/ ReaderUnblocked
    \/ KeepAliveAsks \/ KeepAliveReturns
    \/ \E a \in Apps : AppRequests(a) \/ AppResumes(a) \/ AppInterrupted(a)
    \/ \E c \in Consumers : ConsumerTakes(c) \/ ConsumerSteps(c) \/ ConsumerReturns(c)
    \/ ControllerReplies \/ ControllerPushes \/ SocketDies

Spec == Init /\ [][Next]_vars

-----------------------------------------------------------------------------
\* A consumer registered while its session is up is subscribed at the
\* controller, once nothing is under way any more: neither a subscribe lost
\* between add and restore nor the unsubscribe of its predecessor starves it
\* (Subscriptions.ts:138 and :237).
NoConsumerIsMissed ==
    live # NoSession /\ up /\ turn = NoFiber /\ toController = <<>> =>
      \A m \in Mids : entries[m] # NoConsumer => m \in subscribed
=============================================================================
