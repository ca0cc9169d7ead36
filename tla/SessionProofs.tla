--------------------------- MODULE SessionProofs ---------------------------
(***************************************************************************)
(* The sessions of a connection, for any number of consumers, data MIDs,   *)
(* sessions and requests of the application.                               *)
(*                                                                         *)
(* The registry gives its turn to one fiber at a time, and the request     *)
(* that fiber makes outlives the session it was made on.  The invariant    *)
(* says what each fiber's request is about (Errands), who has the turn     *)
(* (Turns), which subscribes were asked (Asking), and why a registered     *)
(* consumer will be heard: its subscribe has still to be sent, or it is    *)
(* the last word on its MID among what the controller observed and what is *)
(* on the way there (Subscribing).                                         *)
(***************************************************************************)
EXTENDS Session, RequestReplyProofs

Frames == {Reply(c, v) : c \in Commands, v \in {"accepted", "refused"}}
            \cup {Push(m) : m \in Mids}

\* What the wires hold.
WiresOK ==
    /\ toController \in Seq(Commands)
    /\ toClient \in Seq(Frames)

\* Who has the turn, and for which session.
Turns ==
    /\ \A c \in Consumers : phase[c] \in {"adding", "unsubscribing"} => turn = c
    /\ turn = Attempt => status = "restoring"
    /\ live # NoSession <=> status = "ready"
    /\ live # NoSession => live = sess
    /\ closed => status = "closed"
    /\ IsOpen => sess \in Sessions

\* What the request of each fiber is about.
Errands ==
    /\ \A c \in Consumers :
         /\ phase[c] \notin {"adding", "unsubscribing"} => IsIdle(c)
         /\ phase[c] = "adding" => ~IsIdle(c) /\ request[c].command = Subscribe(MidOf[c])
         /\ phase[c] = "unsubscribing" =>
              ~IsIdle(c) /\ request[c].command = Unsubscribe(MidOf[c])
         /\ ~IsIdle(c) /\ status = "ready" => request[c].session = sess
    /\ ~IsIdle(Attempt) =>
         /\ request[Attempt].session = sess
         /\ \/ status = "handshake" /\ request[Attempt].command = Start
            \/ /\ status = "restoring" /\ turn = Attempt
               /\ restored \in Consumers
               /\ request[Attempt].command = Subscribe(MidOf[restored])
    /\ \A f \in Fibers \ (Consumers \cup {Attempt}) :
         ~IsIdle(f) => request[f].command \in {Query, Mirror}

\* Which entries are registered, and that their streams are.
Entered ==
    /\ \A m \in Mids : entries[m] # NoConsumer =>
         MidOf[entries[m]] = m /\ phase[entries[m]] \in {"adding", "streaming"}
    /\ \A c \in Consumers :
         phase[c] \in {"adding", "streaming"} /\ stream[c] = "open" => Registered(c)
    /\ \A c \in Consumers :
         phase[c] = "unsubscribing" => entries[MidOf[c]] = NoConsumer

\* Nothing is asked before its time: not before restore, and not while a
\* consumer opens or is still to be restored.
Asking ==
    /\ SentAtMostOnce
    /\ live = NoSession /\ turn # Attempt => \A c \in Consumers : asked[c] = 0
    /\ \A c \in Consumers : phase[c] = "opening" => asked[c] = 0
    /\ \A c \in todo :
         /\ turn = Attempt
         /\ asked[c] = 0
         /\ c # restored
         /\ phase[c] = "leaving" \/ (phase[c] = "streaming" /\ Registered(c))

\* Subscribe(m) is the last word on m among what the controller observed and
\* what is on the way to it.
LastWord(m, observed, way) ==
    \/ /\ m \in observed
       /\ \A i \in 1 .. Len(way) : way[i] # Unsubscribe(m)
    \/ \E i \in 1 .. Len(way) :
         /\ way[i] = Subscribe(m)
         /\ \A j \in 1 .. Len(way) : j > i => way[j] # Unsubscribe(m)

\* The subscribe of a registered consumer has still to be sent.
ToBeSent(c) ==
    \/ c \in todo
    \/ restored = c /\ Queues(Attempt)
    \/ phase[c] = "adding" /\ Queues(c)

Subscribing ==
    up /\ (status = "ready" \/ turn = Attempt) =>
      \A m \in Mids : entries[m] # NoConsumer =>
        ToBeSent(entries[m]) \/ LastWord(m, subscribed, toController)

SessionInv ==
    /\ SessionTypeOK
    /\ OneInFlight
    /\ SentIsInSlot
    /\ WiresOK
    /\ Turns
    /\ Errands
    /\ Entered
    /\ Asking
    /\ Subscribing

-----------------------------------------------------------------------------
(* Names: who is who among the fibers.                                     *)
LEMMA Names ==
    /\ Attempt \in Fibers /\ KeepAlive \in Fibers
    /\ Attempt # NoFiber /\ KeepAlive # NoFiber
    /\ KeepAlive \notin Consumers /\ KeepAlive # Attempt
    /\ \A c \in Consumers :
         c \in Fibers /\ c # NoFiber /\ c # Attempt /\ c # KeepAlive /\ MidOf[c] \in Mids
    /\ \A a \in Apps :
         a \in Fibers /\ a \notin Consumers /\ a # Attempt /\ a # KeepAlive
    /\ {Start, Mirror, Query} \subseteq Commands
    /\ \A m \in Mids : Subscribe(m) \in Commands /\ Unsubscribe(m) \in Commands
    /\ MaxSessions \in Nat
    /\ MaxChannel \in Nat
    /\ BufferSize \in Nat \ {0}
BY NoFiberAssumption, ConsumersAreFibers, KeepAliveIsFiber, AppsAreFibers,
   MidOfAssumption, CommandsAssumption, BoundsAssumption, BufferSizeAssumption
   DEF SessionCommands

LEMMA Bounds == MaxSessions \in Nat /\ MaxChannel \in Nat
BY BoundsAssumption

LEMMA FrameParts ==
    ASSUME NEW frame \in Frames
    PROVE  /\ frame.command \in Commands
           /\ frame.verdict \in {"accepted", "refused"}
           /\ frame.kind = "push" => frame.command.mid \in Mids
BY Names DEF Frames, Reply, Push, Subscribe

\* Every request of a session goes through a slot as RequestReply says.
LEMMA StepIsRequestStep ==
    ASSUME SessionInv, [Next]_vars
    PROVE  [RequestNext]_requestVars
<1> USE Names DEF SessionInv, SessionTypeOK
<1>0. IsOpen => sess \in Sessions
  BY DEF Turns
<1>1. CASE UNCHANGED vars
  BY <1>1 DEF vars
<1>2. CASE SessionStarts
  <2>1. sess + 1 \in Sessions
    BY <1>2, SessionsAssumption DEF SessionStarts
  <2> QED
    BY <1>2, <2>1 DEF SessionStarts, RequestNext
<1>3. CASE HandshakeReturns
  BY <1>3 DEF HandshakeReturns, RequestNext
<1>4. CASE Restores
  <2>1. CASE RestoreStarts
    BY <2>1 DEF RestoreStarts
  <2>2. CASE RestoreAsks(sess)
    BY <1>0, <1>4, <2>2
       DEF RestoreAsks, Restores, IsOpen, RequestNext, RegistryTypeOK
  <2>3. CASE RestoreReturns
    BY <2>3 DEF RestoreReturns, RequestNext
  <2> QED
    BY <1>4, <2>1, <2>2, <2>3 DEF Restores
<1>5. CASE BecomesReady
  BY <1>5 DEF BecomesReady, RestoreDone
<1>6. ASSUME NEW next, Ends(next)
      PROVE  RequestNext
  <2>1. {Attempt, KeepAlive} \in SUBSET Fibers /\ sess \in Sessions
    BY <1>0, <1>6 DEF Ends
  <2>2. EndsRequests(sess, {Attempt, KeepAlive})
    BY <1>6 DEF Ends
  <2> QED
    BY <2>1, <2>2 DEF RequestNext
<1>7. CASE AttemptFails \/ ReaderFails
  BY <1>6, <1>7 DEF AttemptFails, ReaderFails
<1>8. CASE CloseRequested
  BY <1>6, <1>8 DEF CloseRequested
<1>9. CASE SocketReleased \/ Closes
  BY <1>9 DEF SocketReleased, Closes, CloseRegistry
<1>10. ASSUME NEW f \in Fibers, SendsRequest(f) \/ SendFails(f)
       PROVE  RequestNext
  BY <1>10 DEF SendsRequest, SendFails, RequestNext
<1>11. ASSUME NEW s \in Sessions, RequestGivesUp(s)
       PROVE  RequestNext
  BY <1>11 DEF RequestGivesUp, RequestNext
<1>12. CASE ReadsReply
  <2>1. /\ Head(toClient) \in Frames
        /\ sess \in Sessions
    BY <1>0, <1>12 DEF ReadsReply, WiresOK
  <2>2. \/ UNCHANGED requestVars
        \/ SettlesReply(sess, Head(toClient).command, Head(toClient).verdict)
    BY <1>12 DEF ReadsReply
  <2> QED
    BY <2>1, <2>2, FrameParts DEF RequestNext
<1>13. CASE ReadsPush \/ ReaderUnblocked
  BY <1>13 DEF ReadsPush, ReaderUnblocked
<1>14. CASE KeepAliveAsks \/ KeepAliveReturns
  BY <1>0, <1>14 DEF KeepAliveAsks, KeepAliveReturns, IsOpen, RequestNext
<1>15. ASSUME NEW a \in Apps, AppRequests(a) \/ AppResumes(a) \/ AppInterrupted(a)
       PROVE  RequestNext
  BY <1>0, <1>15
     DEF AppRequests, AppResumes, AppInterrupted, IsOpen, RequestNext
<1>16. ASSUME NEW c \in Consumers, ConsumerTakes(c) \/ Registers(c) \/ Unregisters(c)
       PROVE  [RequestNext]_requestVars
  <2>1. CASE AddsLive(c)
    BY <2>1 DEF AddsLive, RequestNext, RegistryTypeOK
  <2>2. CASE LeavesUnsubscribing(c)
    BY <2>2 DEF LeavesUnsubscribing, RequestNext, RegistryTypeOK
  <2>3. CASE ConsumerTakes(c) \/ OpensSome(c) \/ AddsClosed(c) \/ AddsTaken(c)
             \/ AddsForLater(c) \/ Leaves(c) \/ LeavesQuietly(c)
    BY <2>3 DEF ConsumerTakes, Takes, OpensSome, Opens, AddsClosed, AddsTaken,
       AddsForLater, Leaves, LeavesQuietly
  <2> QED
    BY <1>16, <2>1, <2>2, <2>3 DEF Registers, Unregisters
<1>17. ASSUME NEW c \in Consumers, ConsumerReturns(c)
       PROVE  RequestNext
  BY <1>17 DEF ConsumerReturns, AddReturns, RemoveReturns, RequestNext
<1>18. CASE ControllerReplies \/ ControllerPushes \/ SocketDies
  BY <1>18 DEF ControllerReplies, ControllerPushes, SocketDies
<1> QED
  BY <1>1, <1>2, <1>3, <1>4, <1>5, <1>7, <1>8, <1>9, <1>10, <1>11, <1>12,
     <1>13, <1>14, <1>15, <1>16, <1>17, <1>18 DEF Next, ConsumerSteps

-----------------------------------------------------------------------------
LEMMA InitSessionInv == Init => SessionInv
<1> SUFFICES ASSUME Init PROVE SessionInv
  OBVIOUS
<1> USE DEF Init, RegistryInit
<1>1. SlotInv
  BY InitSlotInv
<1>2. SessionTypeOK
  <2>1. /\ buffered \in [Consumers -> 0 .. BufferSize]
        /\ asked \in [Consumers -> 0 .. 2]
    BY BufferSizeAssumption
  <2>2. RegistryTypeOK
    BY <2>1 DEF RegistryTypeOK, NoConsumer
  <2>3. sess \in 0 .. MaxSessions /\ Len(toClient) <= MaxChannel
    BY BoundsAssumption
  <2>4. DOMAIN toController = {}
    OBVIOUS
  <2> QED
    BY <1>1, <2>2, <2>3, <2>4 DEF SessionTypeOK, SlotInv, NoConsumer
<1>3. WiresOK
  BY DEF WiresOK
<1>4. Turns
  BY Names, NoSessionAssumption DEF Turns, IsOpen
<1>5. Errands
  BY Names DEF Errands, RequestInit, IsIdle
<1>6. Entered /\ Asking /\ Subscribing
  BY Names DEF Entered, Asking, SentAtMostOnce, Subscribing
<1> QED
  BY <1>1, <1>2, <1>3, <1>4, <1>5, <1>6 DEF SessionInv, SlotInv

-----------------------------------------------------------------------------
(* The types.                                                              *)
LEMMA RefusalTypes ==
    ASSUME RegistryTypeOK, NEW c \in Consumers, Refuses(c)
    PROVE  /\ entries' \in [Mids -> Consumers \cup {NoConsumer}]
           /\ stream' \in [Consumers -> {"open", "ended", "failed", "shutdown"}]
BY DEF RegistryTypeOK, Refuses, Unregistered, Registered

LEMMA RegistryTypesKept ==
    ASSUME SessionInv, [Next]_vars
    PROVE  RegistryTypeOK'
<1> USE Names DEF SessionInv, SessionTypeOK, RegistryTypeOK, NoConsumer
<1>1. CASE UNCHANGED registryVars
  BY <1>1 DEF registryVars
<1>2. CASE Restores
  <2>1. CASE RestoreStarts
    BY <2>1 DEF RestoreStarts
  <2>2. CASE RestoreAsks(sess)
    BY <2>2 DEF RestoreAsks, AskedOnce
  <2>3. CASE RestoreReturns
    <3>1. restored \in Consumers
      BY <1>2, <2>3 DEF RestoreReturns, Resumes, Errands, IsSettled, IsIdle, Idle, Restores
    <3>2. /\ entries' \in [Mids -> Consumers \cup {NoConsumer}]
          /\ stream' \in [Consumers -> {"open", "ended", "failed", "shutdown"}]
      BY <2>3, <3>1, RefusalTypes DEF RestoreReturns
    <3> QED
      BY <2>3, <3>2 DEF RestoreReturns
  <2> QED
    BY <1>2, <2>1, <2>2, <2>3 DEF Restores
<1>3. CASE BecomesReady
  BY <1>3 DEF BecomesReady, RestoreDone, Turns, IsOpen
<1>4. ASSUME NEW next, Ends(next)
      PROVE  RegistryTypeOK'
  BY <1>4 DEF Ends, Detaches
<1>5. CASE Closes
  BY <1>5 DEF Closes, CloseRegistry
<1>6. CASE ReadsPush
  BY <1>6 DEF ReadsPush
<1>7. CASE ReaderUnblocked
  BY <1>7, SMTT(30) DEF ReaderUnblocked
<1>8. ASSUME NEW c \in Consumers,
             Opens(c) \/ AddsClosed(c) \/ AddsTaken(c) \/ AddsForLater(c) \/ AddsLive(c)
      PROVE  RegistryTypeOK'
  <2>1. CASE Opens(c)
    BY <2>1 DEF Opens
  <2>2. CASE AddsClosed(c)
    BY <2>2 DEF AddsClosed
  <2>3. CASE AddsTaken(c)
    BY <2>3 DEF AddsTaken
  <2>4. CASE AddsForLater(c)
    BY <2>4 DEF AddsForLater
  <2>5. CASE AddsLive(c)
    BY <2>5 DEF AddsLive, AskedOnce
  <2> QED
    BY <1>8, <2>1, <2>2, <2>3, <2>4, <2>5
<1>9. ASSUME NEW c \in Consumers, Leaves(c) \/ LeavesUnsubscribing(c) \/ LeavesQuietly(c)
      PROVE  RegistryTypeOK'
  <2>1. CASE Leaves(c)
    BY <2>1 DEF Leaves, Unregistered, Registered
  <2>2. CASE LeavesUnsubscribing(c)
    BY <2>2 DEF LeavesUnsubscribing
  <2>3. CASE LeavesQuietly(c)
    BY <2>3 DEF LeavesQuietly
  <2> QED
    BY <1>9, <2>1, <2>2, <2>3
<1>10. ASSUME NEW c \in Consumers, AddReturns(c)
       PROVE  RegistryTypeOK'
  <2>1. /\ entries' \in [Mids -> Consumers \cup {NoConsumer}]
        /\ stream' \in [Consumers -> {"open", "ended", "failed", "shutdown"}]
    BY <1>10, RefusalTypes DEF AddReturns
  <2> QED
    BY <1>10, <2>1 DEF AddReturns
<1>11. ASSUME NEW c \in Consumers, RemoveReturns(c) \/ Takes(c)
       PROVE  RegistryTypeOK'
  <2>1. CASE RemoveReturns(c)
    BY <2>1 DEF RemoveReturns
  <2>2. CASE Takes(c)
    BY <2>2 DEF Takes
  <2> QED
    BY <1>11, <2>1, <2>2
<1>12. CASE UNCHANGED vars \/ SessionStarts \/ HandshakeReturns \/ SocketReleased
  BY <1>1, <1>12 DEF vars, SessionStarts, HandshakeReturns, SocketReleased
<1>13. CASE AttemptFails \/ ReaderFails \/ CloseRequested
  BY <1>1, <1>4, <1>13 DEF AttemptFails, ReaderFails, CloseRequested
<1>14. ASSUME NEW f \in Fibers, SendsRequest(f) \/ SendFails(f)
       PROVE  RegistryTypeOK'
  BY <1>1, <1>14 DEF SendsRequest, SendFails
<1>15. CASE ReadsReply \/ KeepAliveAsks \/ KeepAliveReturns
  BY <1>1, <1>15 DEF ReadsReply, KeepAliveAsks, KeepAliveReturns
<1>16. ASSUME NEW a \in Apps, AppRequests(a) \/ AppResumes(a) \/ AppInterrupted(a)
       PROVE  RegistryTypeOK'
  BY <1>1, <1>16 DEF AppRequests, AppResumes, AppInterrupted
<1>17. CASE ControllerReplies \/ ControllerPushes \/ SocketDies
  BY <1>1, <1>17 DEF ControllerReplies, ControllerPushes, SocketDies
<1>18. ASSUME NEW s \in Sessions, RequestGivesUp(s)
       PROVE  RegistryTypeOK'
  BY <1>1, <1>18 DEF RequestGivesUp
<1> QED
  BY <1>2, <1>3, <1>5, <1>6, <1>7, <1>8, <1>9, <1>10, <1>11, <1>12, <1>13,
     <1>14, <1>15, <1>16, <1>17, <1>18
     DEF Next, ConsumerTakes, ConsumerSteps, ConsumerReturns, Registers,
         Unregisters, OpensSome

LEMMA SessionTypesKept ==
    ASSUME SessionInv, [Next]_vars
    PROVE  /\ status' \in {"down", "handshake", "restoring", "ready", "closing", "closed"}
           /\ sess' \in 0 .. MaxSessions
           /\ up' \in BOOLEAN
           /\ subscribed' \subseteq Mids
           /\ blocked' \in Consumers \cup {NoConsumer}
           /\ WiresOK'
           /\ Len(toClient') <= MaxChannel
<1> DEFINE Goal ==
      /\ status' \in {"down", "handshake", "restoring", "ready", "closing", "closed"}
      /\ sess' \in 0 .. MaxSessions
      /\ up' \in BOOLEAN
      /\ subscribed' \subseteq Mids
      /\ blocked' \in Consumers \cup {NoConsumer}
      /\ WiresOK'
      /\ Len(toClient') <= MaxChannel
<1> USE Bounds DEF SessionInv, SessionTypeOK, WiresOK, NoConsumer
<1>1. CASE UNCHANGED <<sessionVars, wireVars>>
  BY <1>1 DEF sessionVars, wireVars
<1>2. CASE SessionStarts
  BY <1>2, Names DEF SessionStarts
<1>3. CASE HandshakeReturns \/ Restores \/ BecomesReady
  BY <1>1, <1>3 DEF HandshakeReturns, Restores, BecomesReady, wireVars, sessionVars
<1>4. ASSUME NEW next \in {"down", "closing"}, Ends(next)
      PROVE  Goal
  BY <1>4 DEF Ends
<1>5. CASE AttemptFails \/ ReaderFails \/ CloseRequested
  BY <1>4, <1>5 DEF AttemptFails, ReaderFails, CloseRequested, wireVars
<1>6. CASE SocketReleased
  <2>1. /\ up' = FALSE /\ toController' = <<>>
        /\ UNCHANGED <<status, sess, blocked, toClient, subscribed>>
    BY <1>6 DEF SocketReleased, sessionVars
  <2>2. WiresOK' /\ Len(toClient') <= MaxChannel
    BY <2>1
  <2> QED
    BY <2>1, <2>2 DEF WiresOK
<1>7. CASE Closes
  BY <1>7 DEF Closes, wireVars
<1>8. ASSUME NEW f \in Fibers, SendsRequest(f)
      PROVE  Goal
  <2>1. request[f].command \in Commands
    BY <1>8, Stages DEF SendsRequest
  <2> QED
    BY <1>8, <2>1 DEF SendsRequest, sessionVars
<1>9. ASSUME NEW f \in Fibers, SendFails(f)
      PROVE  Goal
  BY <1>1, <1>9 DEF SendFails
<1>10. ASSUME NEW s \in Sessions, RequestGivesUp(s)
       PROVE  Goal
  BY <1>1, <1>10 DEF RequestGivesUp
<1>11. CASE ReadsReply
  BY <1>11 DEF ReadsReply, sessionVars
<1>12. CASE ReadsPush
  <2>1. Head(toClient) \in Frames
    BY <1>12 DEF ReadsPush
  <2>2. entries[Head(toClient).command.mid] \in Consumers \cup {NoConsumer}
    BY <1>12, <2>1, FrameParts DEF ReadsPush, RegistryTypeOK
  <2> QED
    BY <1>12, <2>2 DEF ReadsPush
<1>13. CASE ReaderUnblocked
  BY <1>13 DEF ReaderUnblocked, wireVars
<1>14. CASE KeepAliveAsks \/ KeepAliveReturns
  BY <1>1, <1>14 DEF KeepAliveAsks, KeepAliveReturns
<1>15. ASSUME NEW a \in Apps, AppRequests(a) \/ AppResumes(a) \/ AppInterrupted(a)
       PROVE  Goal
  BY <1>1, <1>15 DEF AppRequests, AppResumes, AppInterrupted
<1>16. ASSUME NEW c \in Consumers,
              ConsumerTakes(c) \/ ConsumerSteps(c) \/ ConsumerReturns(c)
       PROVE  Goal
  BY <1>1, <1>16 DEF ConsumerTakes, ConsumerSteps, ConsumerReturns
<1>17. CASE ControllerReplies
  <2>1. Head(toController) \in Commands /\ Tail(toController) \in Seq(Commands)
    BY <1>17 DEF ControllerReplies
  <2>2. subscribed' \subseteq Mids
    BY <1>17, Names, <2>1, CommandsAssumption
       DEF ControllerReplies, Observed, SessionCommands, Subscribe, Unsubscribe,
           Start, Mirror, Query
  <2>3. toClient' \in Seq(Frames) /\ Len(toClient') <= MaxChannel
    <3>1. ASSUME NEW v \in {"accepted", "refused"}
          PROVE  Reply(Head(toController), v) \in Frames
      BY <2>1 DEF Frames
    <3>2. \/ toClient' = toClient
          \/ /\ Len(toClient) < MaxChannel
             /\ \E frame \in Frames : toClient' = Append(toClient, frame)
      BY <1>17, <3>1 DEF ControllerReplies
    <3> QED
      BY <3>2
  <2> QED
    BY <1>17, <2>1, <2>2, <2>3 DEF ControllerReplies, sessionVars
<1>18. CASE ControllerPushes
  BY <1>18 DEF ControllerPushes, Frames, sessionVars
<1>19. CASE SocketDies
  <2>1. /\ up' = FALSE /\ toController' = <<>>
        /\ toClient' = toClient \/ toClient' = <<>>
        /\ UNCHANGED <<status, sess, blocked, subscribed>>
    BY <1>19 DEF SocketDies, sessionVars
  <2>2. WiresOK' /\ Len(toClient') <= MaxChannel
    <3>1. CASE toClient' = toClient
      BY <2>1, <3>1
    <3>2. CASE toClient' = <<>>
      BY <2>1, <3>2
    <3> QED
      BY <2>1, <3>1, <3>2
  <2>3. /\ status' = status /\ sess' = sess /\ blocked' = blocked
        /\ subscribed' = subscribed
    BY <2>1
  <2> QED
    BY <2>1, <2>2, <2>3
<1>20. CASE UNCHANGED vars
  BY <1>1, <1>20 DEF vars
<1> QED
  BY <1>2, <1>3, <1>5, <1>6, <1>7, <1>8, <1>9, <1>10, <1>11, <1>12, <1>13,
     <1>14, <1>15, <1>16, <1>17, <1>18, <1>19, <1>20 DEF Next

-----------------------------------------------------------------------------
(* The steps that move the registry or the attempt; all others are quiet.  *)
Quiet == UNCHANGED <<entries, closed, live, turn, phase, stream, todo,
                     restored, asked, status, sess>>

AttemptRestores ==
    /\ status = "restoring"
    /\ RestoreStarts \/ RestoreAsks(sess) \/ RestoreReturns
    /\ UNCHANGED <<status, sess, up, toController, subscribed>>

ClosesIdle ==
    /\ status = "down" /\ status' = "closing"
    /\ UNCHANGED <<requestVars, registryVars, sess>>

ConsumerMoves(c) ==
    /\ \/ Opens(c) \/ AddsClosed(c) \/ AddsTaken(c) \/ AddsForLater(c)
       \/ AddsLive(c) \/ AddReturns(c)
       \/ Leaves(c) \/ LeavesUnsubscribing(c) \/ LeavesQuietly(c)
       \/ RemoveReturns(c)
    /\ UNCHANGED <<status, sess, up, toController, subscribed>>

LEMMA Moves ==
    ASSUME [Next]_vars
    PROVE  \/ Quiet
           \/ SessionStarts \/ HandshakeReturns \/ AttemptRestores \/ BecomesReady
           \/ \E next \in {"down", "closing"} : Ends(next)
           \/ ClosesIdle \/ Closes
           \/ \E c \in Consumers : ConsumerMoves(c)
<1>1. CASE UNCHANGED vars
  BY <1>1 DEF vars, registryVars, sessionVars, Quiet
<1>2. CASE Restores
  BY <1>2 DEF Restores, AttemptRestores, sessionVars, wireVars
<1>3. CASE AttemptFails \/ ReaderFails
  BY <1>3 DEF AttemptFails, ReaderFails
<1>4. CASE CloseRequested
  BY <1>4 DEF CloseRequested, ClosesIdle
<1>5. CASE SocketReleased
  BY <1>5 DEF SocketReleased, registryVars, sessionVars, Quiet
<1>6. ASSUME NEW f \in Fibers, SendsRequest(f) \/ SendFails(f)
      PROVE  Quiet
  BY <1>6 DEF SendsRequest, SendFails, registryVars, sessionVars, Quiet
<1>7. ASSUME NEW s \in Sessions, RequestGivesUp(s)
      PROVE  Quiet
  BY <1>7 DEF RequestGivesUp, registryVars, sessionVars, Quiet
<1>8. CASE ReadsReply
  BY <1>8 DEF ReadsReply, registryVars, sessionVars, Quiet
<1>9. CASE ReadsPush \/ ReaderUnblocked
  BY <1>9 DEF ReadsPush, ReaderUnblocked, Quiet
<1>10. CASE KeepAliveAsks \/ KeepAliveReturns
  BY <1>10 DEF KeepAliveAsks, KeepAliveReturns, registryVars, sessionVars, Quiet
<1>11. ASSUME NEW a \in Apps, AppRequests(a) \/ AppResumes(a) \/ AppInterrupted(a)
       PROVE  Quiet
  BY <1>11 DEF AppRequests, AppResumes, AppInterrupted, registryVars,
     sessionVars, Quiet
<1>12. ASSUME NEW c \in Consumers, ConsumerTakes(c)
       PROVE  Quiet
  BY <1>12 DEF ConsumerTakes, Takes, sessionVars, Quiet
<1>13. ASSUME NEW c \in Consumers, ConsumerSteps(c) \/ ConsumerReturns(c)
       PROVE  ConsumerMoves(c)
  BY <1>13 DEF ConsumerSteps, ConsumerReturns, Registers, Unregisters,
     OpensSome, sessionVars, wireVars, ConsumerMoves
<1>14. CASE ControllerReplies \/ ControllerPushes \/ SocketDies
  BY <1>14 DEF ControllerReplies, ControllerPushes, SocketDies, registryVars,
     sessionVars, Quiet
<1> QED
  BY <1>1, <1>2, <1>3, <1>4, <1>5, <1>6, <1>7, <1>8, <1>9, <1>10, <1>11,
     <1>12, <1>13, <1>14 DEF Next

-----------------------------------------------------------------------------
LEMMA TurnsKept ==
    ASSUME SessionInv, [Next]_vars
    PROVE  Turns'
<1> USE Names, NoSessionAssumption
    DEF SessionInv, SessionTypeOK, RegistryTypeOK, Turns, IsOpen
<1>1. CASE Quiet
  BY <1>1 DEF Quiet
<1>2. CASE SessionStarts
  BY <1>2, SessionsAssumption DEF SessionStarts, registryVars
<1>3. CASE HandshakeReturns
  BY <1>3 DEF HandshakeReturns, registryVars
<1>4. CASE AttemptRestores
  BY <1>4 DEF AttemptRestores, RestoreStarts, RestoreAsks, RestoreReturns
<1>5. CASE BecomesReady
  BY <1>5 DEF BecomesReady, RestoreDone
<1>6. ASSUME NEW next \in {"down", "closing"}, Ends(next)
      PROVE  Turns'
  BY <1>6 DEF Ends, Detaches
<1>7. CASE ClosesIdle
  BY <1>7 DEF ClosesIdle, registryVars
<1>8. CASE Closes
  BY <1>8 DEF Closes, CloseRegistry
<1>9. ASSUME NEW c \in Consumers, ConsumerMoves(c)
      PROVE  Turns'
  <2>1. CASE Opens(c) \/ AddsClosed(c) \/ AddsTaken(c) \/ AddsForLater(c)
    BY <1>9, <2>1 DEF ConsumerMoves, Opens, AddsClosed, AddsTaken, AddsForLater
  <2>2. CASE AddsLive(c)
    BY <1>9, <2>2 DEF ConsumerMoves, AddsLive
  <2>3. CASE AddReturns(c)
    BY <1>9, <2>3 DEF ConsumerMoves, AddReturns
  <2>4. CASE Leaves(c) \/ LeavesQuietly(c)
    BY <1>9, <2>4 DEF ConsumerMoves, Leaves, LeavesQuietly
  <2>5. CASE LeavesUnsubscribing(c)
    BY <1>9, <2>5 DEF ConsumerMoves, LeavesUnsubscribing
  <2>6. CASE RemoveReturns(c)
    BY <1>9, <2>6 DEF ConsumerMoves, RemoveReturns
  <2> QED
    BY <1>9, <2>1, <2>2, <2>3, <2>4, <2>5, <2>6 DEF ConsumerMoves
<1> QED
  BY <1>1, <1>2, <1>3, <1>4, <1>5, <1>6, <1>7, <1>8, <1>9, Moves

LEMMA EnteredKept ==
    ASSUME SessionInv, [Next]_vars
    PROVE  Entered'
<1> USE Names
    DEF SessionInv, SessionTypeOK, RegistryTypeOK, Entered, Registered, NoConsumer
<1>1. CASE Quiet \/ SessionStarts \/ HandshakeReturns \/ BecomesReady \/ ClosesIdle
  BY <1>1 DEF Quiet, SessionStarts, HandshakeReturns, BecomesReady, RestoreDone,
     ClosesIdle, registryVars
<1>2. CASE AttemptRestores
  <2>1. CASE RestoreStarts \/ RestoreAsks(sess)
    BY <2>1 DEF RestoreStarts, RestoreAsks
  <2>2. CASE RestoreReturns
    <3>1. restored \in Consumers
      BY <1>2, <2>2 DEF RestoreReturns, Resumes, Errands, IsSettled, IsIdle,
         Idle, AttemptRestores
    <3>2. CASE UNCHANGED <<entries, stream>>
      BY <2>2, <3>2 DEF RestoreReturns
    <3>3. CASE Refuses(restored)
      BY <2>2, <3>1, <3>3 DEF RestoreReturns, Refuses, Unregistered
    <3> QED
      BY <2>2, <3>2, <3>3 DEF RestoreReturns
  <2> QED
    BY <1>2, <2>1, <2>2 DEF AttemptRestores
<1>3. ASSUME NEW next \in {"down", "closing"}, Ends(next)
      PROVE  Entered'
  BY <1>3 DEF Ends, Detaches
<1>4. CASE Closes
  BY <1>4 DEF Closes, CloseRegistry
<1>5. ASSUME NEW c \in Consumers, ConsumerMoves(c)
      PROVE  Entered'
  <2>1. CASE Opens(c)
    BY <2>1 DEF Opens
  <2>2. CASE AddsClosed(c)
    BY <2>2 DEF AddsClosed
  <2>3. CASE AddsTaken(c)
    BY <2>3 DEF AddsTaken
  <2>4. CASE AddsForLater(c)
    BY <2>4 DEF AddsForLater, Turns
  <2>5. CASE AddsLive(c)
    BY <2>5 DEF AddsLive, Turns
  <2>6. CASE AddReturns(c)
    <3>1. CASE UNCHANGED <<entries, stream>>
      BY <2>6, <3>1 DEF AddReturns
    <3>2. CASE Refuses(c)
      BY <2>6, <3>2 DEF AddReturns, Refuses, Unregistered
    <3> QED
      BY <2>6, <3>1, <3>2 DEF AddReturns
  <2>7. CASE Leaves(c)
    BY <2>7 DEF Leaves, Unregistered
  <2>8. CASE LeavesUnsubscribing(c)
    BY <2>8 DEF LeavesUnsubscribing
  <2>9. CASE LeavesQuietly(c)
    BY <2>9 DEF LeavesQuietly
  <2>10. CASE RemoveReturns(c)
    BY <2>10 DEF RemoveReturns
  <2> QED
    BY <1>5, <2>1, <2>2, <2>3, <2>4, <2>5, <2>6, <2>7, <2>8, <2>9, <2>10
       DEF ConsumerMoves
<1> QED
  BY <1>1, <1>2, <1>3, <1>4, <1>5, Moves

\* A fiber that has not the restoring attempt's turn finds nothing to restore.
LEMMA NothingTodo ==
    ASSUME SessionInv, turn # Attempt
    PROVE  todo = {}
BY DEF SessionInv, SessionTypeOK, RegistryTypeOK, Asking

LEMMA AskingKept ==
    ASSUME SessionInv, [Next]_vars
    PROVE  Asking'
<1> USE Names
    DEF SessionInv, SessionTypeOK, RegistryTypeOK, Asking, SentAtMostOnce,
        Registered, NoConsumer
<1>1. CASE Quiet \/ SessionStarts \/ HandshakeReturns \/ ClosesIdle
  BY <1>1 DEF Quiet, SessionStarts, HandshakeReturns, ClosesIdle, registryVars
<1>2. CASE AttemptRestores
  <2>1. live = NoSession /\ ~closed
    BY <1>2 DEF AttemptRestores, Turns
  <2>2. CASE RestoreStarts
    <3>1. \A c \in Consumers : asked[c] = 0
      BY <2>1, <2>2 DEF RestoreStarts
    <3>2. \A c \in Consumers : Registered(c) => phase[c] = "streaming"
      BY <2>2 DEF RestoreStarts, Entered, Turns
    <3> QED
      BY <2>2, <3>1, <3>2 DEF RestoreStarts
  <2>3. CASE RestoreAsks(sess)
    BY <2>3 DEF RestoreAsks, AskedOnce
  <2>4. CASE RestoreReturns
    <3>1. restored \in Consumers
      BY <1>2, <2>4 DEF RestoreReturns, Resumes, Errands, IsSettled, IsIdle,
         Idle, AttemptRestores
    <3>2. CASE UNCHANGED <<entries, stream>>
      BY <2>4, <3>2 DEF RestoreReturns
    <3>3. CASE Refuses(restored)
      BY <2>4, <3>1, <3>3 DEF RestoreReturns, Refuses, Unregistered
    <3> QED
      BY <2>4, <3>2, <3>3 DEF RestoreReturns
  <2> QED
    BY <1>2, <2>2, <2>3, <2>4 DEF AttemptRestores
<1>3. CASE BecomesReady
  BY <1>3, NoSessionAssumption DEF BecomesReady, RestoreDone, Turns, IsOpen
<1>4. ASSUME NEW next \in {"down", "closing"}, Ends(next)
      PROVE  Asking'
  BY <1>4 DEF Ends, Detaches
<1>5. CASE Closes
  BY <1>5, NothingTodo DEF Closes, CloseRegistry, Turns
<1>6. ASSUME NEW c \in Consumers, ConsumerMoves(c)
      PROVE  Asking'
  <2>1. CASE Opens(c)
    BY <2>1 DEF Opens
  <2>2. CASE AddsClosed(c)
    BY <2>2, NothingTodo DEF AddsClosed
  <2>3. CASE AddsTaken(c)
    BY <2>3, NothingTodo DEF AddsTaken
  <2>4. CASE AddsForLater(c)
    BY <2>4, NothingTodo DEF AddsForLater
  <2>5. CASE AddsLive(c)
    BY <2>5, NothingTodo DEF AddsLive, AskedOnce
  <2>6. CASE AddReturns(c)
    BY <2>6, NothingTodo DEF AddReturns, Turns
  <2>7. CASE Leaves(c)
    BY <2>7 DEF Leaves, Unregistered
  <2>8. CASE LeavesUnsubscribing(c)
    BY <2>8, NothingTodo DEF LeavesUnsubscribing
  <2>9. CASE LeavesQuietly(c)
    BY <2>9, NothingTodo DEF LeavesQuietly
  <2>10. CASE RemoveReturns(c)
    BY <2>10, NothingTodo DEF RemoveReturns, Turns
  <2> QED
    BY <1>6, <2>1, <2>2, <2>3, <2>4, <2>5, <2>6, <2>7, <2>8, <2>9, <2>10
       DEF ConsumerMoves
<1> QED
  BY <1>1, <1>2, <1>3, <1>4, <1>5, <1>6, Moves

-----------------------------------------------------------------------------
(* A fiber keeps its errand while its request goes through the slot.       *)
SameErrand(f) ==
    /\ IsIdle(f)' = IsIdle(f)
    /\ ~IsIdle(f) => /\ request'[f].command = request[f].command
                     /\ request'[f].session = request[f].session

LEMMA SettledSameErrand ==
    ASSUME RequestTypeOK, NEW g \in Fibers, NEW v \in Verdicts, ~IsIdle(g),
           request' = [request EXCEPT ![g] = SettledAs(g, v)]
    PROVE  \A f \in Fibers : SameErrand(f)
BY DEF RequestTypeOK, SameErrand, IsIdle, SettledAs, Idle

LEMMA SentSameErrand ==
    ASSUME RequestTypeOK, NEW g \in Fibers, Sends(g)
    PROVE  \A f \in Fibers : SameErrand(f)
<1>1. request[g] \in Asked /\ request[g] # Idle
  BY Stages DEF Sends, IsIdle
<1>2. request' = [request EXCEPT ![g].at = "slot"]
  BY DEF Sends
<1> QED
  BY <1>1, <1>2 DEF RequestTypeOK, SameErrand, IsIdle, Asked, Idle

\* What ends with the session are the errands of its own fibers.
LEMMA EndsSameErrand ==
    ASSUME RequestTypeOK, NEW s \in Sessions, NEW gone \in SUBSET Fibers,
           EndsRequests(s, gone)
    PROVE  /\ \A f \in gone : IsIdle(f)'
           /\ \A f \in Fibers \ gone : SameErrand(f)
BY DEF RequestTypeOK, EndsRequests, SameErrand, IsIdle, IsSent, SettledAs, Idle

\* The steps that only move requests along, without a new errand.
LEMMA QuietErrands ==
    ASSUME SessionInv, [Next]_vars
    PROVE  \/ \A f \in Fibers : SameErrand(f)
           \/ SessionStarts \/ HandshakeReturns \/ AttemptRestores
           \/ \E next \in {"down", "closing"} : Ends(next)
           \/ \E c \in Consumers : ConsumerMoves(c)
           \/ Quiet /\ (KeepAliveAsks \/ KeepAliveReturns)
           \/ Quiet /\ \E a \in Apps :
                         AppRequests(a) \/ AppResumes(a) \/ AppInterrupted(a)
<1> USE DEF SessionInv, SessionTypeOK
<1>1. CASE UNCHANGED request
  BY <1>1 DEF SameErrand, IsIdle
<1>2. CASE UNCHANGED requestVars
  BY <1>1, <1>2 DEF requestVars
<1>3. CASE UNCHANGED vars \/ BecomesReady \/ SocketReleased \/ Closes
           \/ ReadsPush \/ ReaderUnblocked
  BY <1>2, <1>3 DEF vars, BecomesReady, RestoreDone, SocketReleased, Closes,
     CloseRegistry, ReadsPush, ReaderUnblocked
<1>4. CASE Restores
  BY <1>4 DEF Restores, AttemptRestores, sessionVars, wireVars
<1>5. CASE AttemptFails \/ ReaderFails
  BY <1>5 DEF AttemptFails, ReaderFails
<1>6. CASE CloseRequested
  BY <1>2, <1>6 DEF CloseRequested
<1>7. ASSUME NEW f \in Fibers, SendsRequest(f)
      PROVE  \A g \in Fibers : SameErrand(g)
  BY <1>7, SentSameErrand DEF SendsRequest
<1>8. ASSUME NEW f \in Fibers, SendFails(f)
      PROVE  \A g \in Fibers : SameErrand(g)
  BY <1>8, SettledSameErrand, Stages DEF SendFails, FailsToSend, Verdicts
<1>9. ASSUME NEW s \in Sessions, RequestGivesUp(s)
      PROVE  \A g \in Fibers : SameErrand(g)
  <2>1. slot[s] \in Fibers /\ ~IsIdle(slot[s])
    BY <1>9, Stages DEF RequestGivesUp, TimesOut, RequestTypeOK
  <2> QED
    BY <1>9, <2>1, SettledSameErrand DEF RequestGivesUp, TimesOut, Verdicts
<1>10. CASE ReadsReply
  <2>1. sess \in Sessions /\ Head(toClient) \in Frames
    BY <1>10 DEF ReadsReply, Turns, WiresOK
  <2>2. CASE UNCHANGED requestVars
    BY <1>2, <2>2
  <2>3. CASE SettlesReply(sess, Head(toClient).command, Head(toClient).verdict)
    <3>1. slot[sess] \in Fibers /\ Head(toClient).verdict \in Verdicts
      BY <2>1, <2>3, FrameParts
         DEF SettlesReply, Recognises, RequestTypeOK, Verdicts
    <3>2. CASE IsSent(slot[sess])
      BY <2>3, <3>1, <3>2, SettledSameErrand, Stages DEF SettlesReply
    <3>3. CASE ~IsSent(slot[sess])
      BY <1>1, <2>3, <3>3 DEF SettlesReply
    <3> QED
      BY <3>2, <3>3
  <2> QED
    BY <1>10, <2>2, <2>3 DEF ReadsReply
<1>11. CASE KeepAliveAsks \/ KeepAliveReturns
  BY <1>11 DEF KeepAliveAsks, KeepAliveReturns, registryVars, sessionVars, Quiet
<1>12. ASSUME NEW a \in Apps, AppRequests(a) \/ AppResumes(a) \/ AppInterrupted(a)
       PROVE  Quiet
  BY <1>12 DEF AppRequests, AppResumes, AppInterrupted, registryVars,
     sessionVars, Quiet
<1>13. ASSUME NEW c \in Consumers, ConsumerTakes(c)
       PROVE  UNCHANGED requestVars
  BY <1>13 DEF ConsumerTakes, Takes
<1>14. ASSUME NEW c \in Consumers, ConsumerSteps(c) \/ ConsumerReturns(c)
       PROVE  ConsumerMoves(c)
  BY <1>14 DEF ConsumerSteps, ConsumerReturns, Registers, Unregisters,
     OpensSome, sessionVars, wireVars, ConsumerMoves
<1>15. CASE ControllerReplies \/ ControllerPushes \/ SocketDies
  BY <1>2, <1>15 DEF ControllerReplies, ControllerPushes, SocketDies
<1> QED
  BY <1>2, <1>3, <1>4, <1>5, <1>6, <1>7, <1>8, <1>9, <1>10, <1>11, <1>12,
     <1>13, <1>14, <1>15 DEF Next

LEMMA ErrandsKept ==
    ASSUME SessionInv, [Next]_vars
    PROVE  Errands'
<1> USE Names DEF SessionInv, SessionTypeOK, RegistryTypeOK
<1>1. CASE SessionStarts
  <2>1. /\ request' = [request EXCEPT ![Attempt] =
             [at |-> "gate", command |-> Start, session |-> sess + 1]]
        /\ status' = "handshake" /\ sess' = sess + 1
        /\ UNCHANGED <<phase, turn, restored>>
    BY <1>1 DEF SessionStarts, Asks, registryVars
  <2> QED
    BY <2>1 DEF Errands, IsIdle, RequestTypeOK, Idle
<1>2. CASE HandshakeReturns
  <2>1. /\ request' = [request EXCEPT ![Attempt] = Idle]
        /\ status = "handshake" /\ status' = "restoring"
        /\ UNCHANGED <<phase, turn, restored, sess>>
    BY <1>2 DEF HandshakeReturns, Resumes, registryVars
  <2> QED
    BY <2>1 DEF Errands, IsIdle, RequestTypeOK
<1>3. CASE AttemptRestores
  <2>1. status = "restoring" /\ UNCHANGED <<status, sess>>
    BY <1>3 DEF AttemptRestores
  <2>2. CASE RestoreStarts
    BY <2>1, <2>2 DEF RestoreStarts, requestVars, Errands, IsIdle
  <2>3. CASE RestoreAsks(sess)
    <3>1. PICK c \in todo :
            /\ request' = [request EXCEPT ![Attempt] =
                 [at |-> "gate", command |-> Subscribe(MidOf[c]), session |-> sess]]
            /\ restored' = c
            /\ turn = Attempt
            /\ UNCHANGED <<phase, turn>>
      BY <2>3 DEF RestoreAsks, Asks
    <3>2. c \in Consumers
      OBVIOUS
    <3> QED
      BY <2>1, <3>1, <3>2 DEF Errands, IsIdle, RequestTypeOK, Idle
  <2>4. CASE RestoreReturns
    <3>1. /\ request' = [request EXCEPT ![Attempt] = Idle]
          /\ UNCHANGED <<phase, turn>>
      BY <2>4 DEF RestoreReturns, Resumes
    <3> QED
      BY <2>1, <3>1 DEF Errands, IsIdle, RequestTypeOK
  <2> QED
    BY <1>3, <2>2, <2>3, <2>4 DEF AttemptRestores
<1>4. ASSUME NEW next \in {"down", "closing"}, Ends(next)
      PROVE  Errands'
  <2>1. /\ \A f \in {Attempt, KeepAlive} : IsIdle(f)'
        /\ \A f \in Fibers \ {Attempt, KeepAlive} : SameErrand(f)
    BY <1>4, EndsSameErrand, ZenonT(40) DEF Ends, Turns
  <2>2. /\ status' \in {"down", "closing"} /\ sess' = sess
        /\ UNCHANGED phase
    BY <1>4 DEF Ends, Detaches
  <2> QED
    BY <2>1, <2>2 DEF Errands, SameErrand
<1>5. ASSUME NEW c \in Consumers, ConsumerMoves(c)
      PROVE  Errands'
  <2>1. UNCHANGED <<status, sess>>
    BY <1>5 DEF ConsumerMoves
  <2>2. CASE Opens(c) \/ AddsClosed(c) \/ AddsTaken(c) \/ AddsForLater(c)
             \/ Leaves(c) \/ LeavesQuietly(c)
    <3>1. /\ UNCHANGED <<request, restored>>
          /\ turn' = turn
          /\ \A d \in Consumers : d # c => phase'[d] = phase[d]
          /\ phase[c] \notin {"adding", "unsubscribing"}
          /\ phase'[c] \notin {"adding", "unsubscribing"}
      BY <2>2 DEF Opens, AddsClosed, AddsTaken, AddsForLater, Leaves,
         LeavesQuietly, requestVars
    <3> QED
      BY <2>1, <3>1 DEF Errands, IsIdle
  <2>3. CASE AddsLive(c)
    <3>1. /\ request' = [request EXCEPT ![c] =
               [at |-> "gate", command |-> Subscribe(MidOf[c]), session |-> live]]
          /\ turn # Attempt
          /\ phase' = [phase EXCEPT ![c] = "adding"]
          /\ UNCHANGED restored
          /\ live = sess /\ status = "ready"
      BY <2>3 DEF AddsLive, Asks, Turns
    <3> QED
      BY <2>1, <3>1 DEF Errands, IsIdle, RequestTypeOK, Idle
  <2>4. CASE LeavesUnsubscribing(c)
    <3>1. /\ request' = [request EXCEPT ![c] =
               [at |-> "gate", command |-> Unsubscribe(MidOf[c]), session |-> live]]
          /\ turn # Attempt
          /\ phase' = [phase EXCEPT ![c] = "unsubscribing"]
          /\ UNCHANGED restored
          /\ live = sess /\ status = "ready"
      BY <2>4 DEF LeavesUnsubscribing, Asks, Turns
    <3> QED
      BY <2>1, <3>1 DEF Errands, IsIdle, RequestTypeOK, Idle
  <2>5. CASE AddReturns(c) \/ RemoveReturns(c)
    <3>1. /\ request' = [request EXCEPT ![c] = Idle]
          /\ turn # Attempt
          /\ \A d \in Consumers : d # c => phase'[d] = phase[d]
          /\ phase'[c] \notin {"adding", "unsubscribing"}
          /\ UNCHANGED restored
      BY <2>5 DEF AddReturns, RemoveReturns, Resumes, Turns
    <3> QED
      BY <2>1, <3>1 DEF Errands, IsIdle, RequestTypeOK
  <2> QED
    BY <1>5, <2>2, <2>3, <2>4, <2>5 DEF ConsumerMoves
<1>6. CASE Quiet /\ (KeepAliveAsks \/ KeepAliveReturns)
  <2>1. /\ \A f \in Fibers : f # KeepAlive => request'[f] = request[f]
        /\ request'[KeepAlive] = Idle \/ request'[KeepAlive].command = Mirror
    BY <1>6 DEF KeepAliveAsks, KeepAliveReturns, Asks, Resumes, RequestTypeOK
  <2>2. UNCHANGED <<phase, status, sess, turn, restored>>
    BY <1>6 DEF Quiet, KeepAliveAsks, KeepAliveReturns, registryVars
  <2> QED
    BY <2>1, <2>2 DEF Errands, IsIdle
<1>7. ASSUME Quiet, NEW a \in Apps,
             AppRequests(a) \/ AppResumes(a) \/ AppInterrupted(a)
      PROVE  Errands'
  <2>1. /\ \A f \in Fibers : f # a => request'[f] = request[f]
        /\ request'[a] = Idle \/ request'[a].command = Query
    BY <1>7 DEF AppRequests, AppResumes, AppInterrupted, Asks, Resumes,
       Interrupted, RequestTypeOK
  <2>2. UNCHANGED <<phase, status, sess, turn, restored>>
    BY <1>7 DEF Quiet, AppRequests, AppResumes, AppInterrupted, registryVars
  <2> QED
    BY <2>1, <2>2 DEF Errands, IsIdle
<1>8. CASE \A f \in Fibers : SameErrand(f)
  <2>1. CASE Quiet
    BY <1>8, <2>1 DEF Errands, SameErrand, Quiet
  <2>2. CASE BecomesReady
    BY <1>8, <2>2 DEF Errands, SameErrand, BecomesReady, RestoreDone, Turns
  <2>3. CASE ClosesIdle \/ Closes
    BY <1>8, <2>3 DEF Errands, SameErrand, ClosesIdle, Closes, CloseRegistry,
       registryVars
  <2> QED
    BY <1>1, <1>2, <1>3, <1>4, <1>5, <2>1, <2>2, <2>3, Moves
<1> QED
  BY <1>1, <1>2, <1>3, <1>4, <1>5, <1>6, <1>7, <1>8, QuietErrands

-----------------------------------------------------------------------------
(* The last word on a MID.                                                 *)
LEMMA LastWordStays ==
    ASSUME NEW m \in Mids, NEW observed, NEW way \in Seq(Commands),
           NEW command \in Commands, command # Unsubscribe(m),
           LastWord(m, observed, way)
    PROVE  LastWord(m, observed, Append(way, command))
<1> DEFINE longer == Append(way, command)
<1>1. /\ Len(longer) = Len(way) + 1 /\ Len(way) \in Nat
      /\ \A i \in 1 .. Len(way) : longer[i] = way[i]
      /\ longer[Len(way) + 1] = command
  OBVIOUS
<1> HIDE DEF longer
<1>2. \A i \in 1 .. Len(longer) : i \in 1 .. Len(way) \/ i = Len(way) + 1
  BY <1>1
<1>3. ASSUME NEW i \in 1 .. Len(way), way[i] = Subscribe(m),
             \A j \in 1 .. Len(way) : j > i => way[j] # Unsubscribe(m)
      PROVE  LastWord(m, observed, longer)
  <2>1. i \in 1 .. Len(longer) /\ longer[i] = Subscribe(m)
    BY <1>1, <1>3
  <2>2. \A j \in 1 .. Len(longer) : j > i => longer[j] # Unsubscribe(m)
    BY <1>1, <1>2, <1>3
  <2> QED
    BY <2>1, <2>2 DEF LastWord
<1>4. LastWord(m, observed, longer)
  <2>1. \/ m \in observed /\ \A i \in 1 .. Len(way) : way[i] # Unsubscribe(m)
        \/ \E i \in 1 .. Len(way) :
             /\ way[i] = Subscribe(m)
             /\ \A j \in 1 .. Len(way) : j > i => way[j] # Unsubscribe(m)
    BY DEF LastWord
  <2>2. CASE m \in observed /\ \A i \in 1 .. Len(way) : way[i] # Unsubscribe(m)
    <3>1. \A i \in 1 .. Len(longer) : longer[i] # Unsubscribe(m)
      BY <1>1, <1>2, <2>2
    <3> QED
      BY <2>2, <3>1 DEF LastWord
  <2> QED
    BY <1>3, <2>1, <2>2
<1> QED
  BY <1>4 DEF longer

LEMMA LastWordSent ==
    ASSUME NEW m \in Mids, NEW observed, NEW way \in Seq(Commands)
    PROVE  LastWord(m, observed, Append(way, Subscribe(m)))
<1> DEFINE longer == Append(way, Subscribe(m))
<1>1. /\ Len(longer) = Len(way) + 1 /\ Len(way) \in Nat
      /\ longer[Len(way) + 1] = Subscribe(m)
  BY Names
<1> HIDE DEF longer
<1>2. /\ Len(longer) \in 1 .. Len(longer)
      /\ \A j \in 1 .. Len(longer) : ~(j > Len(longer))
  BY <1>1
<1>3. LastWord(m, observed, longer)
  BY <1>1, <1>2 DEF LastWord
<1> QED
  BY <1>3 DEF longer

LEMMA ObservedOf ==
    ASSUME NEW m \in Mids, NEW command \in Commands, subscribed \subseteq Mids
    PROVE  /\ command = Subscribe(m) => m \in Observed(command)
           /\ m \in subscribed /\ command # Unsubscribe(m) => m \in Observed(command)
BY CommandsAssumption
   DEF Observed, SessionCommands, Subscribe, Unsubscribe, Start, Mirror, Query

LEMMA LastWordMovesOn ==
    ASSUME NEW m \in Mids, subscribed \subseteq Mids,
           toController \in Seq(Commands), toController # <<>>,
           LastWord(m, subscribed, toController)
    PROVE  LastWord(m, Observed(Head(toController)), Tail(toController))
<1> DEFINE head == Head(toController)
           tail == Tail(toController)
<1>1. /\ head \in Commands /\ toController[1] = head
      /\ Len(toController) \in Nat /\ Len(toController) >= 1
      /\ Len(tail) = Len(toController) - 1
      /\ \A i \in 1 .. Len(tail) : tail[i] = toController[i + 1]
  OBVIOUS
<1> HIDE DEF head, tail
<1>2. \A i \in 1 .. Len(tail) : i + 1 \in 1 .. Len(toController)
  BY <1>1
<1>3. CASE /\ m \in subscribed
           /\ \A i \in 1 .. Len(toController) : toController[i] # Unsubscribe(m)
  <2>1. head # Unsubscribe(m)
    BY <1>1, <1>3
  <2>2. m \in Observed(head)
    BY <1>1, <1>3, <2>1, ObservedOf
  <2>3. \A i \in 1 .. Len(tail) : tail[i] # Unsubscribe(m)
    BY <1>1, <1>2, <1>3
  <2> QED
    BY <2>2, <2>3 DEF LastWord, head, tail
<1>4. ASSUME NEW i \in 1 .. Len(toController), toController[i] = Subscribe(m),
             \A j \in 1 .. Len(toController) :
               j > i => toController[j] # Unsubscribe(m)
      PROVE  LastWord(m, Observed(head), tail)
  <2>1. CASE i = 1
    <3>1. m \in Observed(head)
      BY <1>1, <1>4, <2>1, ObservedOf
    <3>2. \A j \in 1 .. Len(tail) : tail[j] # Unsubscribe(m)
      BY <1>1, <1>2, <1>4, <2>1
    <3> QED
      BY <3>1, <3>2 DEF LastWord
  <2>2. CASE i # 1
    <3>1. i - 1 \in 1 .. Len(tail) /\ tail[i - 1] = Subscribe(m)
      BY <1>1, <1>4, <2>2
    <3>2. \A j \in 1 .. Len(tail) : j > i - 1 => tail[j] # Unsubscribe(m)
      BY <1>1, <1>2, <1>4
    <3> QED
      BY <3>1, <3>2 DEF LastWord
  <2> QED
    BY <2>1, <2>2
<1> QED
  BY <1>3, <1>4 DEF LastWord, head, tail

LEMMA LastWordArrived ==
    ASSUME NEW m, NEW observed, LastWord(m, observed, <<>>)
    PROVE  m \in observed
BY DEF LastWord

-----------------------------------------------------------------------------
\* Nothing new is registered, nothing that was to be sent is given up, and
\* the way to the controller is left alone.
LEMMA SubscribingLeft ==
    ASSUME Subscribing,
           UNCHANGED <<subscribed, toController>>,
           up' => up,
           status' = "ready" \/ turn' = Attempt => status = "ready" \/ turn = Attempt,
           \A m \in Mids : entries'[m] # NoConsumer =>
             /\ entries'[m] = entries[m]
             /\ ToBeSent(entries[m]) => ToBeSent(entries[m])'
    PROVE  Subscribing'
BY DEF Subscribing

LEMMA SendKeepsSubscribing ==
    ASSUME SessionInv, NEW f \in Fibers, SendsRequest(f)
    PROVE  Subscribing'
<1> USE Names DEF SessionInv, SessionTypeOK, RegistryTypeOK, NoConsumer
<1> DEFINE command == request[f].command
<1>1. /\ request' = [request EXCEPT ![f].at = "slot"]
      /\ toController' = Append(toController, command)
      /\ UNCHANGED <<registryVars, status, sess, up, subscribed>>
      /\ Queues(f) /\ ~IsIdle(f) /\ command \in Commands
  BY Stages DEF SendsRequest, Sends, sessionVars
<1>2. \A g \in Fibers : g # f => request'[g] = request[g]
  BY <1>1 DEF RequestTypeOK
<1> SUFFICES ASSUME up, status = "ready" \/ turn = Attempt,
                    NEW m \in Mids, entries[m] # NoConsumer
             PROVE  ToBeSent(entries[m])' \/ LastWord(m, subscribed, toController')
  BY <1>1 DEF Subscribing, registryVars
<1> DEFINE c == entries[m]
<1>3. c \in Consumers /\ MidOf[c] = m
  BY DEF Entered
<1>4. toController \in Seq(Commands)
  BY DEF WiresOK
<1>5. CASE ToBeSent(c)
  <2>1. CASE c \in todo
    BY <1>1, <2>1 DEF ToBeSent, registryVars
  <2>2. CASE restored = c /\ Queues(Attempt)
    <3>1. CASE f = Attempt
      <4>1. command = Subscribe(m)
        BY <1>1, <1>3, <2>2, <3>1 DEF Errands, Turns
      <4> QED
        BY <1>1, <1>4, <4>1, LastWordSent
    <3>2. CASE f # Attempt
      BY <1>1, <1>2, <2>2, <3>2 DEF ToBeSent, Queues, registryVars
    <3> QED
      BY <3>1, <3>2
  <2>3. CASE phase[c] = "adding" /\ Queues(c)
    <3>1. CASE f = c
      <4>1. command = Subscribe(m)
        BY <1>1, <1>3, <2>3, <3>1 DEF Errands
      <4> QED
        BY <1>1, <1>4, <4>1, LastWordSent
    <3>2. CASE f # c
      BY <1>1, <1>2, <1>3, <2>3, <3>2 DEF ToBeSent, Queues, registryVars
    <3> QED
      BY <3>1, <3>2
  <2> QED
    BY <1>5, <2>1, <2>2, <2>3 DEF ToBeSent
<1>6. CASE LastWord(m, subscribed, toController)
  <2>1. command # Unsubscribe(m)
    <3>1. CASE f \in Consumers
      <4>1. phase[f] = "adding" \/ phase[f] = "unsubscribing"
        BY <1>1, <3>1 DEF Errands
      <4>2. CASE phase[f] = "adding"
        <5>1. command = Subscribe(MidOf[f])
          BY <3>1, <4>2 DEF Errands
        <5> QED
          BY <5>1 DEF Subscribe, Unsubscribe
      <4>3. CASE phase[f] = "unsubscribing"
        <5>1. command = Unsubscribe(MidOf[f]) /\ MidOf[f] # m
          BY <3>1, <4>3 DEF Errands, Entered
        <5> QED
          BY <5>1 DEF Unsubscribe
      <4> QED
        BY <4>1, <4>2, <4>3
    <3>2. CASE f = Attempt
      <4>1. command = Start \/ command = Subscribe(MidOf[restored])
        BY <1>1, <3>2 DEF Errands
      <4> QED
        BY <4>1 DEF Start, Subscribe, Unsubscribe
    <3>3. CASE f \notin Consumers /\ f # Attempt
      <4>1. command = Query \/ command = Mirror
        BY <1>1, <3>3 DEF Errands
      <4> QED
        BY <4>1 DEF Query, Mirror, Unsubscribe
    <3> QED
      BY <3>1, <3>2, <3>3
  <2> QED
    BY <1>1, <1>4, <1>6, <2>1, LastWordStays
<1> QED
  BY <1>5, <1>6 DEF Subscribing

\* A step of requests that lets those that queue for the gate queue on.
LEMMA QueuesOn ==
    ASSUME SessionInv, Quiet, UNCHANGED <<up, toController, subscribed>>,
           Queues(Attempt) => Queues(Attempt)',
           \A c \in Consumers : Queues(c) => Queues(c)'
    PROVE  Subscribing'
<1> USE DEF SessionInv, SessionTypeOK, RegistryTypeOK, NoConsumer
<1>1. UNCHANGED <<entries, todo, restored, phase, turn, status>>
  BY DEF Quiet
<1>2. \A m \in Mids : entries'[m] # NoConsumer =>
        /\ entries'[m] = entries[m]
        /\ ToBeSent(entries[m]) => ToBeSent(entries[m])'
  BY <1>1, Names DEF ToBeSent
<1> QED
  BY <1>1, <1>2, SubscribingLeft

\* The request in a slot comes to an end; those at the gate are not its.
LEMMA InSlotQueuesOn ==
    ASSUME RequestTypeOK, NEW s \in Sessions, IsSent(slot[s]), NEW v,
           slot[s] \in Fibers,
           request' = [request EXCEPT ![slot[s]] = SettledAs(slot[s], v)]
    PROVE  \A f \in Fibers : Queues(f) => Queues(f)'
BY Stages DEF RequestTypeOK, Queues

LEMMA ConsumerKeepsSubscribing ==
    ASSUME SessionInv, NEW c \in Consumers, ConsumerMoves(c)
    PROVE  Subscribing'
<1> USE Names DEF SessionInv, SessionTypeOK, RegistryTypeOK, NoConsumer
<1>1. UNCHANGED <<status, up, toController, subscribed>>
  BY DEF ConsumerMoves
<1>2. CASE AddsForLater(c)
  BY <1>1, <1>2 DEF AddsForLater, Turns, Subscribing
<1>3. CASE AddsLive(c)
  <2>1. /\ request' = [request EXCEPT ![c] =
             [at |-> "gate", command |-> Subscribe(MidOf[c]), session |-> live]]
        /\ entries' = [entries EXCEPT ![MidOf[c]] = c]
        /\ phase' = [phase EXCEPT ![c] = "adding"]
        /\ turn = NoFiber /\ status = "ready"
        /\ UNCHANGED <<todo, restored>>
    BY <1>3 DEF AddsLive, Asks, Turns
  <2>2. ToBeSent(c)'
    BY <2>1 DEF ToBeSent, Queues, RequestTypeOK
  <2>3. \A m \in Mids : m # MidOf[c] /\ entries[m] # NoConsumer =>
          /\ entries'[m] = entries[m]
          /\ entries[m] # c
          /\ entries[m] \in Consumers
    BY <2>1 DEF Entered
  <2>4. \A d \in Consumers : d # c /\ ToBeSent(d) => ToBeSent(d)'
    BY <2>1 DEF ToBeSent, Queues, RequestTypeOK
  <2>5. \A m \in Mids : m # MidOf[c] => entries'[m] = entries[m]
    BY <2>1
  <2>6. entries'[MidOf[c]] = c
    BY <2>1
  <2> QED
    BY <1>1, <2>1, <2>2, <2>3, <2>4, <2>5, <2>6 DEF Subscribing
<1>4. CASE ~AddsForLater(c) /\ ~AddsLive(c)
  <2>1. /\ \A m \in Mids : entries'[m] # NoConsumer => entries'[m] = entries[m]
        /\ UNCHANGED <<todo, restored>>
        /\ turn' = Attempt => turn = Attempt
        /\ \A d \in Consumers : d # c => phase'[d] = phase[d]
    <3>1. CASE Opens(c) \/ AddsClosed(c) \/ AddsTaken(c) \/ LeavesQuietly(c)
      BY <3>1 DEF Opens, AddsClosed, AddsTaken, LeavesQuietly
    <3>2. CASE AddReturns(c)
      BY <3>2 DEF AddReturns, Refuses, Unregistered
    <3>3. CASE Leaves(c)
      BY <3>3 DEF Leaves, Unregistered
    <3>4. CASE LeavesUnsubscribing(c)
      BY <3>4 DEF LeavesUnsubscribing
    <3>5. CASE RemoveReturns(c)
      BY <3>5 DEF RemoveReturns
    <3> QED
      BY <1>4, <3>1, <3>2, <3>3, <3>4, <3>5 DEF ConsumerMoves
  <2>2. /\ \A f \in Fibers : f # c => request'[f] = request[f]
        /\ ~(phase[c] = "adding" /\ Queues(c))
    <3>1. CASE Opens(c) \/ AddsClosed(c) \/ AddsTaken(c) \/ Leaves(c)
               \/ LeavesQuietly(c)
      BY <3>1 DEF Opens, AddsClosed, AddsTaken, Leaves, LeavesQuietly,
         requestVars
    <3>2. CASE AddReturns(c) \/ RemoveReturns(c)
      BY <3>2, Stages DEF AddReturns, RemoveReturns, Resumes, RequestTypeOK
    <3>3. CASE LeavesUnsubscribing(c)
      BY <3>3 DEF LeavesUnsubscribing, Asks, RequestTypeOK
    <3> QED
      BY <1>4, <3>1, <3>2, <3>3 DEF ConsumerMoves
  <2>3. \A d \in Consumers : ToBeSent(d) => ToBeSent(d)'
    BY <2>1, <2>2 DEF ToBeSent, Queues
  <2>4. \A m \in Mids : entries'[m] # NoConsumer =>
          /\ entries'[m] = entries[m]
          /\ ToBeSent(entries[m]) => ToBeSent(entries[m])'
    BY <2>1, <2>3
  <2> QED
    BY <1>1, <2>1, <2>4, SubscribingLeft
<1> QED
  BY <1>2, <1>3, <1>4

LEMMA RestoreKeepsSubscribing ==
    ASSUME SessionInv, AttemptRestores
    PROVE  Subscribing'
<1> USE Names DEF SessionInv, SessionTypeOK, RegistryTypeOK, NoConsumer
<1>1. UNCHANGED <<status, up, toController, subscribed>> /\ ~closed
  BY DEF AttemptRestores, Turns
<1>2. CASE RestoreStarts
  <2>1. \A m \in Mids : entries[m] # NoConsumer => entries[m] \in todo'
    BY <1>1, <1>2 DEF RestoreStarts, Entered, Registered
  <2> QED
    BY <1>1, <1>2, <2>1 DEF RestoreStarts, Subscribing, ToBeSent
<1>3. CASE RestoreAsks(sess)
  <2>1. PICK d \in todo :
          /\ request' = [request EXCEPT ![Attempt] =
               [at |-> "gate", command |-> Subscribe(MidOf[d]), session |-> sess]]
          /\ todo' = todo \ {d}
          /\ restored' = d
          /\ IsIdle(Attempt)
          /\ UNCHANGED <<entries, turn, phase>>
    BY <1>3 DEF RestoreAsks, Asks
  <2>2. Queues(Attempt)' /\ ~Queues(Attempt)
    BY <2>1, Stages DEF Queues, RequestTypeOK
  <2>3. \A c \in Consumers : ToBeSent(c) => ToBeSent(c)'
    BY <2>1, <2>2 DEF ToBeSent, Queues, RequestTypeOK
  <2>4. \A m \in Mids : entries'[m] # NoConsumer =>
          /\ entries'[m] = entries[m]
          /\ ToBeSent(entries[m]) => ToBeSent(entries[m])'
    BY <2>1, <2>3
  <2> QED
    BY <1>1, <2>1, <2>4, SubscribingLeft
<1>4. CASE RestoreReturns
  <2>1. /\ restored \in Consumers
        /\ ~Queues(Attempt)
        /\ \A f \in Fibers : f # Attempt => request'[f] = request[f]
        /\ UNCHANGED <<turn, phase, todo>>
    BY <1>4, Stages
       DEF RestoreReturns, Resumes, Errands, AttemptRestores, RequestTypeOK
  <2>2. \A m \in Mids : entries'[m] # NoConsumer => entries'[m] = entries[m]
    BY <1>4, <2>1 DEF RestoreReturns, Refuses, Unregistered
  <2>3. \A c \in Consumers : ToBeSent(c) => ToBeSent(c)'
    BY <2>1 DEF ToBeSent, Queues
  <2>4. \A m \in Mids : entries'[m] # NoConsumer =>
          /\ entries'[m] = entries[m]
          /\ ToBeSent(entries[m]) => ToBeSent(entries[m])'
    BY <2>2, <2>3
  <2> QED
    BY <1>1, <2>1, <2>4, SubscribingLeft
<1> QED
  BY <1>2, <1>3, <1>4 DEF AttemptRestores

LEMMA SubscribingKept ==
    ASSUME SessionInv, [Next]_vars
    PROVE  Subscribing'
<1> USE Names DEF SessionInv, SessionTypeOK, RegistryTypeOK, NoConsumer
<1>1. CASE UNCHANGED vars
  BY <1>1, QueuesOn
     DEF vars, requestVars, registryVars, sessionVars, wireVars, Quiet, Queues
<1>2. CASE SessionStarts \/ HandshakeReturns
  BY <1>2 DEF SessionStarts, HandshakeReturns, registryVars, Turns, Subscribing
<1>3. CASE Restores
  BY <1>3, RestoreKeepsSubscribing
     DEF Restores, AttemptRestores, sessionVars, wireVars
<1>4. CASE BecomesReady
  <2>1. /\ turn = Attempt
        /\ UNCHANGED <<request, entries, phase, todo, restored>>
        /\ UNCHANGED <<up, toController, subscribed>>
    BY <1>4 DEF BecomesReady, RestoreDone, requestVars, wireVars
  <2>2. \A c \in Consumers : ToBeSent(c) => ToBeSent(c)'
    BY <2>1 DEF ToBeSent, Queues
  <2> QED
    BY <2>1, <2>2, SubscribingLeft
<1>5. ASSUME NEW next \in {"down", "closing"}, Ends(next)
      PROVE  Subscribing'
  BY <1>5 DEF Ends, Detaches, Subscribing
<1>6. CASE AttemptFails \/ ReaderFails
  BY <1>5, <1>6 DEF AttemptFails, ReaderFails
<1>7. CASE CloseRequested
  BY <1>5, <1>7 DEF CloseRequested, registryVars, Turns, Subscribing
<1>8. CASE SocketReleased
  BY <1>8 DEF SocketReleased, Subscribing
<1>9. CASE Closes
  BY <1>9 DEF Closes, CloseRegistry, Turns, Subscribing
<1>10. ASSUME NEW f \in Fibers, SendsRequest(f)
       PROVE  Subscribing'
  BY <1>10, SendKeepsSubscribing
<1>11. ASSUME NEW f \in Fibers, SendFails(f)
       PROVE  Subscribing'
  <2>1. /\ Queues(f) /\ ~IsIdle(f)
        /\ ~(up /\ request[f].session = sess)
        /\ \A g \in Fibers : g # f => request'[g] = request[g]
        /\ UNCHANGED <<registryVars, status, up, toController, subscribed>>
    BY <1>11, Stages DEF SendFails, FailsToSend, sessionVars, wireVars,
       RequestTypeOK
  <2>2. up /\ (status = "ready" \/ turn = Attempt) =>
          \A c \in Consumers : ToBeSent(c) => ToBeSent(c)'
    BY <2>1, SMTT(30) DEF ToBeSent, Queues, Errands, Turns, registryVars
  <2> QED
    BY <2>1, <2>2 DEF Subscribing, registryVars
<1>12. ASSUME NEW s \in Sessions, RequestGivesUp(s)
       PROVE  Subscribing'
  <2>1. \A f \in Fibers : Queues(f) => Queues(f)'
    BY <1>12, InSlotQueuesOn DEF RequestGivesUp, TimesOut, RequestTypeOK
  <2> QED
    BY <1>12, <2>1, QueuesOn
       DEF RequestGivesUp, registryVars, sessionVars, wireVars, Quiet
<1>13. CASE ReadsReply
  <2>1. sess \in Sessions
    BY <1>13 DEF ReadsReply, Turns
  <2>2. \A f \in Fibers : Queues(f) => Queues(f)'
    <3>1. CASE UNCHANGED request
      BY <3>1 DEF Queues
    <3>2. CASE request' # request
      BY <1>13, <2>1, <3>2, InSlotQueuesOn
         DEF ReadsReply, SettlesReply, Recognises, requestVars, RequestTypeOK
    <3> QED
      BY <3>1, <3>2
  <2> QED
    BY <1>13, <2>2, QueuesOn
       DEF ReadsReply, registryVars, sessionVars, Quiet
<1>14. CASE ReadsPush \/ ReaderUnblocked
  BY <1>14, QueuesOn
     DEF ReadsPush, ReaderUnblocked, requestVars, wireVars, Quiet, Queues
<1>15. CASE KeepAliveAsks \/ KeepAliveReturns
  <2>1. \A f \in Fibers : f # KeepAlive => request'[f] = request[f]
    BY <1>15 DEF KeepAliveAsks, KeepAliveReturns, Asks, Resumes, RequestTypeOK
  <2> QED
    BY <1>15, <2>1, QueuesOn
       DEF KeepAliveAsks, KeepAliveReturns, registryVars, sessionVars,
           wireVars, Quiet, Queues
<1>16. ASSUME NEW a \in Apps, AppRequests(a) \/ AppResumes(a) \/ AppInterrupted(a)
       PROVE  Subscribing'
  <2>1. \A f \in Fibers : f # a => request'[f] = request[f]
    BY <1>16 DEF AppRequests, AppResumes, AppInterrupted, Asks, Resumes,
       Interrupted, RequestTypeOK
  <2> QED
    BY <1>16, <2>1, QueuesOn
       DEF AppRequests, AppResumes, AppInterrupted, registryVars, sessionVars,
           wireVars, Quiet, Queues
<1>17. ASSUME NEW c \in Consumers, ConsumerTakes(c)
       PROVE  Subscribing'
  BY <1>17, QueuesOn
     DEF ConsumerTakes, Takes, requestVars, sessionVars, wireVars, Quiet, Queues
<1>18. ASSUME NEW c \in Consumers, ConsumerSteps(c) \/ ConsumerReturns(c)
       PROVE  Subscribing'
  <2>1. ConsumerMoves(c)
    BY <1>18 DEF ConsumerSteps, ConsumerReturns, Registers, Unregisters,
       OpensSome, sessionVars, wireVars, ConsumerMoves
  <2> QED
    BY <2>1, ConsumerKeepsSubscribing
<1>19. CASE ControllerReplies
  <2>1. /\ subscribed' = Observed(Head(toController))
        /\ toController' = Tail(toController)
        /\ toController # <<>>
        /\ toController \in Seq(Commands)
        /\ UNCHANGED <<requestVars, registryVars, status, up>>
    BY <1>19 DEF ControllerReplies, sessionVars, WiresOK
  <2>2. \A c \in Consumers : ToBeSent(c) => ToBeSent(c)'
    BY <2>1 DEF ToBeSent, Queues, requestVars, registryVars
  <2>3. \A m \in Mids : LastWord(m, subscribed, toController) =>
          LastWord(m, subscribed', toController')
    BY <2>1, LastWordMovesOn
  <2> QED
    BY <2>1, <2>2, <2>3 DEF Subscribing, registryVars
<1>20. CASE ControllerPushes
  BY <1>20, QueuesOn
     DEF ControllerPushes, requestVars, registryVars, sessionVars, Quiet, Queues
<1>21. CASE SocketDies
  BY <1>21 DEF SocketDies, Subscribing
<1> QED
  BY <1>1, <1>2, <1>3, <1>4, <1>6, <1>7, <1>8, <1>9, <1>10, <1>11, <1>12,
     <1>13, <1>14, <1>15, <1>16, <1>17, <1>18, <1>19, <1>20, <1>21 DEF Next

-----------------------------------------------------------------------------
LEMMA NextKeepsSessionInv ==
    ASSUME SessionInv, [Next]_vars
    PROVE  SessionInv'
<1>1. SlotInv
  BY DEF SessionInv, SlotInv, SessionTypeOK
<1>2. SlotInv'
  BY <1>1, StepIsRequestStep, NextKeepsSlotInv
<1>3. \A i \in DOMAIN toController' : toController'[i] \in Commands
  BY SessionTypesKept DEF WiresOK
<1>4. SessionTypeOK'
  BY <1>2, <1>3, RegistryTypesKept, SessionTypesKept
     DEF SessionTypeOK, SlotInv, NoConsumer
<1>5. WiresOK'
  BY SessionTypesKept
<1> QED
  BY <1>2, <1>4, <1>5, TurnsKept, ErrandsKept, EnteredKept, AskingKept,
     SubscribingKept DEF SessionInv, SlotInv

LEMMA SessionInvariant == Spec => []SessionInv
BY InitSessionInv, NextKeepsSessionInv, PTL DEF Spec

\* The types of the sessions: among them, that no consumer's buffer holds more
\* than its size, however the reader and its consumer take turns
\* (Subscriptions.ts:187).
THEOREM SessionTypes == Spec => []SessionTypeOK
<1>1. SessionInv => SessionTypeOK
  BY DEF SessionInv
<1> QED
  BY <1>1, SessionInvariant, PTL

\* Whoever of add and restore sends it, a consumer's subscribe goes out once
\* on a session: both take turns, and the attempt asks for those it found
\* before any add could (Subscriptions.ts:138).
THEOREM AlwaysSentOnce == Spec => []SentAtMostOnce
<1>1. SessionInv => SentAtMostOnce
  BY DEF SessionInv, Asking
<1> QED
  BY <1>1, SessionInvariant, PTL

\* An open stream is registered as long as its consumer reads from it, through
\* refusals, ends of sessions and the close: somebody will end it
\* (Subscriptions.ts:208).
THEOREM OpenIsAlwaysRegistered == Spec => []OpenStreamsAreRegistered
<1>1. SessionInv => OpenStreamsAreRegistered
  BY DEF SessionInv, Entered, OpenStreamsAreRegistered
<1> QED
  BY <1>1, SessionInvariant, PTL

\* A consumer registered while its session is up is subscribed at the
\* controller once nothing is under way, whatever order consumers left and
\* came in (Subscriptions.ts:138 and :237).
THEOREM NoConsumerIsEverMissed == Spec => []NoConsumerIsMissed
<1>1. SessionInv => NoConsumerIsMissed
  <2> USE Names DEF SessionInv, SessionTypeOK, RegistryTypeOK, NoConsumer
  <2> SUFFICES ASSUME SessionInv, live # NoSession, up, turn = NoFiber,
                      toController = <<>>, NEW m \in Mids, entries[m] # NoConsumer
               PROVE  m \in subscribed
    BY DEF NoConsumerIsMissed
  <2>1. status = "ready"
    BY DEF Turns
  <2>2. ~ToBeSent(entries[m])
    <3>1. entries[m] \notin todo
      BY NothingTodo
    <3>2. ~Queues(Attempt)
      BY <2>1, Stages DEF Errands
    <3>3. phase[entries[m]] # "adding"
      BY DEF Turns
    <3> QED
      BY <3>1, <3>2, <3>3 DEF ToBeSent
  <2>3. LastWord(m, subscribed, <<>>)
    BY <2>1, <2>2 DEF Subscribing
  <2> QED
    BY <2>3, LastWordArrived
<1> QED
  BY <1>1, SessionInvariant, PTL

\* The sessions use the slot as RequestReply says, each of its own: what is
\* proved there of the gate holds through reconnections (RequestReply.ts:122).
THEOREM SessionUsesTheSlot == Spec => RequestSpec
<1>1. Init => RequestInit
  BY DEF Init
<1>2. SessionInv /\ [Next]_vars => [RequestNext]_requestVars
  BY StepIsRequestStep
<1> QED
  BY <1>1, <1>2, SessionInvariant, PTL DEF Spec, RequestSpec
=============================================================================
