----------------------------- MODULE ResultFlow -----------------------------
(***************************************************************************)
(* Results between one controller and the application, over the wire: gap  *)
(* recovery with its requests, replies and acknowledgements as messages.   *)
(*                                                                         *)
(* The controller is the simulator's (simulator/ControllerSimulator.ts,    *)
(* ControllerBehaviour.ts): it pushes one result at a time, resends it     *)
(* until it is acknowledged, and answers MID 0064 in order.  The protocol  *)
(* gives it no way to say which request "not found" answers, nor the       *)
(* client a way to say which result MID 0062 acknowledges.                 *)
(***************************************************************************)
EXTENDS GapRecovery

VARIABLES
    toClient,       \* frames on their way to the client, in order
    toController,   \* frames on their way to the controller, in order
    slot,           \* the request that waits for a reply, NoId if none does
    arrived,        \* the results subscription's buffer, of one
    pushing,        \* the result the controller waits an ack for, or NoId
    settled         \* history: results the controller saw acknowledged

wireVars == <<toClient, toController, slot, arrived, pushing, settled>>
flowVars == <<vars, wireVars>>

LatestId == 0       \* MID 0064 for identifier 0 asks for the latest result

Frame == [type : {"push", "old", "request"}, id : TighteningId]
         \cup [type : {"notFound", "refused", "ack"}, id : {NoId}]

Push(id) == [type |-> "push", id |-> id]
Old(id) == [type |-> "old", id |-> id]
Request(id) == [type |-> "request", id |-> id]
NotFound == [type |-> "notFound", id |-> NoId]
Refused == [type |-> "refused", id |-> NoId]
Ack == [type |-> "ack", id |-> NoId]

Up == session # "down"

-----------------------------------------------------------------------------
(* The client.                                                             *)

\* The pass sends the request for the latest result, or for the next
\* identifier it asks for, when the one before has ended.
Requests ==
    /\ slot = NoId
    /\ WaitsForLatest \/ Asking
    /\ slot' = IF pass.at = "latest" THEN LatestId ELSE Asked
    /\ toController' = Append(toController, Request(slot'))
    /\ UNCHANGED <<vars, toClient, arrived, pushing, settled>>

\* Mutant of RequestTimesOut: the slot is not cleared.
RequestTimesOutWaiting ==
    /\ slot # NoId
    /\ Fault("silence")
    /\ LatestSilent \/ AttemptSilent
    /\ StoreKept
    /\ UNCHANGED <<toClient, toController, slot, arrived, pushing, settled>>

\* recoveryTimeout: the request ends, its reply may still be on its way.
RequestTimesOut ==
    /\ slot # NoId
    /\ Fault("silence")
    /\ LatestSilent \/ AttemptSilent
    /\ slot' = NoId
    /\ StoreKept
    /\ UNCHANGED <<toClient, toController, arrived, pushing, settled>>

Receives(frame) ==
    /\ Up
    /\ toClient # <<>>
    /\ Head(toClient) = frame
    /\ toClient' = Tail(toClient)
    /\ UNCHANGED <<toController, pushing, settled>>

\* The reader settles the waiting request with any reply to MID 0064.
ReadsReply ==
    /\ slot # NoId
    /\ \/ \E id \in ResultIds :
             Receives(Old(id)) /\ (LatestIs(id) \/ AttemptGets(id))
       \/ Receives(NotFound) /\ (LatestRefused \/ AttemptNotFound)
       \/ Receives(Refused) /\ (LatestRefused \/ AttemptRefused)
    /\ slot' = NoId
    /\ StoreKept
    /\ UNCHANGED <<faults, arrived>>

\* routeUnsolicited: nobody waits for the reply.  A stored result is
\* delivered all the same, a refusal is dropped.
ReadsLateReply ==
    /\ slot = NoId
    /\ \/ \E id \in ResultIds : Receives(Old(id)) /\ Submit(id, "reader")
       \/ (Receives(NotFound) \/ Receives(Refused)) /\ UNCHANGED deliveryVars
    /\ UNCHANGED <<recoveryVars, slot, arrived>>

\* Mutant of ReadsPush: the buffer has no bound.
ReadsPushUnbounded ==
    /\ \E id \in ResultIds : Receives(Push(id)) /\ arrived' = Append(arrived, id)
    /\ UNCHANGED <<vars, slot>>

\* A pushed result goes to the subscription's buffer; a full one holds up
\* the reader.
ReadsPush ==
    /\ \E id \in ResultIds : Receives(Push(id)) /\ arrived' = Append(arrived, id)
    /\ arrived = <<>>
    /\ UNCHANGED <<vars, slot>>

\* The consumer of the subscription takes it from there, in the session that
\* runs then.
ConsumesPush ==
    /\ arrived # <<>>
    /\ SubmitPushed(Head(arrived))
    /\ arrived' = Tail(arrived)
    /\ UNCHANGED <<produced, evicted, outbox, session, reconciled, owed, listened,
                   faults, toClient, toController, slot, pushing, settled>>

\* The delivery loop: an acknowledgement goes out on whatever session is
\* open, and is lost without one.
SendsAck(entry) ==
    toController' = IF entry.from = "pushed" /\ Up
                    THEN Append(toController, Ack)
                    ELSE toController

\* Mutant of Delivery: acknowledges when it takes the result, before the
\* handler had it.
DeliveryAcksFirst ==
    /\ \/ TakeDuplicate /\ SendsAck(Head(queue))
       \/ TakeNew /\ SendsAck(Head(queue))
       \/ HandlerSucceeds /\ UNCHANGED toController
    /\ UNCHANGED <<recoveryVars, toClient, slot, arrived, pushing, settled>>

Delivery ==
    /\ \/ TakeDuplicate /\ SendsAck(Head(queue))
       \/ HandlerSucceeds /\ SendsAck(worker)
       \/ TakeNew /\ UNCHANGED toController
    /\ UNCHANGED <<recoveryVars, toClient, slot, arrived, pushing, settled>>

-----------------------------------------------------------------------------
(* The controller.                                                         *)

Takes(frame) ==
    /\ Up
    /\ toController # <<>>
    /\ Head(toController) = frame
    /\ toController' = Tail(toController)

\* replyTo, on RequestOldResult.
AnswersRequest ==
    /\ \E id \in TighteningId :
        LET wanted == IF id = LatestId THEN produced ELSE id IN
        /\ Takes(Request(id))
        /\ toClient' = Append(toClient, IF wanted \in Store THEN Old(wanted)
                                                            ELSE NotFound)
    /\ UNCHANGED <<vars, slot, arrived, pushing, settled>>

\* A fault refuses a request whatever is stored: RejectCommand.
RefusesRequest ==
    /\ \/ Takes(Request(LatestId)) /\ Fault("latest refused")
       \/ \E id \in ResultIds : Takes(Request(id)) /\ Fault("refusal")
    /\ toClient' = Append(toClient, Refused)
    /\ UNCHANGED <<deliveryVars, produced, evicted, outbox, session, reconciled, pass,
                   owed, listened, slot, arrived, pushing, settled>>

\* An acknowledgement settles whatever push is waiting for one.
TakesAck ==
    /\ Takes(Ack)
    /\ pushing' = NoId
    /\ settled' = IF pushing # NoId THEN settled \cup {pushing} ELSE settled
    /\ UNCHANGED <<vars, toClient, slot, arrived>>

\* push: the next result of the outbox, once the previous one is settled.
Pushes ==
    /\ session = "ready"
    /\ pushing = NoId
    /\ outbox # <<>>
    /\ pushing' = Head(outbox)
    /\ outbox' = Tail(outbox)
    /\ toClient' = Append(toClient, Push(pushing'))
    /\ UNCHANGED <<deliveryVars, produced, evicted, session, reconciled, pass, owed,
                   listened, faults, toController, slot, arrived, settled>>

\* ackTimeout: the controller sends the same result again.
Resends ==
    /\ session = "ready"
    /\ pushing # NoId
    /\ Fault("resend")
    /\ toClient' = Append(toClient, Push(pushing))
    /\ UNCHANGED <<deliveryVars, produced, evicted, outbox, session, reconciled, pass,
                   owed, listened, toController, slot, arrived, pushing, settled>>

-----------------------------------------------------------------------------
\* The connection goes, with the frames on it, the request that waits and
\* the push.  The subscription's buffer stays for the next session.
ConnectionLost ==
    /\ SessionFails
    /\ toClient' = <<>>
    /\ toController' = <<>>
    /\ slot' = NoId
    /\ pushing' = NoId
    /\ UNCHANGED <<arrived, settled>>

\* What the wire does not take part in.
Elsewhere ==
    /\ \/ FinishPass \/ PassWakes
       \/ SessionStarts \/ Subscribes \/ Reconciles \/ KeepsUp \/ Polls
       \/ Produces \/ Evicts \/ HandlerFails
    /\ UNCHANGED wireVars

FlowInit ==
    /\ Init
    /\ toClient = <<>>
    /\ toController = <<>>
    /\ slot = NoId
    /\ arrived = <<>>
    /\ pushing = NoId
    /\ settled = {}

FlowNext ==
    \/ Requests \/ RequestTimesOut \/ ReadsReply \/ ReadsLateReply \/ ReadsPush
    \/ ConsumesPush \/ Delivery
    \/ AnswersRequest \/ RefusesRequest \/ TakesAck \/ Pushes \/ Resends
    \/ ConnectionLost \/ Elsewhere

FlowSpec == FlowInit /\ [][FlowNext]_flowVars

\* As in GapRecovery; the frames of an open connection arrive, and the
\* controller answers them.
FlowFairness ==
    /\ WF_flowVars(Requests) /\ WF_flowVars(ReadsReply) /\ WF_flowVars(ReadsLateReply)
    /\ WF_flowVars(ReadsPush) /\ WF_flowVars(ConsumesPush) /\ WF_flowVars(Delivery)
    /\ WF_flowVars(AnswersRequest) /\ WF_flowVars(TakesAck) /\ WF_flowVars(Pushes)
    /\ WF_flowVars(FinishPass /\ UNCHANGED wireVars)
    /\ WF_flowVars(PassWakes /\ UNCHANGED wireVars)
    /\ WF_flowVars(SessionStarts /\ UNCHANGED wireVars)
    /\ WF_flowVars(Subscribes /\ UNCHANGED wireVars)
    /\ WF_flowVars(Reconciles /\ UNCHANGED wireVars)
    /\ WF_flowVars(KeepsUp /\ UNCHANGED wireVars)
    /\ WF_flowVars(Polls /\ UNCHANGED wireVars)

FairFlowSpec == FlowSpec /\ FlowFairness

-----------------------------------------------------------------------------
(* The state of the wire is of its types, and the client has at most one   *)
(* request waiting.                                                        *)
FlowTypeOK ==
    /\ TypeOK
    /\ toClient \in Seq(Frame)
    /\ toController \in Seq(Frame)
    /\ slot \in {NoId, LatestId} \cup ResultIds
    /\ arrived \in Seq(ResultIds) /\ Len(arrived) <= 1
    /\ pushing \in {NoId} \cup ResultIds
    /\ settled \subseteq ResultIds

(* The request that waits is the one the pass asks: a reply that arrives   *)
(* never finds a pass that has moved on.                                   *)
SlotMatchesPass ==
    slot # NoId =>
        \/ slot = LatestId /\ pass.at = "latest"
        \/ pass.at = "asking" /\ pass.todo # {} /\ slot = Asked

(* A result counts as acknowledged at the controller only when the handler *)
(* accepted it, or recovery found it gone.                                 *)
SettledWasAccepted == settled \subseteq handled \cup writtenOff

(* As long as requests are answered in time, no result the controller      *)
(* stores that was produced under a subscription is history: the baseline  *)
(* lies below it, although it may be declared sessions later.              *)
HeardIsNotHistory ==
    \A id \in listened : id <= window.baseline => id \notin Store

=============================================================================
