------------------------------- MODULE Controller -------------------------------
(***************************************************************************)
(* simulator/ControllerBehaviour.ts: what the simulated controller answers *)
(* to a message; with the faults of Faults.ts and FaultyWire.ts that       *)
(* change what is written rather than when: a refused command and a frame  *)
(* in pieces.  Module Simulator has what it remembers and the other faults.*)
(***************************************************************************)
EXTENDS Messages

CommandErrorFor(mid, code) == [tag |-> "CommandError", revision |-> 1, mid |-> mid, code |-> code]
\* Mutant of Acceptance: every command is accepted as a subscription.
AcceptanceOf60(mid) == [tag |-> "CommandAccepted", revision |-> 1, mid |-> 60]
Acceptance(mid) == [tag |-> "CommandAccepted", revision |-> 1, mid |-> mid]

\* resultFor, with the torque in hundredths; the digits of the identifier
\* follow the letters of VIN.
ResultFor(id, stamp) ==
    [tighteningId |-> id, vin |-> <<86, 73, 78>> \o PadNumber(id, 1),
     parameterSetId |-> id % 1000, status |-> IF id % 10 = 0 THEN "NOK" ELSE "OK",
     torqueStatus |-> "OK", angleStatus |-> "OK", torque |-> 1000 + (id % 500),
     angle |-> 90 + (id % 10), timestamp |-> stamp]

\* The message a result is pushed in (push of ControllerSimulator.ts).
Push(id, stamp) ==
    Beside([tag |-> "LastResult", revision |-> 1, parameterSetChangedAt |-> stamp],
           ResultFor(id, stamp))

\* refuse: 97 for a MID it knows in another revision, 99 for any other.
Refusal(unknown) ==
    CommandErrorFor(unknown.mid,
        IF \E tag \in DOMAIN ByTag : ByTag[tag].mid = unknown.mid THEN 97 ELSE 99)

\* The answer to a stored result; asked for number 0, the latest there is.
OldResultFor(wanted, store, latest, stamp) ==
    LET found == (IF wanted = 0 THEN latest ELSE {wanted}) \cap store
    IN  IF found = {} THEN CommandErrorFor(64, 15)
        ELSE Beside([tag |-> "OldResult", revision |-> 1],
                    ResultFor(CHOOSE id \in found : TRUE, stamp))

\* replyTo: the reply the controller owes a message, if it owes one.
ReplyTo(message, identity, store, latest, stamp) ==
    CASE message.tag = "CommunicationStart" ->
            {IF identity.rejectStartWith # {}
             THEN CommandErrorFor(1, CHOOSE code \in identity.rejectStartWith : TRUE)
             ELSE [tag |-> "CommunicationStartAccepted", revision |-> 1,
                   cellId |-> identity.cellId, channelId |-> identity.channelId,
                   controllerName |-> identity.controllerName]}
      [] message.tag = "KeepAlive" ->
            IF identity.silent THEN {} ELSE {[tag |-> "KeepAlive", revision |-> 1]}
      [] message.tag \in {"SubscribeResults", "UnsubscribeResults", "CommunicationStop"} ->
            {Acceptance(ByTag[message.tag].mid)}
      [] message.tag = "RequestOldResult" ->
            {OldResultFor(message.tighteningId, store, latest, stamp)}
      [] message.tag = "UnknownMessage" -> {Refusal(message)}
      [] OTHER -> {}

\* What the controller answers to a frame it read.
Answers(frame, identity, store, latest, stamp) ==
    UNION {ReplyTo(read.message, identity, store, latest, stamp) : read \in DecodeFrame(frame)}

-----------------------------------------------------------------------------
\* rejectionFor: the refusal of the command a reply was meant for.
RejectionFor(reply, code) ==
    CASE reply.tag = "CommandAccepted" -> CommandErrorFor(reply.mid, code)
      [] reply.tag = "CommunicationStartAccepted" -> CommandErrorFor(1, code)
      [] reply.tag = "OldResult" -> CommandErrorFor(64, code)
      [] reply.tag = "KeepAlive" -> CommandErrorFor(9999, code)
      [] OTHER -> reply

Ceil(a, b) == (a + b - 1) \div b

\* split: where the pieces of a frame end; all but the last are of one size.
PieceEnds(length, pieces) ==
    LET size == Max({1, Ceil(length, pieces)})
    IN  {Min({length, k * size}) : k \in 1 .. Ceil(length, size)}

=============================================================================
