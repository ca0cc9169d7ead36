-------------------------------- MODULE Messages --------------------------------
(***************************************************************************)
(* protocol/Messages.ts, Mid.ts and TighteningResult.ts: the messages, the *)
(* layout each MID carries, how a frame becomes a message, and which reply *)
(* a request recognises.                                                   *)
(*                                                                         *)
(* A built-in MID is defined in revision 1 alone.  What no definition      *)
(* reads is kept as an unknown message, with its data field untouched.     *)
(* Torques are hundredths of a newton metre, which is what is on the wire. *)
(***************************************************************************)
EXTENDS Codec

CONSTANT MaxTighteningId    \* stands for the largest identifier, 2^32 - 1

ASSUME MaxTighteningIdAssumption == MaxTighteningId \in Nat

String == Seq(0 .. 255)
TighteningId == 0 .. MaxTighteningId
TighteningStatus == <<"NOK", "OK">>
LimitStatus == <<"Low", "OK", "High">>

-----------------------------------------------------------------------------
\* The classes of Messages.ts and of TighteningResult.ts.
Bare(tag) == [tag : {tag}, revision : {1}]
CommunicationStartAccepted ==
    [tag : {"CommunicationStartAccepted"}, revision : {1}, cellId : 0 .. 9999,
     channelId : 0 .. 99, controllerName : String]
CommandError == [tag : {"CommandError"}, revision : {1}, mid : MidNumber, code : 0 .. 99]
CommandAccepted == [tag : {"CommandAccepted"}, revision : {1}, mid : MidNumber]
LastResult ==
    [tag : {"LastResult"}, revision : {1}, tighteningId : TighteningId, vin : String,
     parameterSetId : 0 .. 999, status : {"NOK", "OK"}, torqueStatus : {"Low", "OK", "High"},
     angleStatus : {"Low", "OK", "High"}, torque : Nat, angle : 0 .. 99999,
     timestamp : String, parameterSetChangedAt : String]
OldResult ==
    [tag : {"OldResult"}, revision : {1}, tighteningId : TighteningId, vin : String,
     parameterSetId : 0 .. 999, status : {"NOK", "OK"}, torqueStatus : {"Low", "OK", "High"},
     angleStatus : {"Low", "OK", "High"}, torque : Nat, angle : 0 .. 99999,
     timestamp : String]
RequestOldResult ==
    [tag : {"RequestOldResult"}, revision : {1}, tighteningId : TighteningId]
UnknownMessage ==
    [tag : {"UnknownMessage"}, mid : MidNumber, revision : RevisionNumber, data : String]

SessionMessages ==
    Bare("CommunicationStart") \cup CommunicationStartAccepted
    \cup Bare("CommunicationStop") \cup CommandError \cup CommandAccepted
ResultMessages ==
    Bare("SubscribeResults") \cup LastResult \cup Bare("AcknowledgeResult")
    \cup Bare("UnsubscribeResults") \cup RequestOldResult \cup OldResult
Message == SessionMessages \cup ResultMessages \cup Bare("KeepAlive") \cup UnknownMessage

-----------------------------------------------------------------------------
\* The layouts.
Id(number) == DigitsOf(number, 2)
NoId == <<>>
Reserved(number, width) == Filler(Id(number), Zeroes(width))
Torque(number) == Digits("torque", Id(number), 6, 999999)
Identifier(id) == Digits("tighteningId", id, 10, MaxTighteningId)

CommunicationStartAcceptedBody ==
    <<Digits("cellId", Id(1), 4, 9999), Digits("channelId", Id(2), 2, 99),
      Text("controllerName", Id(3), 25)>>
CommandErrorBody == <<Digits("mid", NoId, 4, 9999), Digits("code", NoId, 2, 99)>>
CommandAcceptedBody == <<Digits("mid", NoId, 4, 9999)>>
RequestOldResultBody == <<Identifier(NoId)>>
LastResultBody ==
    <<Filler(Id(1), PadNumber(1, 4)), Filler(Id(2), PadNumber(1, 2)), Filler(Id(3), Blanks(25)),
      Text("vin", Id(4), 25), Reserved(5, 2), Digits("parameterSetId", Id(6), 3, 999),
      Reserved(7, 4), Reserved(8, 4), Enumerated("status", Id(9), TighteningStatus),
      Enumerated("torqueStatus", Id(10), LimitStatus),
      Enumerated("angleStatus", Id(11), LimitStatus), Reserved(12, 6), Reserved(13, 6),
      Reserved(14, 6), Torque(15), Reserved(16, 5), Reserved(17, 5), Reserved(18, 5),
      Digits("angle", Id(19), 5, 99999), Timestamp("timestamp", Id(20)),
      Raw("parameterSetChangedAt", Id(21), 19), Filler(Id(22), PadNumber(2, 1)),
      Identifier(Id(23))>>
OldResultBody ==
    <<Identifier(Id(1)), Text("vin", Id(2), 25), Digits("parameterSetId", Id(3), 3, 999),
      Reserved(4, 4), Enumerated("status", Id(5), TighteningStatus),
      Enumerated("torqueStatus", Id(6), LimitStatus),
      Enumerated("angleStatus", Id(7), LimitStatus), Torque(8),
      Digits("angle", Id(9), 5, 99999), Timestamp("timestamp", Id(10)),
      Filler(Id(11), PadNumber(2, 1))>>

\* define, request: the MID of a tag, its layout in revision 1, and what
\* answers it when it is a request.
Define(mid, entries) == [mid |-> mid, layout |-> entries, reply |-> "none"]
Request(mid, entries, reply) == [mid |-> mid, layout |-> entries, reply |-> reply]
Placed(mids) == [tag \in DOMAIN mids |-> [mids[tag] EXCEPT !.layout = Layout(@)]]

SessionMids ==
    [CommunicationStart |-> Request(1, <<>>, "CommunicationStartAccepted"),
     CommunicationStartAccepted |-> Define(2, CommunicationStartAcceptedBody),
     CommunicationStop |-> Request(3, <<>>, "CommandAccepted"),
     CommandError |-> Define(4, CommandErrorBody),
     CommandAccepted |-> Define(5, CommandAcceptedBody)]
ResultMids ==
    [SubscribeResults |-> Request(60, <<>>, "CommandAccepted"),
     LastResult |-> Define(61, LastResultBody),
     AcknowledgeResult |-> Define(62, <<>>),
     UnsubscribeResults |-> Request(63, <<>>, "CommandAccepted"),
     RequestOldResult |-> Request(64, RequestOldResultBody, "OldResult"),
     OldResult |-> Define(65, OldResultBody)]
KeepAliveMids == [KeepAlive |-> Request(9999, <<>>, "KeepAlive")]
ByTag == Placed(Beside(Beside(SessionMids, ResultMids), KeepAliveMids))

\* The results are a subscription: what is pushed, and the MIDs that ask for
\* it, take it and end it.
Subscription(data, subscribe, ack, unsubscribe) ==
    [data |-> data, subscribe |-> subscribe, ack |-> ack, unsubscribe |-> unsubscribe]
LastResults ==
    Subscription("LastResult", "SubscribeResults", "AcknowledgeResult", "UnsubscribeResults")

\* Text is read without the blanks it is padded with.
Padded == {"controllerName", "vin"}

\* Every definition has a number of its own and a layout of its fields, and
\* every request a reply that has a definition.
IsRevision(revision) ==
    /\ revision.mid \in MidNumber
    /\ IsLayout(revision.layout)
    /\ Names(revision.layout) \cap {"tag", "revision"} = {}
    /\ \A i \in NamedEntries(revision.layout) :
          revision.layout[i].kind = "text" <=> revision.layout[i].name \in Padded
IsRequest(revision) == revision.reply # "none"
ASSUME MidsAssumption ==
    \A tag \in DOMAIN ByTag :
        /\ IsRevision(ByTag[tag])
        /\ IsRequest(ByTag[tag]) => ByTag[tag].reply \in DOMAIN ByTag
        /\ \A other \in DOMAIN ByTag \ {tag} : ByTag[other].mid # ByTag[tag].mid
        /\ tag \in {LastResults.subscribe, LastResults.unsubscribe} => IsRequest(ByTag[tag])

\* builtIns, byMid, lookup: the tag of a MID in a revision, if there is one.
TagsOf(mid, revision) == {tag \in DOMAIN ByTag : ByTag[tag].mid = mid /\ revision = 1}

-----------------------------------------------------------------------------
\* codecFor, tagged, decode: the fields of the layout, under their tag.
DecodeAs(tag, data) ==
    {Beside([tag |-> tag, revision |-> 1], fields) :
        fields \in DecodeLayout(ByTag[tag].layout, data)}

UnknownOf(header, data) ==
    [tag |-> "UnknownMessage", mid |-> header.mid, revision |-> header.revision, data |-> data]

\* messageOf, fallBack.
OrElse(decoded, unknown) == IF decoded = {} THEN unknown ELSE CHOOSE m \in decoded : TRUE
MessageOf(header, data) ==
    OrElse(UNION {DecodeAs(tag, data) : tag \in TagsOf(header.mid, header.revision)},
           UnknownOf(header, data))

\* decodeFrame.
DecodeFrame(frame) ==
    LET data == Part(frame, HeaderLength, Len(frame))
    IN  {[header |-> header, data |-> data, message |-> MessageOf(header, data)] :
            header \in DecodeHeader(frame)}

\* encodeMessage, encodeModelled, encode.
Encode(mid, message) ==
    {EncodeFrame(mid.mid, 1, data) : data \in EncodeLayout(mid.layout, message)}
EncodeMessage(message) ==
    IF message.tag = "UnknownMessage"
    THEN {EncodeFrame(message.mid, message.revision, message.data)}
    ELSE Encode(ByTag[message.tag], message)

-----------------------------------------------------------------------------
\* acknowledging: the MID a CommandAccepted or a CommandError answers.
Acknowledges(message, tag, mid) == message.tag = tag /\ message.mid = mid

\* revisionOf, answer: a reply is recognised by its MID; another revision of
\* it, or data it cannot read, fails the request instead of answering it.
ReplyIn(incoming, tag) ==
    {IF incoming.header.revision = 1 /\ incoming.message.tag = tag THEN "answered" ELSE "failed" :
        mid \in {incoming.header.mid} \cap {ByTag[tag].mid}}

\* Mutant of Settles: an acknowledgement answers whatever waits.
SettlesAny(asked, incoming) ==
    IF incoming.message.tag = "CommandError" THEN {"rejected"}
    ELSE IF asked.reply = "CommandAccepted"
         THEN {"answered" : m \in {incoming.message.tag} \cap {"CommandAccepted"}}
         ELSE ReplyIn(incoming, asked.reply)

\* rejected, commandAccepted, settle: what a frame means to the request that
\* waits for its reply, if it means anything; asked is the request as ByTag
\* defines it.
Settles(asked, incoming) ==
    IF Acknowledges(incoming.message, "CommandError", asked.mid) THEN {"rejected"}
    ELSE IF asked.reply = "CommandAccepted"
         THEN {"answered" : m \in {n \in {incoming.message} :
                  Acknowledges(n, "CommandAccepted", asked.mid)}}
         ELSE ReplyIn(incoming, asked.reply)

=============================================================================
