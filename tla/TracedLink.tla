------------------------------- MODULE TracedLink -------------------------------
(***************************************************************************)
(* A session over a traced link, from the bytes to the viewer: the         *)
(* controller writes frames, the network cuts the stream anywhere, the     *)
(* tracer tells the recording what it sees, the session frames and decodes *)
(* (Session.ts readLoop, cli/Wire.ts instrument, cli/client.ts).           *)
(*                                                                         *)
(* Ctrl-C closes the scope of the recording, which client.ts provides      *)
(* inside Effect.scoped, before the scope of the connection: the goodbye   *)
(* of the session is traced after the run was closed.                      *)
(***************************************************************************)
EXTENDS Controller, WireTrace, Recording, Viewer

CONSTANTS
    Scenarios,      \* what the controller writes, where the network may cut
                    \* it, what the client asks, the exchange it is the reply
                    \* of, if it is one, and whether it is recorded
    NoRequest       \* the client asks nothing

VARIABLES
    scenario,   \* the one of Scenarios that happens
    arrived,    \* bytes of the stream that were read
    incoming,   \* what the tracer holds of that direction
    framed,     \* what the framer of the session holds
    got,        \* the messages the session read
    outcome,    \* what its reply made of the request in flight
    session     \* "up"; "lost" after an error of the protocol; "closed"

linkVars == <<scenario, arrived, incoming, framed, got, outcome, session>>
vars == <<linkVars, recordingVars, viewVars>>

\* An item of a script is a message, junk, or a frame another controller
\* would write, with the message it reads as.
IsJunk(item) == item.tag = "Junk"
IsForeign(item) == item.tag = "Foreign"

\* sendFrame: the bytes of one item; none when a field refuses its value.
Bytes(item) ==
    IF IsJunk(item) \/ IsForeign(item) THEN {item.bytes}
    ELSE {Utf8(frame) : frame \in EncodeMessage(item)}
Written(bytes) ==
    Joined([i \in DOMAIN bytes |-> IF bytes[i] = {} THEN <<>> ELSE CHOOSE b \in bytes[i] : TRUE])
StreamOf(items) == Written([i \in DOMAIN items |-> Bytes(items[i])])

\* The stream of every scenario.
Streams == [s \in Scenarios |-> StreamOf(s.script)]

\* A message has the fields of its layout; one nothing defines stays unread.
\* What another controller writes is one frame, and junk is none.
IsDefined(message) ==
    /\ message.tag \in DOMAIN ByTag /\ message.revision = 1
    /\ DOMAIN message = {"tag", "revision"} \cup Names(ByTag[message.tag].layout)
    /\ Suits(ByTag[message.tag].layout, message)
IsUndefined(message) ==
    /\ DOMAIN message = {"tag", "mid", "revision", "data"}
    /\ message.mid \in MidNumber /\ message.revision \in RevisionNumber
    /\ message.data \in Seq(0 .. 127) /\ HeaderLength + Len(message.data) <= 9999
    /\ \A tag \in TagsOf(message.mid, message.revision) : DecodeAs(tag, message.data) = {}
IsOneFrame(bytes, message) ==
    LET taken == TakeFrames(bytes)
    IN  /\ bytes \in Seq(0 .. 127)
        /\ ~taken.error /\ taken.buffer = <<>> /\ Len(taken.frames) = 1
        /\ {read.message : read \in DecodeFrame(taken.frames[1])} = {message}
IsNoFrame(bytes) ==
    /\ bytes \in Seq(0 .. 255)
    /\ \/ IsMalformed(bytes)
       \/ IsWhole(bytes) /\ DecodeFrame(Part(bytes, 0, LengthOf(bytes))) = {}
IsItem(item) ==
    CASE IsJunk(item) -> IsNoFrame(item.bytes)
      [] IsForeign(item) -> IsOneFrame(item.bytes, item.reads)
      [] item.tag = "UnknownMessage" -> IsUndefined(item)
      [] OTHER -> IsDefined(item)

\* What is written are items, the network cuts what is written, and what is
\* asked is a request.
ASSUME ScenariosAssumption ==
    \A s \in Scenarios :
        /\ s.script \in Seq(Range(s.script)) /\ \A i \in DOMAIN s.script : IsItem(s.script[i])
        /\ StreamOf(s.script) \in Seq(0 .. 255)
        /\ s.cuts \subseteq 0 .. Len(StreamOf(s.script))
        /\ s.request \in {NoRequest} \cup {tag \in DOMAIN ByTag : IsRequest(ByTag[tag])}

\* What the controller of an exchange replies to the message it reads, and
\* what is sent when the fault rejects the command.
RepliesTo(exchange) ==
    UNION {Answers(TakeFrames(bytes).frames[1], exchange.identity, exchange.store,
                   exchange.latest, exchange.stamp) : bytes \in Bytes(exchange.message)}
Owed(exchange) ==
    {IF exchange.refused THEN RejectionFor(reply, exchange.code) ELSE reply :
        reply \in RepliesTo(exchange)}

\* A request is asked in its message, or in one of its MID that the controller
\* does not know; it writes the reply behind the results it pushes.
IsAsked(message, tag) ==
    /\ IsItem(message)
    /\ \/ message.tag = tag
       \/ message.tag = "UnknownMessage" /\ message.mid = ByTag[tag].mid
ASSUME ExchangesAssumption ==
    \A s \in Scenarios : \A exchange \in s.exchange :
        /\ s.request # NoRequest /\ IsAsked(exchange.message, s.request)
        /\ s.script # <<>> /\ Last(s.script) \in Owed(exchange)
        /\ \A i \in 1 .. Len(s.script) - 1 : s.script[i].tag = LastResults.data
        /\ \A i \in DOMAIN s.script : Bytes(s.script[i]) # {}

stream == Streams[scenario]
request == scenario.request
Asked == ByTag[request]

TypeOK ==
    /\ RecordingTypeOK /\ ViewTypeOK
    /\ got \in Seq(Message)
    /\ traced \in Seq(WireEvent)
    /\ arrived \in 0 .. Len(stream)
    /\ outcome \in {"none", "answered", "rejected", "failed"}
    /\ session \in {"up", "lost", "closed"}

Init ==
    /\ scenario \in Scenarios
    /\ arrived = 0 /\ incoming = <<>> /\ framed = <<>> /\ got = <<>>
    /\ outcome = "none" /\ session = "up"
    /\ RecordingInit(scenario.recorded) /\ ViewInit

-----------------------------------------------------------------------------
\* onFrame: the frames of a chunk in their order, up to one whose header is
\* refused; the request in flight is settled by the first that concerns it.
DecodedUntil(reads) ==
    LET refused == {i \in DOMAIN reads : reads[i] = {}}
    IN  [i \in 1 .. Min(refused \cup {Len(reads) + 1}) - 1 |->
            CHOOSE incomingFrame \in reads[i] : TRUE]

Settling(decoded) ==
    {i \in DOMAIN decoded : request # NoRequest /\ Settles(Asked, decoded[i]) # {}}

\* What the session makes of a step of its framer.
Reads(next) ==
    LET frames == IF next.error THEN <<>> ELSE next.frames
    IN  \E decoded \in {DecodedUntil([i \in DOMAIN frames |-> DecodeFrame(frames[i])])} :
          /\ framed' = next.buffer
          /\ got' = got \o [i \in DOMAIN decoded |-> decoded[i].message]
          /\ \E settling \in {Settling(decoded)} :
                outcome' = IF outcome = "none" /\ settling # {}
                           THEN CHOOSE v \in Settles(Asked, decoded[Min(settling)]) : TRUE
                           ELSE outcome
          /\ session' = IF next.error \/ Len(decoded) < Len(frames) THEN "lost" ELSE session

\* One read of the socket, up to a place where the network cut the stream.
ChunkArrives ==
    \E upTo \in scenario.cuts \cup {Len(stream)} :
      /\ session = "up" /\ stage \notin {"ended", "exited", "killed"}
      /\ arrived < upTo
      /\ arrived' = upTo
      /\ \E chunk \in {SubSeq(stream, arrived + 1, upTo)} :
            /\ \E observed \in {Observe("recv", incoming, chunk)} :
                  incoming' = observed.buffer /\ Offers(observed.events)
            /\ \E next \in {Step(framed, chunk)} : Reads(next)
      /\ UNCHANGED <<scenario, viewVars>>

\* submitPushed, ack: a result that was read is acknowledged, once it is handled
\* or known; the frames of a direction come whole.
Count(events, mid) == Len(SelectSeq(events, LAMBDA e : e.direction = "send" /\ e.mid = mid))
AcksResult ==
    LET ack == ByTag[LastResults.ack].mid
    IN  /\ session = "up" /\ stage \notin {"ended", "exited", "killed"}
        /\ Count(traced, PadNumber(ack, 4))
             < Len(SelectSeq(got, LAMBDA message : message.tag = LastResults.data))
        /\ \E frame \in EncodeMessage([tag |-> LastResults.ack, revision |-> 1]) :
              Offers(Observe("send", <<>>, frame).events)
        /\ UNCHANGED <<linkVars, viewVars>>

\* Closing the connection: MID 0003 goes out, through the tracer.
SaysGoodbye ==
    /\ session = "up" /\ stage = "ended"
    /\ session' = "closed"
    /\ \E frame \in EncodeMessage([tag |-> "CommunicationStop", revision |-> 1]) :
          Offers(Observe("send", <<>>, frame).events)
    /\ UNCHANGED <<scenario, arrived, incoming, framed, got, outcome, viewVars>>

\* The process exits when its last scope is closed.
Exits ==
    /\ session # "up" /\ stage = "ended"
    /\ stage' = "exited"
    /\ UNCHANGED <<linkVars, viewVars, rows, ended, traced, queue, batch, dropped, due>>

Writes == Records /\ UNCHANGED <<linkVars, viewVars>>

Stops == (ScopeCloses \/ IsKilled) /\ UNCHANGED <<linkVars, viewVars>>

OtherWrites ==
    /\ OtherInserts
    /\ UNCHANGED <<linkVars, viewVars, traced, queue, batch, dropped, stage, due>>

Looks == Views /\ UNCHANGED <<linkVars, recordingVars>>

LosesFeed == FeedEnds /\ UNCHANGED <<linkVars, recordingVars>>

Next ==
    \/ ChunkArrives \/ AcksResult \/ SaysGoodbye \/ Exits
    \/ Writes \/ Stops \/ OtherWrites
    \/ Looks \/ LosesFeed

Spec == Init /\ [][Next]_vars

\* The writer, the server's feed and the browser are scheduled for as long
\* as they live; the network and the person at the keyboard need not act.
FairSpec == Spec /\ WF_vars(Writes) /\ WF_vars(Looks)

-----------------------------------------------------------------------------
\* A message as it is read: text has lost its padding.
Canonical(message) ==
    IF IsForeign(message) THEN message.reads ELSE
    [part \in DOMAIN message |->
        IF part \in Padded THEN TrimEnd(message[part]) ELSE message[part]]

\* What each scenario should come to: the messages before the first junk.
BeforeJunk(items, i) == \A j \in 1 .. i : ~IsJunk(items[j])
ReadAs(items) ==
    Joined([i \in DOMAIN items |->
              IF BeforeJunk(items, i) /\ Bytes(items[i]) # {} THEN <<Canonical(items[i])>>
              ELSE <<>>])
Expected == [s \in Scenarios |-> ReadAs(s.script)]
HasJunk == \E i \in DOMAIN scenario.script : IsJunk(scenario.script[i])

\* What the session reads is what the controller wrote, in its order, wherever
\* the stream is cut: all of it once it arrived, unless something that is no
\* frame comes along, and the session is lost for nothing else
\* (Framer.ts:3-9, Field.ts and Messages.ts for what is in a frame).
ReadsWhatWasWritten ==
    /\ IsPrefix(got, Expected[scenario])
    /\ ~HasJunk => session # "lost"
    /\ ~HasJunk /\ arrived = Len(stream) => got = Expected[scenario]

MidOf(message) ==
    IF message.tag = "UnknownMessage" THEN message.mid ELSE ByTag[message.tag].mid

Concerns(message, asked) ==
    \/ message.tag = "CommandError" /\ message.mid = asked.mid
    \/ /\ asked.reply = "CommandAccepted"
       /\ message.tag = "CommandAccepted" /\ message.mid = asked.mid
    \/ /\ asked.reply # "CommandAccepted"
       /\ MidOf(message) = ByTag[asked.reply].mid

\* What the first of them that concerns the request makes of it.
Outcome(messages, asked) ==
    LET own == {i \in DOMAIN messages : Concerns(messages[i], asked)}
        tag == messages[Min(own)].tag
    IN  IF own = {} THEN "none"
        ELSE IF tag = "CommandError" THEN "rejected"
        ELSE IF tag = "UnknownMessage" THEN "failed" ELSE "answered"

\* A request is settled by the first message that concerns it and by no
\* other, whatever comes first and in whatever pieces it comes; its reply in
\* a shape it cannot read fails it (RequestReply.ts:98-104, Mid.ts:363-381).
SettledByItsOwn ==
    request # NoRequest => outcome = Outcome(got, Asked)

\* Every request the simulated controller replies to is settled by the reply,
\* whatever it is read in pieces of: refused exactly when the controller, or
\* the fault put in its place, refused it (ControllerBehaviour.ts:137-176,
\* FaultyWire.ts:45-54).
RequestsAreAnswered ==
    scenario.exchange # {} /\ arrived = Len(stream) =>
      outcome = IF Last(scenario.script).tag = "CommandError" THEN "rejected" ELSE "answered"

Told(direction, kind) ==
    Joined([i \in DOMAIN traced |->
              IF traced[i].direction = direction /\ traced[i].kind = kind
              THEN UnescapeWire(traced[i].raw) ELSE <<>>])

\* The trace tells the stream: the chunks give back every byte that arrived,
\* the frames every byte of the complete ones (WireTrace.ts:60-70).
TraceTellsTheStream ==
    /\ Told("recv", "chunk") = SubSeq(stream, 1, arrived)
    /\ ~HasJunk => Told("recv", "frame") \o incoming = SubSeq(stream, 1, arrived)

\* The browser comes to show every stored event of the run, each one once and
\* in the order they were stored, however often its feed is opened again
\* (atoms.ts:123-158, route.ts:40-46).
ViewerCatchesUp == open ~> held = IdsOf(ThisRun, 0)

\* client.ts:116 "trace every byte it exchanges": with no failed statement,
\* what the process traced before it exited is in the store.
EveryByteIsTraced == stage = "exited" /\ dropped = {} => Stored = DOMAIN traced

=============================================================================
