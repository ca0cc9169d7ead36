------------------------------ MODULE MCTracedLink ------------------------------
(***************************************************************************)
(* Instance of TracedLink: every kind of message alone, and the pairs in   *)
(* which a request finds its reply late, refused, misread or behind junk.  *)
(***************************************************************************)
EXTENDS TracedLink

Name == <<97, 32, 92, 32>>      \* "a \ ": a backslash, and padding of its own
Vin == <<65, 32, 66>>
Stamp == <<50, 48, 50, 54, 45, 48, 49, 45, 48, 50, 58, 48, 51, 58, 48, 52, 58, 48, 53>>

Start == [tag |-> "CommunicationStartAccepted", revision |-> 1, cellId |-> 9999,
          channelId |-> 7, controllerName |-> Name]
TooLong == [Start EXCEPT !.controllerName = [i \in 1 .. 26 |-> 97]]
Refuses(mid) == [tag |-> "CommandError", revision |-> 1, mid |-> mid, code |-> 15]
Accepts(mid) == [tag |-> "CommandAccepted", revision |-> 1, mid |-> mid]
Alive == [tag |-> "KeepAlive", revision |-> 1]
Old == [tag |-> "OldResult", revision |-> 1, tighteningId |-> MaxTighteningId, vin |-> Vin,
        parameterSetId |-> 0, status |-> "OK", torqueStatus |-> "High",
        angleStatus |-> "Low", torque |-> 1205, angle |-> 99999, timestamp |-> Stamp]
Pushed == [tag |-> "LastResult", revision |-> 1, parameterSetChangedAt |-> Stamp,
           tighteningId |-> 0, vin |-> <<>>, parameterSetId |-> 999, status |-> "NOK",
           torqueStatus |-> "OK", angleStatus |-> "OK", torque |-> 0, angle |-> 1,
           timestamp |-> Stamp]
Unknown(mid, revision, data) ==
    [tag |-> "UnknownMessage", mid |-> mid, revision |-> revision, data |-> data]

\* Not a frame: a length that is no number, one that is too short, a frame
\* without its terminator, and a header that numbers its messages.
Junk(bytes) == [tag |-> "Junk", bytes |-> bytes]
NoLength == Junk(<<48, 48, 255, 48>>)
TooShort == Junk(PadNumber(19, 4))
NoEnd == Junk(PadNumber(20, 4) \o Zeroes(17))
Numbered == Junk(PadNumber(20, 4) \o PadNumber(9999, 4) \o Zeroes(8)
                 \o PadNumber(1, 2) \o Zeroes(2) \o <<0>>)

\* A header whose optional parts are blank, and one with a revision of zero.
Foreign(bytes, message) == [tag |-> "Foreign", bytes |-> bytes, reads |-> message]
Blank == Foreign(PadNumber(20, 4) \o PadNumber(9999, 4) \o Blanks(12) \o <<0>>, Alive)
ZeroRevision == Foreign(PadNumber(24, 4) \o PadNumber(5, 4) \o Zeroes(12) \o PadNumber(63, 4)
                        \o <<0>>, Accepts(63))

\* What the wire does, not recorded; and a recording of a short exchange.
Says(messages, tag, cuts) ==
    [script |-> messages, request |-> tag, cuts |-> cuts, exchange |-> {}, recorded |-> FALSE]
Recorded ==
    [script |-> <<Alive, Accepts(63)>>, request |-> NoRequest, cuts |-> {30}, exchange |-> {},
     recorded |-> TRUE]

\* What the simulated controller says to a request, with a result pushed in
\* front of it, its reply refused or not, and the whole in pieces.
Accepting ==
    [cellId |-> 1, channelId |-> 1, controllerName |-> Name, rejectStartWith |-> {},
     silent |-> FALSE]
Refusing == [Accepting EXCEPT !.rejectStartWith = {4}]
Talks(message, tag, identity, rejected, pieces) ==
    LET exchange == [message |-> message, identity |-> identity, store |-> {7}, latest |-> {7},
                     stamp |-> Stamp, refused |-> rejected, code |-> 79]
        said == <<Push(7, Stamp), CHOOSE reply \in Owed(exchange) : TRUE>>
    IN  [script |-> said, request |-> tag, cuts |-> PieceEnds(Len(StreamOf(said)), pieces),
         exchange |-> {exchange}, recorded |-> FALSE]
Plain(tag) == [tag |-> tag, revision |-> 1]
Wants(id) == [tag |-> "RequestOldResult", revision |-> 1, tighteningId |-> id]
Conversations ==
    {Talks(Plain(tag), tag, Accepting, refused, 4) :
        tag \in {"CommunicationStart", "CommunicationStop", "SubscribeResults",
                 "UnsubscribeResults", "KeepAlive"}, refused \in BOOLEAN}
    \cup {Talks(Wants(id), "RequestOldResult", Accepting, refused, 3) :
             id \in {0, 7, 8}, refused \in BOOLEAN}
    \cup {Talks(Plain("CommunicationStart"), "CommunicationStart", Refusing, FALSE, 2),
          Talks(Unknown(60, 2, <<>>), "SubscribeResults", Accepting, FALSE, 2)}

MCScenarios ==
    Conversations \cup
    {Recorded,
     Says(<<Start>>, "CommunicationStart", {3, 4, 20, 57}),
     Says(<<Old, Alive>>, "RequestOldResult", {2, 24, 127, 128}),
     Says(<<Pushed>>, NoRequest, {20, 231}),
     Says(<<TooLong, Alive>>, "KeepAlive", {1, 20}),
     Says(<<Unknown(61, 2, <<50>>), Unknown(61, 1, <<50, 51>>)>>, NoRequest, {20, 22, 26}),
     Says(<<Unknown(2, 2, <<>>), Alive>>, "CommunicationStart", {20, 21, 30}),
     Says(<<Refuses(60), Accepts(63)>>, "UnsubscribeResults", {4, 26, 27, 30}),
     Says(<<Accepts(60), Refuses(63)>>, "UnsubscribeResults", {12, 24, 25, 49}),
     Says(<<Refuses(64), Alive>>, "RequestOldResult", {26, 40}),
     Says(<<Blank, ZeroRevision>>, "UnsubscribeResults", {9, 21, 44}),
     Says(<<Alive, NoLength>>, NoRequest, {20, 21, 22}),
     Says(<<Alive, TooShort>>, NoRequest, {10, 23}),
     Says(<<NoEnd, Alive>>, NoRequest, {4, 20, 30}),
     Says(<<Numbered, Alive>>, NoRequest, {20, 21})}
=============================================================================
