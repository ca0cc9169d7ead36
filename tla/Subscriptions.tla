--------------------------- MODULE Subscriptions ---------------------------
(***************************************************************************)
(* connection/Subscriptions.ts: the subscription registry of one           *)
(* connection.  Consumers register and leave while sessions come and go;   *)
(* the connection's own fiber (Attempt) subscribes every active entry on   *)
(* each new session.  Only the sends take turns, at the registry's gate.   *)
(*                                                                         *)
(* A subscription is a data MID; at most one consumer holds it.  What a    *)
(* value says is left out: a buffer is the number of values in it.         *)
(***************************************************************************)
EXTENDS RequestReply

CONSTANTS
    Consumers,          \* fibers that subscribe
    Attempt,            \* the fiber of the connection attempt
    Mids,               \* data MIDs
    MidOf,              \* the MID each consumer subscribes to
    BufferSize,         \* values that wait for their consumer
    NoSession           \* no session is live

ASSUME ConsumersAreFibers ==
    Consumers \subseteq Fibers /\ Attempt \in Fibers \ Consumers
ASSUME MidOfAssumption == MidOf \in [Consumers -> Mids]
ASSUME BufferSizeAssumption == BufferSize \in Nat \ {0}
ASSUME NoSessionAssumption == NoSession \notin Sessions

VARIABLES
    entries,    \* per MID, the consumer registered for it
    closed,     \* the registry is closed
    live,       \* the session every entry was sent on
    turn,       \* the fiber that has the registry's gate
    phase,      \* how far each consumer got
    stream,     \* what became of each consumer's queue
    buffered,   \* values in that queue
    todo,       \* entries restore has still to send
    restored,   \* the entry restore waits for
    asked       \* history: subscribes asked on this session, per consumer

registryVars == <<entries, closed, live, turn, phase, stream, buffered, todo,
                  restored, asked>>

NoConsumer == NoFiber

Subscribe(m) == [op |-> "subscribe", mid |-> m]
Unsubscribe(m) == [op |-> "unsubscribe", mid |-> m]

RegistryTypeOK ==
    /\ entries \in [Mids -> Consumers \cup {NoConsumer}]
    /\ closed \in BOOLEAN
    /\ live \in Sessions \cup {NoSession}
    /\ turn \in Consumers \cup {Attempt, NoFiber}
    /\ phase \in [Consumers -> {"away", "opening", "adding", "streaming",
                                "leaving", "unsubscribing"}]
    /\ stream \in [Consumers -> {"open", "ended", "failed", "shutdown"}]
    /\ buffered \in [Consumers -> 0 .. BufferSize]
    /\ todo \subseteq Consumers
    /\ restored \in Consumers \cup {NoConsumer}
    /\ asked \in [Consumers -> 0 .. 2]

RegistryInit ==
    /\ entries = [m \in Mids |-> NoConsumer]
    /\ closed = FALSE
    /\ live = NoSession
    /\ turn = NoFiber
    /\ phase = [c \in Consumers |-> "away"]
    /\ stream = [c \in Consumers |-> "shutdown"]
    /\ buffered = [c \in Consumers |-> 0]
    /\ todo = {}
    /\ restored = NoConsumer
    /\ asked = [c \in Consumers |-> 0]

Registered(c) == entries[MidOf[c]] = c
Unregistered(c) ==
    IF Registered(c) THEN [entries EXCEPT ![MidOf[c]] = NoConsumer] ELSE entries
AskedOnce(c) == [asked EXCEPT ![c] = IF @ < 2 THEN @ + 1 ELSE 2]

\* subscribeOn, refused: the entry is forgotten and its stream fails.
Refuses(c) ==
    /\ entries' = Unregistered(c)
    /\ stream' = [stream EXCEPT ![c] = IF @ = "open" THEN "failed" ELSE @]

-----------------------------------------------------------------------------
\* open: a queue of its own, and then the gate.
Opens(c) ==
    /\ phase[c] = "away"
    /\ phase' = [phase EXCEPT ![c] = "opening"]
    /\ stream' = [stream EXCEPT ![c] = "open"]
    /\ buffered' = [buffered EXCEPT ![c] = 0]
    /\ asked' = [asked EXCEPT ![c] = 0]
    /\ UNCHANGED <<entries, closed, live, turn, todo, restored>>
    /\ UNCHANGED requestVars

\* Mutant of AddsClosed: the stream is handed out as it is.
AddsClosedOpen(c) ==
    /\ phase[c] = "opening" /\ turn = NoFiber
    /\ closed
    /\ phase' = [phase EXCEPT ![c] = "streaming"]
    /\ UNCHANGED <<entries, closed, live, turn, stream, buffered, todo, restored,
                   asked>>
    /\ UNCHANGED requestVars

\* add, in its turn of the gate: a closed registry ends the stream.
AddsClosed(c) ==
    /\ phase[c] = "opening" /\ turn = NoFiber
    /\ closed
    /\ stream' = [stream EXCEPT ![c] = "ended"]
    /\ phase' = [phase EXCEPT ![c] = "streaming"]
    /\ UNCHANGED <<entries, closed, live, turn, buffered, todo, restored, asked>>
    /\ UNCHANGED requestVars

\* add: the MID is taken, AlreadySubscribed; nothing was acquired.
AddsTaken(c) ==
    /\ phase[c] = "opening" /\ turn = NoFiber
    /\ ~closed
    /\ entries[MidOf[c]] # NoConsumer
    /\ phase' = [phase EXCEPT ![c] = "away"]
    /\ stream' = [stream EXCEPT ![c] = "shutdown"]
    /\ UNCHANGED <<entries, closed, live, turn, buffered, todo, restored, asked>>
    /\ UNCHANGED requestVars

\* add with no live session: the next handshake sends it.
AddsForLater(c) ==
    /\ phase[c] = "opening" /\ turn = NoFiber
    /\ ~closed
    /\ entries[MidOf[c]] = NoConsumer
    /\ live = NoSession
    /\ entries' = [entries EXCEPT ![MidOf[c]] = c]
    /\ phase' = [phase EXCEPT ![c] = "streaming"]
    /\ UNCHANGED <<closed, live, turn, stream, buffered, todo, restored, asked>>
    /\ UNCHANGED requestVars

\* add on a live session: registered, and sent under the gate.
AddsLive(c) ==
    /\ phase[c] = "opening" /\ turn = NoFiber
    /\ ~closed
    /\ entries[MidOf[c]] = NoConsumer
    /\ live # NoSession
    /\ entries' = [entries EXCEPT ![MidOf[c]] = c]
    /\ phase' = [phase EXCEPT ![c] = "adding"]
    /\ turn' = c
    /\ Asks(c, live, Subscribe(MidOf[c]))
    /\ asked' = AskedOnce(c)
    /\ UNCHANGED <<closed, live, stream, buffered, todo, restored>>

\* subscribeOn returns to add.  A request that failed is only logged: the
\* next handshake sends the subscription again.
AddReturns(c) ==
    /\ phase[c] = "adding"
    /\ Resumes(c)
    /\ IF request[c].verdict = "refused" THEN Refuses(c)
       ELSE UNCHANGED <<entries, stream>>
    /\ phase' = [phase EXCEPT ![c] = "streaming"]
    /\ turn' = NoFiber
    /\ UNCHANGED <<closed, live, buffered, todo, restored, asked>>

-----------------------------------------------------------------------------
\* The consumer takes a value.
Takes(c) ==
    /\ buffered[c] > 0
    /\ phase[c] = "streaming"
    /\ buffered' = [buffered EXCEPT ![c] = @ - 1]
    /\ UNCHANGED <<entries, closed, live, turn, phase, stream, todo, restored,
                   asked>>
    /\ UNCHANGED requestVars

\* remove, first half: out of the registry and the queue shut down, without
\* waiting for the gate.  An entry that was no longer registered (refused, or
\* closed) has nothing to stop.
Leaves(c) ==
    /\ phase[c] = "streaming"
    /\ entries' = Unregistered(c)
    /\ stream' = [stream EXCEPT ![c] = "shutdown"]
    /\ buffered' = [buffered EXCEPT ![c] = 0]
    /\ phase' = [phase EXCEPT ![c] = IF Registered(c) THEN "leaving" ELSE "away"]
    /\ UNCHANGED <<closed, live, turn, todo, restored, asked>>
    /\ UNCHANGED requestVars

\* Mutant of LeavesUnsubscribing: does not look whether the MID was taken.
LeavesUnsubscribingOthers(c) ==
    /\ phase[c] = "leaving" /\ turn = NoFiber
    /\ live # NoSession
    /\ turn' = c
    /\ phase' = [phase EXCEPT ![c] = "unsubscribing"]
    /\ Asks(c, live, Unsubscribe(MidOf[c]))
    /\ UNCHANGED <<entries, closed, live, stream, buffered, todo, restored, asked>>

\* remove, in its turn: a session is up and nobody took the MID meanwhile.
LeavesUnsubscribing(c) ==
    /\ phase[c] = "leaving" /\ turn = NoFiber
    /\ live # NoSession
    /\ entries[MidOf[c]] = NoConsumer
    /\ turn' = c
    /\ phase' = [phase EXCEPT ![c] = "unsubscribing"]
    /\ Asks(c, live, Unsubscribe(MidOf[c]))
    /\ UNCHANGED <<entries, closed, live, stream, buffered, todo, restored, asked>>

LeavesQuietly(c) ==
    /\ phase[c] = "leaving" /\ turn = NoFiber
    /\ live = NoSession \/ entries[MidOf[c]] # NoConsumer
    /\ phase' = [phase EXCEPT ![c] = "away"]
    /\ UNCHANGED <<entries, closed, live, turn, stream, buffered, todo, restored,
                   asked>>
    /\ UNCHANGED requestVars

\* The unsubscribe is best effort: whatever came of it, the consumer is gone.
RemoveReturns(c) ==
    /\ phase[c] = "unsubscribing"
    /\ Resumes(c)
    /\ phase' = [phase EXCEPT ![c] = "away"]
    /\ turn' = NoFiber
    /\ UNCHANGED <<entries, closed, live, stream, buffered, todo, restored, asked>>

-----------------------------------------------------------------------------
\* restore: the active entries are read in its turn of the gate.
RestoreStarts ==
    /\ turn = NoFiber
    /\ turn' = Attempt
    /\ todo' = {c \in Consumers : ~closed /\ Registered(c)}
    /\ restored' = NoConsumer
    /\ UNCHANGED <<entries, closed, live, phase, stream, buffered, asked>>
    /\ UNCHANGED requestVars

RestoreAsks(s) ==
    /\ turn = Attempt
    /\ \E c \in todo :
         /\ Asks(Attempt, s, Subscribe(MidOf[c]))
         /\ todo' = todo \ {c}
         /\ restored' = c
         /\ asked' = AskedOnce(c)
    /\ UNCHANGED <<entries, closed, live, turn, phase, stream, buffered>>

\* A refusal ends one subscription; the caller handles a lost request.
RestoreReturns ==
    /\ turn = Attempt
    /\ Resumes(Attempt)
    /\ request[Attempt].verdict \in {"accepted", "refused"}
    /\ IF request[Attempt].verdict = "refused" THEN Refuses(restored)
       ELSE UNCHANGED <<entries, stream>>
    /\ restored' = NoConsumer
    /\ UNCHANGED <<closed, live, turn, phase, buffered, todo, asked>>

RestoreDone(s) ==
    /\ turn = Attempt
    /\ IsIdle(Attempt)
    /\ todo = {}
    /\ live' = IF closed THEN live ELSE s
    /\ turn' = NoFiber
    /\ UNCHANGED <<entries, closed, phase, stream, buffered, todo, restored, asked>>
    /\ UNCHANGED requestVars

\* Mutant of Detaches: the session that ended stays live.
DetachesNothing ==
    /\ turn' = IF turn = Attempt THEN NoFiber ELSE turn
    /\ todo' = {}
    /\ restored' = NoConsumer
    /\ asked' = [c \in Consumers |-> 0]
    /\ UNCHANGED <<entries, closed, live, phase, stream, buffered>>

\* detach, with the restore of the session interrupted before it.
Detaches ==
    /\ live' = NoSession
    /\ turn' = IF turn = Attempt THEN NoFiber ELSE turn
    /\ todo' = {}
    /\ restored' = NoConsumer
    /\ asked' = [c \in Consumers |-> 0]
    /\ UNCHANGED <<entries, closed, phase, stream, buffered>>

\* close: every registered stream ends.
CloseRegistry ==
    /\ closed' = TRUE
    /\ live' = NoSession
    /\ entries' = [m \in Mids |-> NoConsumer]
    /\ stream' = [c \in Consumers |->
                    IF Registered(c) /\ stream[c] = "open" THEN "ended"
                    ELSE stream[c]]
    /\ UNCHANGED <<turn, phase, buffered, todo, restored, asked>>
    /\ UNCHANGED requestVars

-----------------------------------------------------------------------------
\* A subscription is sent at most once on a session, whoever of add and
\* restore does it (Subscriptions.ts:138).
SentAtMostOnce == \A c \in Consumers : asked[c] <= 1

\* Nobody waits on a stream that nothing will end: a consumer whose queue is
\* open is registered, or an add is about to register or end it
\* (Subscriptions.ts:208).
OpenStreamsAreRegistered ==
    \A c \in Consumers :
      phase[c] = "streaming" /\ stream[c] = "open" => Registered(c)
=============================================================================
