---------------------------- MODULE RequestReply ----------------------------
(***************************************************************************)
(* connection/RequestReply.ts: the correlation slot of a session.  The     *)
(* protocol has no correlation identifier, so a gate lets one request out  *)
(* at a time, and a reply is recognised by the MID it names.               *)
(*                                                                         *)
(* A fiber holds the gate exactly while its request is in the slot, so     *)
(* slot stands for both.  Every session has a slot of its own; the one of  *)
(* a session that ended stays for the fibers that still queue for it.      *)
(* Requests whose revision expects no reply only pass the gate, and are    *)
(* sends of the composing module.                                          *)
(***************************************************************************)
EXTENDS Naturals

CONSTANTS
    Fibers,             \* fibers that make requests
    NoFiber,            \* nobody
    Sessions,           \* numbers of sessions
    Commands,           \* what is asked: a request MID and its subject
    ResponseTimeout     \* ticks until a request gives up; 0: at any time

ASSUME NoFiberAssumption == NoFiber \notin Fibers
ASSUME ResponseTimeoutAssumption == ResponseTimeout \in Nat

VARIABLES
    request,    \* what each fiber asks, on which session, and how far it got
    slot,       \* per session, the fiber whose request is in flight
    age         \* per session, ticks since that request was sent

requestVars == <<request, slot, age>>

Verdicts == {"accepted", "refused", "timeout", "lost"}

Idle == [at |-> "idle"]
Asked == [at : {"gate", "slot"}, command : Commands, session : Sessions]
Settled == [at : {"settled"}, command : Commands, session : Sessions,
            verdict : Verdicts]

RequestTypeOK ==
    /\ request \in [Fibers -> {Idle} \cup Asked \cup Settled]
    /\ slot \in [Sessions -> Fibers \cup {NoFiber}]
    /\ age \in [Sessions -> 0 .. ResponseTimeout]

RequestInit ==
    /\ request = [f \in Fibers |-> Idle]
    /\ slot = [s \in Sessions |-> NoFiber]
    /\ age = [s \in Sessions |-> 0]

IsIdle(f) == request[f] = Idle
Queues(f) == request[f].at = "gate"
IsSent(f) == request[f].at = "slot"
IsSettled(f) == request[f].at = "settled"

SettledAs(f, verdict) ==
    [at |-> "settled", command |-> request[f].command,
     session |-> request[f].session, verdict |-> verdict]

Without(f) ==
    [s \in Sessions |-> IF slot[s] = f THEN NoFiber ELSE slot[s]]

-----------------------------------------------------------------------------
\* request: the frame is encoded, then the fiber queues for the gate.
Asks(f, s, command) ==
    /\ IsIdle(f)
    /\ request' = [request EXCEPT
                     ![f] = [at |-> "gate", command |-> command, session |-> s]]
    /\ UNCHANGED <<slot, age>>

\* exchange: the slot is set, and then the frame is sent.
Sends(f) ==
    LET s == request[f].session
    IN  /\ Queues(f)
        /\ slot[s] = NoFiber
        /\ request' = [request EXCEPT ![f].at = "slot"]
        /\ slot' = [slot EXCEPT ![s] = f]
        /\ age' = [age EXCEPT ![s] = 0]

\* exchange on a socket that is gone: the send fails, and the slot is empty
\* again before anyone looks.
FailsToSend(f) ==
    /\ Queues(f)
    /\ slot[request[f].session] = NoFiber
    /\ request' = [request EXCEPT ![f] = SettledAs(f, "lost")]
    /\ UNCHANGED <<slot, age>>

\* offer: the frame is the reply of the request in the slot.  One that was
\* settled before keeps its verdict, and swallows the frame.
Recognises(s, command) ==
    slot[s] # NoFiber /\ request[slot[s]].command = command

SettlesReply(s, command, verdict) ==
    /\ Recognises(s, command)
    /\ request' = IF IsSent(slot[s])
                  THEN [request EXCEPT ![slot[s]] = SettledAs(slot[s], verdict)]
                  ELSE request
    /\ UNCHANGED <<slot, age>>

\* exchange: the reply did not come in time.
TimesOut(s) ==
    /\ slot[s] # NoFiber
    /\ IsSent(slot[s])
    /\ age[s] = ResponseTimeout
    /\ request' = [request EXCEPT ![slot[s]] = SettledAs(slot[s], "timeout")]
    /\ UNCHANGED <<slot, age>>

\* Mutant of Resumes: the finalizer of the exchange is forgotten.
ResumesInSlot(f) ==
    /\ IsSettled(f)
    /\ request' = [request EXCEPT ![f] = Idle]
    /\ UNCHANGED <<slot, age>>

\* exchange: the fiber runs on with the verdict; the finalizer empties the
\* slot and the gate lets the next one in.
Resumes(f) ==
    /\ IsSettled(f)
    /\ request' = [request EXCEPT ![f] = Idle]
    /\ slot' = Without(f)
    /\ UNCHANGED age

\* The fiber is interrupted, wherever it waits.
Interrupted(f) ==
    /\ ~IsIdle(f)
    /\ request' = [request EXCEPT ![f] = Idle]
    /\ slot' = Without(f)
    /\ UNCHANGED age

\* interruptAll, with the fibers of the session interrupted before it: only
\* the request in the slot fails, those that queue for the gate go on.
EndsRequests(s, gone) ==
    /\ request' = [f \in Fibers |->
                     IF f \in gone THEN Idle
                     ELSE IF slot[s] = f /\ IsSent(f) THEN SettledAs(f, "lost")
                     ELSE request[f]]
    /\ slot' = [t \in Sessions |-> IF slot[t] \in gone THEN NoFiber ELSE slot[t]]
    /\ UNCHANGED age

IsDue(s) == slot[s] # NoFiber /\ IsSent(slot[s]) /\ age[s] = ResponseTimeout

\* A tick of the clock: no timeout is overslept.
RequestsAge ==
    /\ \A s \in Sessions : ~IsDue(s)
    /\ age' = [s \in Sessions |->
                 IF slot[s] # NoFiber /\ IsSent(slot[s])
                 THEN age[s] + 1 ELSE age[s]]
    /\ UNCHANGED <<request, slot>>

-----------------------------------------------------------------------------
RequestNext ==
    \/ \E f \in Fibers, s \in Sessions, c \in Commands : Asks(f, s, c)
    \/ \E f \in Fibers : Sends(f) \/ FailsToSend(f)
    \/ \E s \in Sessions, c \in Commands, v \in {"accepted", "refused"} :
         SettlesReply(s, c, v)
    \/ \E s \in Sessions : TimesOut(s)
    \/ \E f \in Fibers : Resumes(f) \/ Interrupted(f)
    \/ \E s \in Sessions, gone \in SUBSET Fibers : EndsRequests(s, gone)
    \/ RequestsAge

RequestSpec == RequestInit /\ [][RequestNext]_requestVars

\* A request is in flight exactly while its fiber holds the slot of its
\* session: two requests are never out at once (RequestReply.ts:128).
OneInFlight ==
    \A f \in Fibers, s \in Sessions :
      slot[s] = f => ~IsIdle(f) /\ ~Queues(f) /\ request[f].session = s

SentIsInSlot ==
    \A f \in Fibers : IsSent(f) => slot[request[f].session] = f
=============================================================================
