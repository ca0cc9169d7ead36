-------------------------- MODULE ConnectionState --------------------------
(***************************************************************************)
(* The state machine of one connection, connection/ConnectionState.ts: a   *)
(* pure transition function on tagged states.  Of what a state carries     *)
(* only the attempt number is kept, and 0 stands for none.                 *)
(***************************************************************************)
EXTENDS Naturals

Tags == {"Disconnected", "Connecting", "Handshaking", "Recovering", "Subscribing",
         "Ready", "WaitingToReconnect", "Closing", "Closed"}

Events == {"AttemptStarted", "Opened", "Accepted", "Recovered", "Subscribed",
           "Failed", "CloseRequested", "Released"}

ConnectionStates == [tag : Tags, attempt : Nat]

At(tag, attempt) == [tag |-> tag, attempt |-> attempt]

Initial == At("Disconnected", 0)

IsFinal(s) == s.tag = "Closed"
IsClosedOrClosing(s) == s.tag \in {"Closing", "Closed"}
IsStreakStart(s) == s.tag = "WaitingToReconnect" /\ s.attempt = 1

\* Mutant of Opening: a failure during recovery is not accepted.
OpeningWithoutRecovery == {"Connecting", "Handshaking", "Subscribing"}

\* The states in which an attempt has begun and its session is not ready.
Opening == {"Connecting", "Handshaking", "Recovering", "Subscribing"}

\* An event the machine refuses fails with InvalidTransition.
Legal(s, event) ==
    \/ event = "CloseRequested" /\ ~IsFinal(s)
    \/ event = "Released"       /\ s.tag = "Closing"
    \/ event = "AttemptStarted" /\ s.tag \in {"Disconnected", "WaitingToReconnect"}
    \/ event = "Opened"         /\ s.tag = "Connecting"
    \/ event = "Accepted"       /\ s.tag = "Handshaking"
    \/ event = "Recovered"      /\ s.tag = "Recovering"
    \/ event = "Subscribed"     /\ s.tag = "Subscribing"
    \/ event = "Failed"         /\ s.tag \in Opening \cup {"Ready"}

\* Where an event leads from any state in which it is legal.
Target ==
    [CloseRequested |-> "Closing", Released |-> "Closed",
     AttemptStarted |-> "Connecting", Opened |-> "Handshaking",
     Accepted |-> "Recovering", Recovered |-> "Subscribing",
     Subscribed |-> "Ready", Failed |-> "WaitingToReconnect"]

\* A session that was ready ends the streak of failures before it, and a
\* failure after it is the first of the next.
NextAttempt(s, event) ==
    IF event \in {"CloseRequested", "Released", "Subscribed"} THEN 0
    ELSE IF event = "AttemptStarted" THEN s.attempt + 1
    ELSE IF s.tag = "Ready" THEN 1
    ELSE s.attempt

\* The next state, on a legal event.
Transition(s, event) == At(Target[event], NextAttempt(s, event))

=============================================================================
