------------------------- MODULE RequestReplyProofs -------------------------
(***************************************************************************)
(* The correlation slot of module RequestReply, for any number of fibers   *)
(* and sessions: whatever is asked, answered, given up, interrupted or     *)
(* lost, one request at a time is out on a session, and it is the one the  *)
(* next reply will be matched with.                                        *)
(*                                                                         *)
(* Neither half can be shown alone.  That a new request finds no other in  *)
(* flight (OneInFlight) needs that each one sent is in the slot, and that  *)
(* the slot is not taken from one in flight (SentIsInSlot) needs that the  *)
(* fiber in the slot is not still waiting for the gate.                    *)
(***************************************************************************)
EXTENDS RequestReply, TLAPS

SlotInv == RequestTypeOK /\ OneInFlight /\ SentIsInSlot

\* Two requests are never in flight on one session.
NeverTwo ==
    \A f, g \in Fibers :
      IsSent(f) /\ IsSent(g) /\ request[f].session = request[g].session => f = g

-----------------------------------------------------------------------------
(* What the type of a request says in each of its stages.                  *)
LEMMA Stages ==
    ASSUME RequestTypeOK, NEW f \in Fibers
    PROVE  /\ IsIdle(f) => ~Queues(f) /\ ~IsSent(f) /\ ~IsSettled(f)
           /\ Queues(f) \/ IsSent(f) => request[f] \in Asked
           /\ IsSettled(f) => request[f] \in Settled
           /\ ~IsIdle(f) => /\ request[f].command \in Commands
                            /\ request[f].session \in Sessions
                            /\ Queues(f) \/ IsSent(f) \/ IsSettled(f)
           /\ ~(Queues(f) /\ IsSent(f))
           /\ ~(Queues(f) /\ IsSettled(f))
           /\ ~(IsSent(f) /\ IsSettled(f))
BY DEF RequestTypeOK, IsIdle, Queues, IsSent, IsSettled, Idle, Asked, Settled

LEMMA VerdictIsSettled ==
    ASSUME RequestTypeOK, NEW f \in Fibers, ~IsIdle(f),
           NEW v \in Verdicts
    PROVE  /\ SettledAs(f, v) \in Settled
           /\ SettledAs(f, v) # Idle
           /\ SettledAs(f, v).at = "settled"
           /\ SettledAs(f, v).session = request[f].session
BY Stages DEF SettledAs, Settled, Idle

-----------------------------------------------------------------------------
LEMMA InitSlotInv == RequestInit => SlotInv
BY NoFiberAssumption, ResponseTimeoutAssumption
   DEF RequestInit, SlotInv, RequestTypeOK, OneInFlight, SentIsInSlot, Idle,
       IsSent

LEMMA AsksKeeps ==
    ASSUME SlotInv, NEW f \in Fibers, NEW s \in Sessions, NEW c \in Commands,
           Asks(f, s, c)
    PROVE  SlotInv'
<1> USE DEF SlotInv
<1>1. RequestTypeOK'
  BY DEF RequestTypeOK, Asks, Asked
<1>2. OneInFlight'
  BY DEF OneInFlight, Asks, IsIdle, Queues, RequestTypeOK
<1>3. SentIsInSlot'
  BY DEF SentIsInSlot, Asks, IsSent, RequestTypeOK
<1> QED
  BY <1>1, <1>2, <1>3

LEMMA SendsKeeps ==
    ASSUME SlotInv, NEW f \in Fibers, Sends(f)
    PROVE  SlotInv'
<1> USE DEF SlotInv
<1> DEFINE s == request[f].session
<1>1. /\ request[f] \in Asked
      /\ s \in Sessions
  BY Stages DEF Sends, Asked
<1>2. [request[f] EXCEPT !.at = "slot"] \in Asked
  BY <1>1 DEF Asked
<1>3. RequestTypeOK'
  BY <1>1, <1>2, ResponseTimeoutAssumption DEF RequestTypeOK, Sends
<1>4. \A g \in Fibers : g # f => request'[g] = request[g]
  BY DEF Sends, RequestTypeOK
<1>5. /\ request'[f].at = "slot"
      /\ request'[f].session = s
      /\ request'[f] # Idle
  BY <1>1 DEF Sends, RequestTypeOK, Idle, Asked
<1>6. slot' = [slot EXCEPT ![s] = f]
  BY DEF Sends
<1>7. slot[s] = NoFiber
  BY DEF Sends
<1>8. \A t \in Sessions : slot[t] # f
  BY DEF OneInFlight, Sends
<1>9. OneInFlight'
  BY <1>1, <1>4, <1>5, <1>6, <1>8
     DEF OneInFlight, IsIdle, Queues, RequestTypeOK
<1>10. SentIsInSlot'
  BY <1>1, <1>4, <1>5, <1>6, <1>7, NoFiberAssumption
     DEF SentIsInSlot, IsSent, RequestTypeOK
<1> QED
  BY <1>3, <1>9, <1>10

\* A request that comes to its verdict leaves the slot to its finalizer.
LEMMA VerdictKeeps ==
    ASSUME SlotInv, NEW f \in Fibers, NEW v \in Verdicts, ~IsIdle(f),
           Queues(f) \/ IsSent(f),
           request' = [request EXCEPT ![f] = SettledAs(f, v)],
           UNCHANGED <<slot, age>>
    PROVE  SlotInv'
<1> USE DEF SlotInv
<1>1. /\ SettledAs(f, v) \in Settled
      /\ SettledAs(f, v) # Idle
      /\ SettledAs(f, v).at = "settled"
      /\ SettledAs(f, v).session = request[f].session
  BY VerdictIsSettled
<1>2. RequestTypeOK'
  BY <1>1 DEF RequestTypeOK
<1>3. OneInFlight'
  BY <1>1 DEF OneInFlight, IsIdle, Queues, RequestTypeOK
<1>4. SentIsInSlot'
  BY <1>1 DEF SentIsInSlot, IsSent, RequestTypeOK
<1> QED
  BY <1>2, <1>3, <1>4

\* The finalizer empties the slot of a fiber that goes on or is interrupted.
LEMMA LeavesKeeps ==
    ASSUME SlotInv, NEW f \in Fibers,
           request' = [request EXCEPT ![f] = Idle],
           slot' = Without(f),
           UNCHANGED age
    PROVE  SlotInv'
<1> USE DEF SlotInv
<1>1. RequestTypeOK'
  BY DEF RequestTypeOK, Without
<1>2. \A g \in Fibers : g # f => request'[g] = request[g]
  BY DEF RequestTypeOK
<1>3. ~IsSent(f)'
  BY DEF IsSent, RequestTypeOK, Idle
<1>4. OneInFlight'
  BY <1>2, NoFiberAssumption
     DEF OneInFlight, Without, IsIdle, Queues, RequestTypeOK
<1>5. SentIsInSlot'
  BY <1>2, <1>3, Stages
     DEF SentIsInSlot, Without, IsSent, RequestTypeOK, IsIdle, Asked
<1> QED
  BY <1>1, <1>4, <1>5

LEMMA EndsKeeps ==
    ASSUME SlotInv, NEW s \in Sessions, NEW gone \in SUBSET Fibers,
           EndsRequests(s, gone)
    PROVE  SlotInv'
<1> USE DEF SlotInv
<1>1. "lost" \in Verdicts
  BY DEF Verdicts
<1>2. \A f \in Fibers : IsSent(f) =>
        /\ SettledAs(f, "lost") \in Settled
        /\ SettledAs(f, "lost") # Idle
        /\ SettledAs(f, "lost").at = "settled"
        /\ SettledAs(f, "lost").session = request[f].session
  BY <1>1, VerdictIsSettled, Stages
<1>3. RequestTypeOK'
  <2>1. request' \in [Fibers -> {Idle} \cup Asked \cup Settled]
    BY <1>2 DEF EndsRequests, RequestTypeOK
  <2>2. slot' \in [Sessions -> Fibers \cup {NoFiber}]
    BY DEF EndsRequests, RequestTypeOK
  <2>3. age' \in [Sessions -> 0 .. ResponseTimeout]
    BY DEF EndsRequests, RequestTypeOK
  <2> QED
    BY <2>1, <2>2, <2>3 DEF RequestTypeOK
<1>4. OneInFlight'
  <2> SUFFICES ASSUME NEW f \in Fibers, NEW t \in Sessions, slot'[t] = f
               PROVE  /\ request'[f] # Idle
                      /\ request'[f].at # "gate"
                      /\ request'[f].session = t
    BY DEF OneInFlight, IsIdle, Queues
  <2>1. slot[t] = f /\ f \notin gone
    BY NoFiberAssumption DEF EndsRequests
  <2>2. ~IsIdle(f) /\ ~Queues(f) /\ request[f].session = t
    BY <2>1 DEF OneInFlight
  <2>3. CASE slot[s] = f /\ IsSent(f)
    BY <2>1, <2>2, <2>3, <1>2 DEF EndsRequests
  <2>4. CASE ~(slot[s] = f /\ IsSent(f))
    BY <2>1, <2>2, <2>4 DEF EndsRequests, IsIdle, Queues
  <2> QED
    BY <2>3, <2>4
<1>5. SentIsInSlot'
  <2> SUFFICES ASSUME NEW f \in Fibers, request'[f].at = "slot"
               PROVE  slot'[request'[f].session] = f
    BY DEF SentIsInSlot, IsSent
  <2>1. f \notin gone
    BY DEF EndsRequests, Idle
  <2>2. ~(slot[s] = f /\ IsSent(f))
    BY <2>1, <1>2 DEF EndsRequests
  <2>3. request'[f] = request[f]
    BY <2>1, <2>2 DEF EndsRequests
  <2>4. /\ slot[request[f].session] = f
        /\ request[f].session \in Sessions
    BY <2>3, Stages DEF SentIsInSlot, IsSent, Asked
  <2> QED
    BY <2>1, <2>3, <2>4 DEF EndsRequests
<1> QED
  BY <1>3, <1>4, <1>5

LEMMA AgeKeeps ==
    ASSUME SlotInv, RequestsAge
    PROVE  SlotInv'
<1> USE DEF SlotInv
<1>1. \A s \in Sessions :
        slot[s] # NoFiber /\ IsSent(slot[s]) => age[s] + 1 \in 0 .. ResponseTimeout
  BY ResponseTimeoutAssumption DEF RequestsAge, IsDue, RequestTypeOK
<1>2. RequestTypeOK'
  BY <1>1 DEF RequestTypeOK, RequestsAge
<1>3. OneInFlight' /\ SentIsInSlot'
  BY DEF RequestsAge, OneInFlight, SentIsInSlot, IsIdle, Queues, IsSent
<1> QED
  BY <1>2, <1>3

LEMMA NextKeepsSlotInv ==
    ASSUME SlotInv, [RequestNext]_requestVars
    PROVE  SlotInv'
<1> USE DEF SlotInv
<1>1. CASE UNCHANGED requestVars
  BY <1>1 DEF requestVars, RequestTypeOK, OneInFlight, SentIsInSlot, IsIdle,
     Queues, IsSent
<1>2. ASSUME NEW f \in Fibers, NEW s \in Sessions, NEW c \in Commands,
             Asks(f, s, c)
      PROVE  SlotInv'
  BY <1>2, AsksKeeps
<1>3. ASSUME NEW f \in Fibers, Sends(f)
      PROVE  SlotInv'
  BY <1>3, SendsKeeps
<1>4. ASSUME NEW f \in Fibers, FailsToSend(f)
      PROVE  SlotInv'
  BY <1>4, VerdictKeeps, Stages DEF FailsToSend, Verdicts
<1>5. ASSUME NEW s \in Sessions, NEW c \in Commands,
             NEW v \in {"accepted", "refused"}, SettlesReply(s, c, v)
      PROVE  SlotInv'
  <2>1. slot[s] \in Fibers
    BY <1>5 DEF SettlesReply, Recognises, RequestTypeOK
  <2>2. CASE IsSent(slot[s])
    BY <1>5, <2>1, <2>2, VerdictKeeps, Stages DEF SettlesReply, Verdicts
  <2>3. CASE ~IsSent(slot[s])
    BY <1>5, <2>3 DEF SettlesReply, RequestTypeOK, OneInFlight, SentIsInSlot,
       IsIdle, Queues, IsSent
  <2> QED
    BY <2>2, <2>3
<1>6. ASSUME NEW s \in Sessions, TimesOut(s)
      PROVE  SlotInv'
  <2>1. slot[s] \in Fibers
    BY <1>6 DEF TimesOut, RequestTypeOK
  <2> QED
    BY <1>6, <2>1, VerdictKeeps, Stages DEF TimesOut, Verdicts
<1>7. ASSUME NEW f \in Fibers, Resumes(f) \/ Interrupted(f)
      PROVE  SlotInv'
  BY <1>7, LeavesKeeps DEF Resumes, Interrupted
<1>8. ASSUME NEW s \in Sessions, NEW gone \in SUBSET Fibers,
             EndsRequests(s, gone)
      PROVE  SlotInv'
  BY <1>8, EndsKeeps
<1>9. CASE RequestsAge
  BY <1>9, AgeKeeps
<1> QED
  BY <1>1, <1>2, <1>3, <1>4, <1>5, <1>6, <1>7, <1>8, <1>9 DEF RequestNext

-----------------------------------------------------------------------------
\* Every request is in one of its stages, and no request is older than the
\* time after which it gives up (RequestReply.ts:112).
THEOREM RequestTypes == RequestSpec => []RequestTypeOK
<1>1. RequestSpec => []SlotInv
  BY InitSlotInv, NextKeepsSlotInv, PTL DEF RequestSpec
<1>2. SlotInv => RequestTypeOK
  BY DEF SlotInv
<1> QED
  BY <1>1, <1>2, PTL

\* The slot names the request that is in flight on its session, from the send
\* to the finalizer that empties it, and no fiber that waits for the gate or
\* is done: what the reader compares an incoming frame with is never stale
\* (RequestReply.ts:108).
THEOREM SlotIsInFlight == RequestSpec => [](OneInFlight /\ SentIsInSlot)
<1>1. RequestSpec => []SlotInv
  BY InitSlotInv, NextKeepsSlotInv, PTL DEF RequestSpec
<1>2. SlotInv => OneInFlight /\ SentIsInSlot
  BY DEF SlotInv
<1> QED
  BY <1>1, <1>2, PTL

\* The gate lets one request out at a time on a session, although it is
\* handed on by replies, timeouts, interruptions and the end of the session
\* in any order: a reply is never matched with the wrong one of two
\* (RequestReply.ts:128).
THEOREM NeverTwoInFlight == RequestSpec => []NeverTwo
<1>1. RequestSpec => []SlotInv
  BY InitSlotInv, NextKeepsSlotInv, PTL DEF RequestSpec
<1>2. SlotInv => NeverTwo
  BY DEF SlotInv, SentIsInSlot, NeverTwo
<1> QED
  BY <1>1, <1>2, PTL
=============================================================================
