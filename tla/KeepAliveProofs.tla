-------------------------- MODULE KeepAliveProofs --------------------------
(***************************************************************************)
(* The keep-alive clock, for any number of application fibers, any         *)
(* settings and any length of a tick.                                      *)
(*                                                                         *)
(* The loop works with two times it computes itself, and requests of other *)
(* fibers come between its waking and its send.  The invariant says how    *)
(* each stage bounds the silence: while the loop sleeps, by what is left   *)
(* of its timer; while a request is in flight, by the age of that request. *)
(***************************************************************************)
EXTENDS KeepAlive, RequestReplyProofs

\* What is in the slot was sent after the last silence began.
SilenceIsYoung ==
    ready /\ slot[Link] # NoFiber => silence <= age[Link]

\* The loop sleeps no longer than the link may still be silent.
SleepIsShort ==
    ready /\ IsIdle(Loop) => silence + timer <= LongestSilence

\* The loop woke before its mirror was sent, and holds the slot for it.
MirrorIsYoung ==
    ready => /\ slot[Link] = Loop => wokeFor >= silence
             /\ IsSettled(Loop) => slot[Link] = Loop

ClockInv ==
    /\ TypeOK
    /\ OneInFlight
    /\ SentIsInSlot
    /\ SilenceIsBounded
    /\ SilenceIsYoung
    /\ SleepIsShort
    /\ MirrorIsYoung

-----------------------------------------------------------------------------
\* The longest silence leaves room for the two ways the loop falls asleep:
\* after a request it made itself, and after one of somebody else.
LEMMA SilenceHasRoom ==
    /\ Interval \in Nat
    /\ ResponseTimeout \in Nat
    /\ LongestSilence \in Nat
    /\ ResponseTimeout + Interval <= LongestSilence
    /\ \A n \in Nat : n < Interval => n + Interval <= LongestSilence
<1>1. Settings.keepAliveInterval \in Nat
  BY ConfigAssumption
     DEF Settings, ResolveSettings, IsConfig, DefaultSettings
<1>2. Interval \in Nat
  BY <1>1, ConfigAssumption DEF Interval
<1>3. ResponseTimeout \in Nat
  BY ResponseTimeoutAssumption
<1> QED
  BY <1>2, <1>3 DEF LongestSilence

LEMMA OneLink ==
    /\ Link \in Sessions
    /\ \A s \in Sessions : s = Link
    /\ Loop \in Fibers
    /\ \A a \in Apps : a \in Fibers /\ a # Loop
    /\ {Query, Mirror} \subseteq Commands
    /\ Loop # NoFiber
BY LinkAssumption, FibersAssumption, MirrorAssumption, NoFiberAssumption

\* Every request of the session goes through the slot as RequestReply says.
LEMMA StepIsRequestStep ==
    ASSUME SlotInv, [Next]_vars
    PROVE  [RequestNext]_requestVars
<1> USE OneLink
<1>1. CASE UNCHANGED vars
  BY <1>1 DEF vars
<1>2. ASSUME NEW f \in Fibers, SendsRequest(f) \/ SendFails(f)
      PROVE  RequestNext
  BY <1>2 DEF SendsRequest, SendFails, RequestNext
<1>3. ASSUME NEW a \in Apps, AppRequests(a) \/ AppResumes(a)
      PROVE  RequestNext
  BY <1>3 DEF AppRequests, AppResumes, RequestNext
<1>4. CASE RequestGivesUp
  BY <1>4 DEF RequestGivesUp, RequestNext
<1>5. CASE LoopAsks
  BY <1>5 DEF LoopAsks, RequestNext
<1>6. CASE LoopReturns
  BY <1>6 DEF LoopReturns, RequestNext
<1>7. CASE LoopFails
  <2>1. {Loop} \in SUBSET Fibers
    OBVIOUS
  <2>2. EndsRequests(Link, {Loop})
    BY <1>7 DEF LoopFails
  <2> QED
    BY <2>1, <2>2 DEF RequestNext
<1>8. CASE ControllerAnswers
  <2>1. PICK v \in {"accepted", "refused"} :
          SettlesReply(Link, request[slot[Link]].command, v)
    BY <1>8 DEF ControllerAnswers
  <2>2. slot[Link] \in Fibers /\ IsSent(slot[Link])
    BY <1>8 DEF ControllerAnswers, SlotInv, RequestTypeOK
  <2>3. request[slot[Link]].command \in Commands
    BY <2>2, Stages DEF SlotInv
  <2> QED
    BY <2>1, <2>3 DEF RequestNext
<1>9. CASE Tick
  BY <1>9 DEF Tick, RequestNext
<1>10. CASE LoopSkips \/ GoesMute \/ ReaderBlocks \/ ConsumerMakesRoom
  BY <1>10 DEF LoopSkips, GoesMute, ReaderBlocks, ConsumerMakesRoom
<1> QED
  BY <1>1, <1>2, <1>3, <1>4, <1>5, <1>6, <1>7, <1>8, <1>9, <1>10 DEF Next

-----------------------------------------------------------------------------
LEMMA InitClockInv == Init => ClockInv
<1> SUFFICES ASSUME Init PROVE ClockInv
  OBVIOUS
<1>1. SlotInv
  BY InitSlotInv DEF Init
<1>2. TypeOK
  <2>1. {ready, blocked, mute} \subseteq BOOLEAN
    BY DEF Init
  <2>2. /\ timer \in 0 .. Interval
        /\ idle \in 0 .. Forever
        /\ wokeFor \in 0 .. Forever
        /\ silence \in 0 .. Forever
    BY SilenceHasRoom DEF Init, Forever
  <2> QED
    BY <1>1, <2>1, <2>2 DEF TypeOK, SlotInv
<1>3. SilenceIsBounded /\ SleepIsShort
  BY SilenceHasRoom DEF Init, SilenceIsBounded, SleepIsShort
<1>4. SilenceIsYoung /\ MirrorIsYoung
  BY OneLink DEF Init, RequestInit, SilenceIsYoung, MirrorIsYoung, IsSettled,
     Idle
<1> QED
  BY <1>1, <1>2, <1>3, <1>4 DEF ClockInv, SlotInv

\* The clock's types: its times stay in their ranges.
LEMMA TypesKept ==
    ASSUME ClockInv, SlotInv', [Next]_vars
    PROVE  TypeOK'
<1> USE SilenceHasRoom DEF ClockInv, TypeOK, SlotInv, Forever
<1>1. CASE UNCHANGED vars
  BY <1>1 DEF vars, clockVars, linkVars
<1>2. ASSUME NEW f \in Fibers, SendsRequest(f) \/ SendFails(f)
      PROVE  TypeOK'
  BY <1>2 DEF SendsRequest, SendFails, clockVars, linkVars
<1>3. ASSUME NEW a \in Apps, AppRequests(a) \/ AppResumes(a)
      PROVE  TypeOK'
  BY <1>3 DEF AppRequests, AppResumes, clockVars, linkVars
<1>4. CASE RequestGivesUp \/ LoopSkips \/ LoopAsks
  BY <1>4 DEF RequestGivesUp, LoopSkips, LoopAsks, clockVars, linkVars
<1>5. CASE LoopReturns
  BY <1>5 DEF LoopReturns, linkVars
<1>6. CASE LoopFails
  <2>1. /\ ready' = FALSE /\ blocked' = FALSE
        /\ UNCHANGED <<clockVars, mute>>
    BY <1>6 DEF LoopFails
  <2> QED
    BY <2>1 DEF clockVars
<1>7. CASE ControllerAnswers \/ GoesMute \/ ReaderBlocks \/ ConsumerMakesRoom
  BY <1>7 DEF ControllerAnswers, GoesMute, ReaderBlocks, ConsumerMakesRoom,
     clockVars, linkVars
<1>8. CASE Tick
  BY <1>8 DEF Tick, OneMore, linkVars
<1> QED
  BY <1>1, <1>2, <1>3, <1>4, <1>5, <1>6, <1>7, <1>8 DEF Next

-----------------------------------------------------------------------------
(* The four parts that speak of time.                                      *)
TimesAgree == SilenceIsBounded /\ SilenceIsYoung /\ SleepIsShort /\ MirrorIsYoung

\* What bounds the silence is left alone, and so is the slot; the loop's own
\* request does not come to an end.
LEMMA TimesKept ==
    ASSUME TimesAgree,
           UNCHANGED <<ready, idle, silence, wokeFor, timer, slot, age>>,
           IsIdle(Loop)' => IsIdle(Loop),
           ready /\ IsSettled(Loop)' => slot[Link] = Loop
    PROVE  TimesAgree'
BY DEF TimesAgree, SilenceIsBounded, SilenceIsYoung, SleepIsShort, MirrorIsYoung

\* A send ends the silence, whoever sends.
LEMMA SendTimes ==
    ASSUME ClockInv, NEW f \in Fibers, SendsRequest(f)
    PROVE  TimesAgree'
<1> USE DEF ClockInv
<1>1. RequestTypeOK
  BY DEF TypeOK
<1>2. /\ ready' = ready /\ idle' = 0 /\ silence' = 0
      /\ UNCHANGED <<timer, wokeFor>>
      /\ timer \in 0 .. Interval
      /\ wokeFor \in Nat
  BY SilenceHasRoom DEF SendsRequest, TypeOK, Forever
<1>3. /\ slot[Link] = NoFiber
      /\ slot'[Link] = f
      /\ age'[Link] = 0
      /\ request' = [request EXCEPT ![f].at = "slot"]
      /\ ~IsIdle(f)
      /\ request[f].session = Link
  BY <1>1, OneLink, Stages DEF SendsRequest, Sends, RequestTypeOK, Asked
<1>4. IsSettled(Loop)' => slot'[Link] = Loop
  BY <1>1, <1>3, OneLink
     DEF IsSettled, RequestTypeOK, SendsRequest, MirrorIsYoung
<1>5. SilenceIsBounded' /\ SilenceIsYoung'
  BY <1>2, <1>3, SilenceHasRoom DEF SilenceIsBounded, SilenceIsYoung
<1>6. SleepIsShort'
  BY <1>2, SilenceHasRoom DEF SleepIsShort
<1>7. MirrorIsYoung'
  BY <1>2, <1>4 DEF MirrorIsYoung
<1> QED
  BY <1>5, <1>6, <1>7 DEF TimesAgree

\* The mirror came back: the silence is at most as old as the mirror.
LEMMA ReturnTimes ==
    ASSUME ClockInv, LoopReturns
    PROVE  TimesAgree'
<1> USE DEF ClockInv
<1>1. CASE ~ready
  BY <1>1 DEF LoopReturns, TimesAgree, SilenceIsBounded, SilenceIsYoung,
     SleepIsShort, MirrorIsYoung
<1>2. CASE ready
  <2>1. slot[Link] = Loop /\ wokeFor >= silence /\ silence <= age[Link]
    BY <1>2, OneLink DEF LoopReturns, Resumes, MirrorIsYoung, SilenceIsYoung
  <2>2. /\ age[Link] \in 0 .. ResponseTimeout
        /\ silence \in Nat /\ wokeFor \in Nat
    BY OneLink, SilenceHasRoom DEF TypeOK, RequestTypeOK, Forever
  <2>3. /\ ready' /\ idle' = wokeFor /\ silence' = silence /\ timer' = Interval
        /\ slot'[Link] = NoFiber /\ request'[Loop] = Idle
    BY <1>2, <2>1, OneLink
       DEF LoopReturns, Resumes, Without, TypeOK, RequestTypeOK
  <2>4. ~IsSettled(Loop)'
    BY <2>3 DEF IsSettled, Idle
  <2>5. SilenceIsBounded' /\ SleepIsShort'
    BY <2>1, <2>2, <2>3, SilenceHasRoom DEF SilenceIsBounded, SleepIsShort
  <2>6. SilenceIsYoung' /\ MirrorIsYoung'
    BY <2>3, <2>4, OneLink DEF SilenceIsYoung, MirrorIsYoung
  <2> QED
    BY <2>5, <2>6 DEF TimesAgree
<1> QED
  BY <1>1, <1>2

\* Time passes only while a request is in flight or the loop sleeps.
LEMMA TickTimes ==
    ASSUME ClockInv, Tick
    PROVE  TimesAgree'
<1> USE SilenceHasRoom, OneLink DEF ClockInv
<1>1. CASE ~ready
  BY <1>1 DEF Tick, TimesAgree, SilenceIsBounded, SilenceIsYoung,
     SleepIsShort, MirrorIsYoung
<1>2. CASE ready
  <2>1. /\ ready' /\ UNCHANGED <<request, slot>>
        /\ idle' = OneMore(idle) /\ silence' = OneMore(silence)
        /\ wokeFor' = OneMore(wokeFor)
        /\ timer' = IF timer > 0 THEN timer - 1 ELSE 0
    BY <1>2 DEF Tick, RequestsAge
  <2>2. /\ idle \in 0 .. Forever /\ silence \in 0 .. Forever
        /\ wokeFor \in 0 .. Forever /\ timer \in 0 .. Interval
        /\ Forever = LongestSilence + 1
    BY DEF TypeOK, Forever
  <2>3. RequestTypeOK
    BY DEF TypeOK
  <2>4. ~IsSettled(Loop) /\ ~(IsIdle(Loop) /\ timer = 0)
    BY <1>2 DEF Tick, IsUrgent, Wakes
  <2>5. ASSUME slot[Link] # NoFiber
        PROVE  /\ age'[Link] = age[Link] + 1
               /\ age[Link] < ResponseTimeout
    <3>1. slot[Link] \in Fibers
      BY <2>3, <2>5 DEF RequestTypeOK
    <3>2. IsSent(slot[Link])
      BY <2>3, <3>1, Stages DEF OneInFlight, Tick, IsUrgent
    <3>3. age[Link] \in 0 .. ResponseTimeout /\ age[Link] # ResponseTimeout
      BY <2>3, <2>5, <3>2 DEF RequestTypeOK, Tick, RequestsAge, IsDue
    <3> QED
      BY <2>5, <3>2, <3>3 DEF Tick, RequestsAge
  <2>6. slot[Link] = NoFiber => IsIdle(Loop)
    BY <2>3, <2>4, Stages DEF SentIsInSlot, Tick, IsUrgent, Queues
  <2>7. silence' = silence + 1 /\ silence + 1 <= LongestSilence
    <3>1. CASE slot[Link] = NoFiber
      BY <1>2, <2>1, <2>2, <2>4, <2>6, <3>1 DEF SleepIsShort, OneMore
    <3>2. CASE slot[Link] # NoFiber
      <4>1. age[Link] \in Nat
        BY <2>3 DEF RequestTypeOK
      <4> QED
        BY <1>2, <2>1, <2>2, <2>5, <3>2, <4>1 DEF SilenceIsYoung, OneMore
    <3> QED
      BY <3>1, <3>2
  <2>8. SilenceIsBounded'
    BY <1>2, <2>1, <2>2, <2>7 DEF SilenceIsBounded, OneMore
  <2>9. SilenceIsYoung'
    <3>1. age[Link] \in Nat
      BY <2>3 DEF RequestTypeOK
    <3> QED
      BY <1>2, <2>1, <2>2, <2>5, <2>7, <3>1 DEF SilenceIsYoung
  <2>10. SleepIsShort'
    BY <1>2, <2>1, <2>2, <2>4, <2>7 DEF SleepIsShort, IsIdle
  <2>11. MirrorIsYoung'
    BY <1>2, <2>1, <2>2, <2>4, <2>7 DEF MirrorIsYoung, IsSettled, OneMore
  <2> QED
    BY <2>8, <2>9, <2>10, <2>11 DEF TimesAgree
<1> QED
  BY <1>1, <1>2

LEMMA StepKeepsTimes ==
    ASSUME ClockInv, [Next]_vars
    PROVE  TimesAgree'
<1> USE OneLink DEF ClockInv
<1>0. RequestTypeOK /\ TimesAgree
  BY DEF TypeOK, TimesAgree
<1>1. CASE UNCHANGED vars
  BY <1>0, <1>1, TimesKept
     DEF vars, requestVars, clockVars, IsIdle, IsSettled, MirrorIsYoung
<1>2. ASSUME NEW f \in Fibers, SendsRequest(f)
      PROVE  TimesAgree'
  BY <1>2, SendTimes
<1>3. ASSUME NEW f \in Fibers, SendFails(f)
      PROVE  TimesAgree'
  BY <1>3 DEF SendFails, TimesAgree, SilenceIsBounded, SilenceIsYoung,
     SleepIsShort, MirrorIsYoung
<1>4. ASSUME NEW a \in Apps, AppRequests(a)
      PROVE  TimesAgree'
  BY <1>0, <1>4, TimesKept
     DEF AppRequests, Asks, clockVars, IsIdle, IsSettled, RequestTypeOK,
         MirrorIsYoung
<1>5. ASSUME NEW a \in Apps, AppResumes(a)
      PROVE  TimesAgree'
  <2>1. /\ request'[Loop] = request[Loop]
        /\ UNCHANGED <<ready, idle, silence, wokeFor, timer, age>>
        /\ slot'[Link] = IF slot[Link] = a THEN NoFiber ELSE slot[Link]
    BY <1>0, <1>5
       DEF AppResumes, Resumes, Without, clockVars, RequestTypeOK
  <2> QED
    BY <2>1 DEF TimesAgree, SilenceIsBounded, SilenceIsYoung,
       SleepIsShort, MirrorIsYoung, IsIdle, IsSettled
<1>6. CASE RequestGivesUp
  <2>1. /\ UNCHANGED <<ready, idle, silence, wokeFor, timer, slot, age>>
        /\ slot[Link] \in Fibers
        /\ request' = [request EXCEPT
                         ![slot[Link]] = SettledAs(slot[Link], "timeout")]
        /\ ~IsIdle(slot[Link])
    BY <1>0, <1>6, Stages
       DEF RequestGivesUp, TimesOut, clockVars, RequestTypeOK
  <2>2. IsIdle(Loop)' => IsIdle(Loop)
    BY <1>0, <2>1 DEF IsIdle, RequestTypeOK, SettledAs, Idle
  <2>3. ready /\ IsSettled(Loop)' => slot[Link] = Loop
    BY <1>0, <2>1 DEF IsSettled, RequestTypeOK, MirrorIsYoung
  <2> QED
    BY <1>0, <2>1, <2>2, <2>3, TimesKept
<1>7. CASE LoopSkips
  <2>1. /\ UNCHANGED <<ready, idle, silence, wokeFor, request, slot, age>>
        /\ timer' = Interval
        /\ idle < Interval /\ silence \in Nat /\ idle \in Nat
    BY <1>7, SilenceHasRoom
       DEF LoopSkips, requestVars, LinkIsIdle, TypeOK, Forever
  <2>2. SleepIsShort'
    BY <2>1, SilenceHasRoom DEF SleepIsShort, SilenceIsBounded
  <2> QED
    BY <2>1, <2>2 DEF TimesAgree, SilenceIsBounded, SilenceIsYoung,
       MirrorIsYoung, IsSettled
<1>8. CASE LoopAsks
  <2>1. /\ UNCHANGED <<ready, idle, silence, timer, slot, age>>
        /\ request'[Loop].at = "gate" /\ request'[Loop] # Idle
        /\ IsIdle(Loop)
    BY <1>0, <1>8
       DEF LoopAsks, Asks, Wakes, RequestTypeOK, Idle
  <2>2. slot[Link] # Loop
    BY <2>1 DEF OneInFlight
  <2>3. ~IsIdle(Loop)' /\ ~IsSettled(Loop)'
    BY <2>1 DEF IsIdle, IsSettled
  <2> QED
    BY <2>1, <2>2, <2>3 DEF TimesAgree, SilenceIsBounded, SilenceIsYoung,
       SleepIsShort, MirrorIsYoung
<1>9. CASE LoopReturns
  BY <1>9, ReturnTimes
<1>10. CASE LoopFails
  BY <1>10 DEF LoopFails, TimesAgree, SilenceIsBounded, SilenceIsYoung,
     SleepIsShort, MirrorIsYoung
<1>11. CASE ControllerAnswers
  <2>1. PICK v \in {"accepted", "refused"} :
          SettlesReply(Link, request[slot[Link]].command, v)
    BY <1>11 DEF ControllerAnswers
  <2>2. /\ UNCHANGED <<ready, idle, silence, wokeFor, timer, slot, age>>
        /\ slot[Link] \in Fibers
        /\ request' = [request EXCEPT
                         ![slot[Link]] = SettledAs(slot[Link], v)]
        /\ ~IsIdle(slot[Link])
    BY <1>0, <1>11, <2>1, Stages
       DEF ControllerAnswers, SettlesReply, clockVars, RequestTypeOK
  <2>3. IsIdle(Loop)' => IsIdle(Loop)
    BY <1>0, <2>2 DEF IsIdle, RequestTypeOK, SettledAs, Idle
  <2>4. ready /\ IsSettled(Loop)' => slot[Link] = Loop
    BY <1>0, <2>2 DEF IsSettled, RequestTypeOK, MirrorIsYoung
  <2> QED
    BY <1>0, <2>2, <2>3, <2>4, TimesKept
<1>12. CASE GoesMute \/ ReaderBlocks \/ ConsumerMakesRoom
  BY <1>0, <1>12, TimesKept
     DEF GoesMute, ReaderBlocks, ConsumerMakesRoom, requestVars, clockVars,
         IsIdle, IsSettled, MirrorIsYoung
<1>13. CASE Tick
  BY <1>13, TickTimes
<1> QED
  BY <1>1, <1>2, <1>3, <1>4, <1>5, <1>6, <1>7, <1>8, <1>9, <1>10, <1>11,
     <1>12, <1>13 DEF Next

LEMMA NextKeepsClockInv ==
    ASSUME ClockInv, [Next]_vars
    PROVE  ClockInv'
<1>1. SlotInv
  BY DEF ClockInv, SlotInv, TypeOK
<1>2. SlotInv'
  BY <1>1, StepIsRequestStep, NextKeepsSlotInv
<1>3. TypeOK' /\ TimesAgree'
  BY <1>2, TypesKept, StepKeepsTimes
<1> QED
  BY <1>2, <1>3 DEF ClockInv, SlotInv, TimesAgree

-----------------------------------------------------------------------------
\* The types of the clock: its times stay in their ranges, its requests in
\* their stages (Session.ts:142).
THEOREM ClockTypes == Spec => []TypeOK
<1>1. Spec => []ClockInv
  BY InitClockInv, NextKeepsClockInv, PTL DEF Spec
<1>2. ClockInv => TypeOK
  BY DEF ClockInv
<1> QED
  BY <1>1, <1>2, PTL

\* Whatever the settings are, whatever the application sends in between and
\* however late the gate lets the mirror out, a session that lasts is silent
\* for less than two intervals, or for an interval and a timeout at most when
\* the timeout is no shorter than the interval, and the loop never takes the
\* link for fresher than it is (Session.ts:142).
THEOREM SilenceIsAlwaysBounded == Spec => []SilenceIsBounded
<1>1. Spec => []ClockInv
  BY InitClockInv, NextKeepsClockInv, PTL DEF Spec
<1>2. ClockInv => SilenceIsBounded
  BY DEF ClockInv
<1> QED
  BY <1>1, <1>2, PTL

\* The session with its clock uses the slot as RequestReply says: the theorems
\* about that module hold of it (Session.ts:142, RequestReply.ts:122).
THEOREM KeepAliveUsesTheSlot == Spec => RequestSpec
<1>1. Init => RequestInit
  BY DEF Init
<1>2. ClockInv /\ [Next]_vars => [RequestNext]_requestVars
  BY StepIsRequestStep DEF ClockInv, SlotInv, TypeOK
<1>3. Spec => []ClockInv
  BY InitClockInv, NextKeepsClockInv, PTL DEF Spec
<1> QED
  BY <1>1, <1>2, <1>3, PTL DEF Spec, RequestSpec
=============================================================================
