---------------------------- MODULE ResultProofs ----------------------------
(***************************************************************************)
(* Theorems about what becomes of results: the delivery queue, for every   *)
(* buffer, capacity, number of attempts and set of results; then gap       *)
(* recovery, for every controller and limit, first with answers that       *)
(* belong to their requests and at last over the wire.                     *)
(*                                                                         *)
(* What the queue and gap recovery do to the window they share is what     *)
(* module Dedup allows: the queue implements it, with the results that     *)
(* were handled or written off for those that were remembered.  So the     *)
(* window is as exact here as Dedup's, and what the handler accepted       *)
(* stays seen.  That it is never given to the handler again follows from   *)
(* the order in which the loop asks the window and hands a result out.     *)
(*                                                                         *)
(* Recovery uses the queue as module ResultDelivery says it may be used,   *)
(* so what is proved of the queue holds with recovery at work.  For that   *)
(* every identifier a pass asks for, writes off or takes as a baseline     *)
(* must be one of a result: the invariant Planned keeps account of them.   *)
(***************************************************************************)
EXTENDS ResultFlow, TLAPS, FiniteSetTheorems

-----------------------------------------------------------------------------
(* The delivery queue.                                                     *)

Machine == INSTANCE DedupProofs WITH remembered <- handled \cup writtenOff

\* The types an invariant of the queue needs.
DeliveryTyped ==
    /\ window \in Window
    /\ queue \in Seq(Entry)
    /\ worker \in Work \cup {NoWork}
    /\ handled \subseteq ResultIds
    /\ writtenOff \subseteq ResultIds
    /\ acked \subseteq ResultIds

\* No identifier waits in the window that nobody gave it.
AheadWasGiven == window.ahead \subseteq handled \cup writtenOff

-----------------------------------------------------------------------------
LEMMA ResultIdsAreIds == ResultIds \subseteq TighteningId /\ MaxId \notin ResultIds
BY ResultIdsBelowMaxId, MaxIdAssumption DEF TighteningId

LEMMA HeadIsEntry ==
    ASSUME queue \in Seq(Entry), queue # <<>>
    PROVE  /\ Head(queue) \in Entry
           /\ Tail(queue) \in Seq(Entry)
           /\ Head(queue).id \in ResultIds
           /\ Head(queue).from \in Sources
<1>1. Head(queue) \in Entry /\ Tail(queue) \in Seq(Entry)
  OBVIOUS
<1>2. QED
  BY <1>1 DEF Entry

(* advance does not throw: it would have to walk through MaxId.            *)
LEMMA NothingThrows ==
    ASSUME window \in Window, AheadWasGiven, handled \cup writtenOff \subseteq ResultIds,
           NEW from \in ResultIds \cup {0}, NEW ahead \in SUBSET window.ahead
    PROVE  ~AdvanceThrows(from, ahead)
<1>1. from \in TighteningId /\ from < MaxId /\ MaxId \in TighteningId
  BY ResultIdsBelowMaxId, MaxIdAssumption DEF TighteningId
<1>2. ahead \in SUBSET TighteningId /\ MaxId \notin ahead
  BY ResultIdsAreIds DEF AheadWasGiven, Window
<1>3. ResultIds \subseteq TighteningId
  BY ResultIdsAreIds
<1>4. /\ Machine!AdvancedMark(from, ahead) \in Machine!TighteningId
      /\ Machine!IsAdvancedMark(Machine!AdvancedMark(from, ahead), from, ahead)
  BY <1>1, <1>2, <1>3, MaxIdAssumption, CapacityAssumption, Machine!AdvancedMarkExists
     DEF Machine!TighteningId, TighteningId
<1>5. QED
  BY <1>1, <1>2, <1>4
     DEF AdvanceThrows, AdvancedMark, IsAdvancedMark, TighteningId,
         Machine!AdvancedMark, Machine!IsAdvancedMark, Machine!TighteningId

-----------------------------------------------------------------------------
(* The window of module Dedup is this one.                                 *)
LEMMA SameTypes ==
    /\ Machine!TighteningId = TighteningId
    /\ Machine!NoId = NoId
    /\ Machine!Window = Window
BY DEF Window, Machine!Window, TighteningId, Machine!TighteningId, NoId, Machine!NoId

LEMMA SameMarks ==
    ASSUME NEW from, NEW ahead
    PROVE  /\ Machine!AdvancedMark(from, ahead) = AdvancedMark(from, ahead)
           /\ Machine!Unwalked(from, ahead) = Unwalked(from, ahead)
           /\ Machine!AdvanceThrows(from, ahead) = AdvanceThrows(from, ahead)
BY DEF Machine!AdvancedMark, AdvancedMark, Machine!IsAdvancedMark, IsAdvancedMark,
       Machine!AdvanceThrows, AdvanceThrows, Machine!Unwalked, Unwalked,
       Machine!TighteningId, TighteningId

LEMMA SameUpdates ==
    ASSUME NEW w, NEW id
    PROVE  /\ Machine!Remember(w, id) = Remember(w, id)
           /\ Machine!MarkBaseline(w, id) = MarkBaseline(w, id)
           /\ Machine!MarkNoHistory(w) = MarkNoHistory(w)
           /\ Machine!Claim(w, id) = Claim(w, id)
           /\ Machine!Release(w, id) = Release(w, id)
<1>1. Machine!Record(w, id) = Record(w, id)
  BY DEF Machine!Record, Record
<1>2. Machine!ClosesGap(w, id) = ClosesGap(w, id)
  BY DEF Machine!ClosesGap, ClosesGap, Machine!NoId, NoId
<1>3. Machine!Remember(w, id) = Remember(w, id)
  BY <1>1, <1>2, SameMarks DEF Machine!Remember, Remember
<1>4. Machine!Above(id, w.ahead) = Above(id, w.ahead)
  BY DEF Machine!Above, Above
<1>5. Machine!MarkBaseline(w, id) = MarkBaseline(w, id)
  BY <1>4, SameMarks DEF Machine!MarkBaseline, MarkBaseline, Machine!NoId, NoId
<1>6. QED
  BY <1>3, <1>5 DEF Machine!MarkNoHistory, MarkNoHistory,
     Machine!Claim, Claim, Machine!Release, Release

LEMMA UpdatesOfWindows ==
    ASSUME NEW w \in Window, NEW id \in ResultIds \cup {0}
    PROVE  /\ Remember(w, id) \in Window
           /\ MarkBaseline(w, id) \in Window
           /\ MarkNoHistory(w) \in Window
           /\ Claim(w, id) \in Window
           /\ Release(w, id) \in Window
<1>1. /\ w \in Machine!Window /\ id \in Machine!TighteningId
      /\ ResultIds \subseteq Machine!TighteningId
  BY ResultIdsAreIds, SameTypes, MaxIdAssumption DEF TighteningId
<1>2. /\ Machine!Remember(w, id) \in Machine!Window
      /\ Machine!MarkBaseline(w, id) \in Machine!Window
      /\ Machine!MarkNoHistory(w) \in Machine!Window
      /\ Machine!Claim(w, id) \in Machine!Window
      /\ Machine!Release(w, id) \in Machine!Window
  BY <1>1, MaxIdAssumption, CapacityAssumption, Machine!UpdatesAreWindows
<1>3. QED
  BY <1>2, SameTypes, SameUpdates

(* What an update adds to ahead is what it was given.                      *)
LEMMA AheadGrows ==
    ASSUME NEW w \in Window, NEW id \in ResultIds \cup {0}
    PROVE  /\ Remember(w, id).ahead \subseteq w.ahead \cup {id}
           /\ MarkBaseline(w, id).ahead \subseteq w.ahead
<1>1. Remember(w, id).ahead \subseteq w.ahead \cup {id}
  <2> DEFINE kept == [Record(w, id) EXCEPT !.claimed = @ \ {id}]
  <2>1. kept.ahead = w.ahead
    BY DEF Record, Window
  <2>2. CASE ClosesGap(w, id)
    BY <2>1, <2>2 DEF Remember, Record, Unwalked, Window
  <2>3. CASE ~ClosesGap(w, id)
    BY <2>1, <2>3 DEF Remember, Record, Window
  <2>4. QED
    BY <2>2, <2>3
<1>2. MarkBaseline(w, id).ahead \subseteq w.ahead
  BY DEF MarkBaseline, Unwalked, Above, Window
<1>3. QED
  BY <1>1, <1>2

LEMMA OffersLeaveASequence ==
    ASSUME queue \in Seq(Entry), OffersInterrupted
    PROVE  queue' \in Seq(Entry)
<1> DEFINE n == IF Len(queue) <= ResultBuffer THEN Len(queue) ELSE ResultBuffer
<1>1. n \in Nat /\ DOMAIN queue \cap (1 .. ResultBuffer) = 1 .. n /\ 1 .. n \subseteq 1 .. Len(queue)
  BY ResultBufferAssumption
<1>2. queue' = [i \in 1 .. n |-> queue[i]]
  BY <1>1 DEF OffersInterrupted
<1>3. \A i \in 1 .. n : queue[i] \in Entry
  BY <1>1
<1> HIDE DEF n
<1>4. QED
  BY <1>1, <1>2, <1>3

-----------------------------------------------------------------------------
(* The queue implements the window's machine.                              *)

LEMMA TypedAndGiven == DeliverySpec => [](DeliveryTyped /\ AheadWasGiven)
<1>1. DeliveryInit => DeliveryTyped /\ AheadWasGiven
  BY DEF DeliveryInit, DeliveryTyped, AheadWasGiven, EmptyWindow, Window, TighteningId, NoId
<1>2. DeliveryTyped /\ AheadWasGiven /\ [DeliveryNext]_deliveryVars
        => (DeliveryTyped /\ AheadWasGiven)'
  <2> SUFFICES ASSUME DeliveryTyped, AheadWasGiven, [DeliveryNext]_deliveryVars
               PROVE  (DeliveryTyped /\ AheadWasGiven)'
    OBVIOUS
  <2>0. window \in Window /\ ResultIds \subseteq TighteningId
    BY ResultIdsAreIds DEF DeliveryTyped
  <2>1. ASSUME NEW id \in ResultIds, NEW from \in Sources, Submit(id, from)
        PROVE  (DeliveryTyped /\ AheadWasGiven)'
    <3>1. [id |-> id, from |-> from] \in Entry
      BY DEF Entry
    <3>2. queue' \in Seq(Entry)
      BY <2>1, <3>1 DEF Submit, DeliveryTyped
    <3>3. window' \in Window /\ window'.ahead = window.ahead
      BY <2>0, <2>1 DEF Submit, Claim, Window
    <3>4. QED
      BY <2>1, <3>2, <3>3 DEF Submit, DeliveryTyped, AheadWasGiven
  <2>2. CASE TakeDuplicate
    <3>1. Head(queue).id \in ResultIds /\ Tail(queue) \in Seq(Entry)
      BY <2>2, HeadIsEntry DEF TakeDuplicate, DeliveryTyped
    <3>2. window' \in Window /\ window'.ahead = window.ahead
      BY <2>0, <2>2 DEF TakeDuplicate, Release, Window
    <3>3. acked' \subseteq ResultIds
      BY <2>2, <3>1 DEF TakeDuplicate, Acknowledge, DeliveryTyped
    <3>4. QED
      BY <2>2, <3>1, <3>2, <3>3 DEF TakeDuplicate, DeliveryTyped, AheadWasGiven
  <2>3. CASE TakeNew
    <3>1. /\ Head(queue).id \in ResultIds /\ Head(queue).from \in Sources
          /\ Tail(queue) \in Seq(Entry)
      BY <2>3, HeadIsEntry DEF TakeNew, DeliveryTyped
    <3>2. worker' \in Work
      BY <2>3, <3>1, HandlerAttemptsAssumption DEF TakeNew, Work
    <3>3. QED
      BY <2>3, <3>1, <3>2 DEF TakeNew, DeliveryTyped, AheadWasGiven
  <2>4. CASE HandlerSucceeds
    <3>1. worker.id \in ResultIds
      BY <2>4 DEF HandlerSucceeds, DeliveryTyped, Work
    <3>2. window' \in Window /\ window'.ahead \subseteq window.ahead \cup {worker.id}
      BY <2>0, <2>4, <3>1, UpdatesOfWindows, AheadGrows DEF HandlerSucceeds
    <3>3. acked' \subseteq ResultIds
      BY <2>4, <3>1 DEF HandlerSucceeds, Acknowledge, DeliveryTyped
    <3>4. QED
      BY <2>4, <3>1, <3>2, <3>3 DEF HandlerSucceeds, DeliveryTyped, AheadWasGiven
  <2>5. CASE HandlerRetries
    <3>1. worker \in Work
      BY <2>5 DEF HandlerRetries, DeliveryTyped
    <3>2. [worker EXCEPT !.left = @ - 1] \in Work
      BY <2>5, <3>1, HandlerAttemptsAssumption DEF HandlerRetries, Work
    <3>3. QED
      BY <2>5, <3>2 DEF HandlerRetries, DeliveryTyped, AheadWasGiven
  <2>6. CASE HandlerGivesUp
    <3>1. window' \in Window /\ window'.ahead = window.ahead
      BY <2>0, <2>6 DEF HandlerGivesUp, Release, Window
    <3>2. QED
      BY <2>6, <3>1 DEF HandlerGivesUp, DeliveryTyped, AheadWasGiven
  <2>7. CASE SessionEnds
    <3>1. queue' \in Seq(Entry)
      BY <2>7, OffersLeaveASequence DEF SessionEnds, DeliveryTyped
    <3>2. QED
      BY <2>7, <3>1 DEF SessionEnds, DeliveryTyped, AheadWasGiven
  <2>8. ASSUME NEW id \in ResultIds, WriteOff(id)
        PROVE  (DeliveryTyped /\ AheadWasGiven)'
    <3>1. window' \in Window /\ window'.ahead \subseteq window.ahead \cup {id}
      BY <2>0, <2>8, UpdatesOfWindows, AheadGrows DEF WriteOff
    <3>2. QED
      BY <2>8, <3>1 DEF WriteOff, DeliveryTyped, AheadWasGiven
  <2>9. ASSUME NEW id \in ResultIds \cup {0}, SetBaseline(id)
        PROVE  (DeliveryTyped /\ AheadWasGiven)'
    <3>1. window' \in Window /\ window'.ahead \subseteq window.ahead
      BY <2>0, <2>9, UpdatesOfWindows, AheadGrows DEF SetBaseline
    <3>2. QED
      BY <2>9, <3>1 DEF SetBaseline, DeliveryTyped, AheadWasGiven
  <2>10. CASE NoteEmptyHistory
    <3>1. window' \in Window /\ window'.ahead = window.ahead
      BY <2>0, <2>10 DEF NoteEmptyHistory, MarkNoHistory, Window
    <3>2. QED
      BY <2>10, <3>1 DEF NoteEmptyHistory, DeliveryTyped, AheadWasGiven
  <2>11. CASE UNCHANGED deliveryVars
    BY <2>11 DEF deliveryVars, DeliveryTyped, AheadWasGiven
  <2>12. QED
    BY <2>1, <2>2, <2>3, <2>4, <2>5, <2>6, <2>7, <2>8, <2>9, <2>10, <2>11
       DEF DeliveryNext, DeliveryLoop
<1>3. QED
  BY <1>1, <1>2, PTL DEF DeliverySpec
(* Every step of the queue is an update of the window, or none.            *)
LEMMA StepsOfMachine ==
    ASSUME DeliveryTyped, AheadWasGiven, [DeliveryNext]_deliveryVars
    PROVE  [Machine!Next]_<<window, handled \cup writtenOff>>
<1> DEFINE given == handled \cup writtenOff
<1>0. /\ window \in Window /\ window.ahead \subseteq given /\ given \subseteq ResultIds
      /\ ResultIds \subseteq TighteningId /\ 0 \in TighteningId
  BY ResultIdsAreIds, MaxIdAssumption DEF DeliveryTyped, AheadWasGiven, TighteningId
<1>1. ASSUME NEW id \in ResultIds, window' = Remember(window, id),
             given' = given \cup {id}
      PROVE  Machine!Next
  <2>1. ~AdvanceThrows(id, window.ahead \ {id})
    BY <1>0, NothingThrows DEF DeliveryTyped
  <2>2. ~Machine!RememberThrows(window, id)
    BY <2>1, SameMarks DEF Machine!RememberThrows
  <2>3. Machine!RememberResult(id)
    BY <1>1, <2>2, SameUpdates DEF Machine!RememberResult
  <2>4. QED
    BY <2>3 DEF Machine!Next
<1>2. ASSUME NEW id \in ResultIds \cup {0}, SetBaseline(id)
      PROVE  Machine!Next
  <2>1. ~AdvanceThrows(id, Above(id, window.ahead))
    BY <1>0, NothingThrows DEF Above, DeliveryTyped
  <2>2. Machine!Above(id, window.ahead) = Above(id, window.ahead)
    BY DEF Machine!Above, Above
  <2>3. ~Machine!MarkBaselineThrows(window, id)
    BY <2>1, <2>2, SameMarks DEF Machine!MarkBaselineThrows
  <2>4. Machine!SetBaseline(id)
    BY <1>2, <2>3, SameUpdates DEF SetBaseline, Machine!SetBaseline
  <2>5. QED
    BY <2>4 DEF Machine!Next
<1>3. ASSUME NEW id \in ResultIds, UNCHANGED given,
             window' = Claim(window, id) \/ window' = Release(window, id)
      PROVE  Machine!Next
  <2>1. Machine!ClaimResult(id) \/ Machine!ReleaseResult(id)
    BY <1>3, SameUpdates DEF Machine!ClaimResult, Machine!ReleaseResult
  <2>2. QED
    BY <2>1 DEF Machine!Next
<1>4. ASSUME NEW id \in ResultIds, NEW from \in Sources, Submit(id, from)
      PROVE  Machine!Next
  BY <1>3, <1>4 DEF Submit
<1>5. CASE TakeDuplicate
  <2>1. Head(queue).id \in ResultIds
    BY <1>5, HeadIsEntry DEF TakeDuplicate, DeliveryTyped
  <2>2. QED
    BY <1>3, <1>5, <2>1 DEF TakeDuplicate
<1>6. CASE HandlerSucceeds
  <2>1. worker.id \in ResultIds
    BY <1>6 DEF HandlerSucceeds, DeliveryTyped, Work
  <2>2. given' = given \cup {worker.id}
    BY <1>6 DEF HandlerSucceeds
  <2>3. QED
    BY <1>1, <1>6, <2>1, <2>2 DEF HandlerSucceeds
<1>7. CASE HandlerGivesUp
  <2>1. worker.id \in ResultIds
    BY <1>7 DEF HandlerGivesUp, DeliveryTyped, Work
  <2>2. QED
    BY <1>3, <1>7, <2>1 DEF HandlerGivesUp
<1>8. ASSUME NEW id \in ResultIds, WriteOff(id)
      PROVE  Machine!Next
  <2>1. given' = given \cup {id}
    BY <1>8 DEF WriteOff
  <2>2. QED
    BY <1>1, <1>8, <2>1 DEF WriteOff
<1>9. CASE NoteEmptyHistory
  <2>1. Machine!NoteEmptyHistory
    BY <1>9, SameUpdates DEF NoteEmptyHistory, Machine!NoteEmptyHistory
  <2>2. QED
    BY <2>1 DEF Machine!Next
<1>10. CASE TakeNew \/ HandlerRetries \/ SessionEnds \/ UNCHANGED deliveryVars
  BY <1>10 DEF TakeNew, HandlerRetries, SessionEnds, deliveryVars
<1>11. QED
  BY <1>2, <1>4, <1>5, <1>6, <1>7, <1>8, <1>9, <1>10 DEF DeliveryNext, DeliveryLoop

(* The queue, its handler and gap recovery do nothing to the window they   *)
(* share that the interface of Dedup.ts does not foresee: the duplicate    *)
(* window implements module Dedup with what was handled or written off for *)
(* what was remembered.                                                    *)
THEOREM DeliveryImplementsDedup == DeliverySpec => Machine!Spec
<1>1. DeliveryInit => Machine!Init
  BY DEF DeliveryInit, Machine!Init, EmptyWindow, Machine!EmptyWindow, NoId, Machine!NoId
<1>2. DeliveryTyped /\ AheadWasGiven /\ [DeliveryNext]_deliveryVars
        => [Machine!Next]_<<window, handled \cup writtenOff>>
  BY StepsOfMachine
<1>3. QED
  BY <1>1, <1>2, TypedAndGiven, PTL DEF DeliverySpec, Machine!Spec, Machine!vars

-----------------------------------------------------------------------------
(* What the queue promises.                                                *)

LEMMA ExactHere ==
    DeliverySpec => [](Machine!ExactAboveBaseline /\ Machine!NothingFalselySeen)
<1>1. /\ MaxId \notin ResultIds
      /\ ResultIds \subseteq Machine!TighteningId
  BY ResultIdsAreIds, SameTypes
<1>2. /\ Machine!Spec => []Machine!ExactAboveBaseline
      /\ Machine!Spec => []Machine!NothingFalselySeen
  BY <1>1, MaxIdAssumption, CapacityAssumption,
     Machine!SeenIsExact, Machine!NothingIsFalselySeen
<1>3. QED
  BY <1>2, DeliveryImplementsDedup, PTL

(* What the handler accepted stays seen, whatever the window evicted       *)
(* since: recovery never asks for it again and a resend is a duplicate     *)
(* (Dedup.ts seen, ResultDelivery.ts deliver).                             *)
THEOREM AcceptedAlwaysStaysSeen == DeliverySpec => []AcceptedStaysSeen
<1>1. DeliveryTyped /\ Machine!ExactAboveBaseline => AcceptedStaysSeen
  BY DEF DeliveryTyped, Machine!ExactAboveBaseline, AcceptedStaysSeen,
         Seen, Machine!Seen, NoId, Machine!NoId
<1>2. QED
  BY <1>1, TypedAndGiven, ExactHere, PTL

(* Only what the handler accepted, or what was given up as gone, is        *)
(* acknowledged (ResultDelivery.ts redeliver): the controller may forget   *)
(* what is acknowledged.                                                   *)
THEOREM AckedWasAlwaysAccepted == DeliverySpec => []AckedWasAccepted
<1>1. DeliveryInit => AckedWasAccepted
  BY DEF DeliveryInit, AckedWasAccepted
<1>2. /\ DeliveryTyped /\ Machine!NothingFalselySeen /\ AckedWasAccepted
      /\ [DeliveryNext]_deliveryVars
      => AckedWasAccepted'
  <2> SUFFICES ASSUME DeliveryTyped, Machine!NothingFalselySeen, AckedWasAccepted,
                      [DeliveryNext]_deliveryVars
               PROVE  AckedWasAccepted'
    OBVIOUS
  <2>1. CASE TakeDuplicate
    <3>1. Head(queue).id \in ResultIds
      BY <2>1, HeadIsEntry DEF TakeDuplicate, DeliveryTyped
    <3>2. Head(queue).id \in handled \cup writtenOff
      BY <2>1, <3>1 DEF TakeDuplicate, Machine!NothingFalselySeen,
                        Seen, Machine!Seen, NoId, Machine!NoId
    <3>3. QED
      BY <2>1, <3>2 DEF TakeDuplicate, Acknowledge, AckedWasAccepted
  <2>2. CASE HandlerSucceeds
    BY <2>2 DEF HandlerSucceeds, Acknowledge, AckedWasAccepted
  <2>3. ASSUME UNCHANGED acked, handled \subseteq handled', writtenOff \subseteq writtenOff'
        PROVE  AckedWasAccepted'
    BY <2>3 DEF AckedWasAccepted
  <2>4. CASE TakeNew \/ HandlerRetries \/ HandlerGivesUp \/ SessionEnds \/ NoteEmptyHistory
    BY <2>3, <2>4 DEF TakeNew, HandlerRetries, HandlerGivesUp, SessionEnds, NoteEmptyHistory
  <2>5. ASSUME NEW id, NEW from, Submit(id, from) \/ WriteOff(id) \/ SetBaseline(id)
        PROVE  AckedWasAccepted'
    BY <2>3, <2>5 DEF Submit, WriteOff, SetBaseline
  <2>6. CASE UNCHANGED deliveryVars
    BY <2>3, <2>6 DEF deliveryVars
  <2>7. QED
    BY <2>1, <2>2, <2>4, <2>5, <2>6 DEF DeliveryNext, DeliveryLoop
<1>3. QED
  BY <1>1, <1>2, TypedAndGiven, ExactHere, PTL DEF DeliverySpec

(* Above the baseline the handler never works on a result it already       *)
(* accepted, although the loop asks the window before the handler runs and *)
(* tells it only after: nothing else hands results out in between          *)
(* (ResultDelivery.ts deliver, handle).                                    *)
THEOREM AlwaysHandledOnce == DeliverySpec => []HandledOnce
<1> DEFINE BaselineIsKept == window.baseline # NoId => window'.baseline = window.baseline
<1>1. DeliveryInit => HandledOnce
  BY DEF DeliveryInit, HandledOnce
<1>2. /\ DeliveryTyped /\ AcceptedStaysSeen /\ HandledOnce
      /\ BaselineIsKept /\ [DeliveryNext]_deliveryVars
      => HandledOnce'
  <2> SUFFICES ASSUME DeliveryTyped, AcceptedStaysSeen, HandledOnce,
                      BaselineIsKept, [DeliveryNext]_deliveryVars
               PROVE  HandledOnce'
    OBVIOUS
  <2>0. ASSUME NEW id \in ResultIds, id > window'.baseline
        PROVE  id > window.baseline
    <3>1. id \in Nat /\ window.baseline \in TighteningId \cup {NoId}
      BY ResultIdsAreIds DEF DeliveryTyped, Window, TighteningId
    <3>2. QED
      BY <2>0, <3>1 DEF NoId
  <2>1. CASE TakeNew
    <3>1. /\ Head(queue).id \in ResultIds
          /\ worker'.id = Head(queue).id
          /\ window' = window /\ handled' = handled
      BY <2>1, HeadIsEntry DEF TakeNew, DeliveryTyped
    <3>2. Head(queue).id > window.baseline => Head(queue).id \notin handled
      BY <2>1 DEF TakeNew, AcceptedStaysSeen
    <3>3. QED
      BY <3>1, <3>2 DEF HandledOnce
  <2>2. CASE HandlerSucceeds \/ HandlerGivesUp
    BY <2>2 DEF HandlerSucceeds, HandlerGivesUp, HandledOnce
  <2>3. ASSUME worker' = worker \/ worker'.id = worker.id, worker # NoWork \/ worker' = NoWork,
               UNCHANGED handled
        PROVE  HandledOnce'
    <3>1. CASE worker' = NoWork
      BY <3>1 DEF HandledOnce
    <3>2. CASE worker' # NoWork
      <4>1. worker # NoWork /\ worker.id \in ResultIds /\ worker'.id = worker.id
        BY <2>3, <3>2 DEF DeliveryTyped, Work
      <4>2. QED
        BY <2>0, <2>3, <4>1 DEF HandledOnce
    <3>3. QED
      BY <3>1, <3>2
  <2>4. CASE HandlerRetries
    <3>1. worker'.id = worker.id
      BY <2>4 DEF HandlerRetries, DeliveryTyped, Work
    <3>2. QED
      BY <2>3, <2>4, <3>1 DEF HandlerRetries
  <2>5. CASE TakeDuplicate \/ SessionEnds \/ NoteEmptyHistory
    BY <2>3, <2>5 DEF TakeDuplicate, SessionEnds, NoteEmptyHistory
  <2>6. ASSUME NEW id, NEW from, Submit(id, from) \/ WriteOff(id) \/ SetBaseline(id)
        PROVE  HandledOnce'
    BY <2>3, <2>6 DEF Submit, WriteOff, SetBaseline
  <2>7. CASE UNCHANGED deliveryVars
    BY <2>3, <2>7 DEF deliveryVars
  <2>8. QED
    BY <2>1, <2>2, <2>4, <2>5, <2>6, <2>7 DEF DeliveryNext, DeliveryLoop
<1>3. DeliverySpec => [][BaselineIsKept]_<<window, handled \cup writtenOff>>
  <2>1. /\ MaxId \notin ResultIds
        /\ ResultIds \subseteq Machine!TighteningId
    BY ResultIdsAreIds, SameTypes
  <2>2. Machine!Spec => Machine!ProgressIsKept
    BY <2>1, MaxIdAssumption, CapacityAssumption, Machine!ProgressIsAlwaysKept
  <2> DEFINE Kept ==
        /\ window.watermark # Machine!NoId => window'.watermark >= window.watermark
        /\ window.baseline # Machine!NoId => window'.baseline = window.baseline
  <2>3. [Kept]_<<window, handled \cup writtenOff>>
          => [BaselineIsKept]_<<window, handled \cup writtenOff>>
    BY SameTypes
  <2>4. QED
    BY <2>2, <2>3, DeliveryImplementsDedup, PTL DEF Machine!ProgressIsKept, Machine!vars
<1>4. [BaselineIsKept]_<<window, handled \cup writtenOff>> => BaselineIsKept
  OBVIOUS
<1>5. QED
  BY <1>1, <1>2, <1>3, <1>4, TypedAndGiven, AcceptedAlwaysStaysSeen, PTL DEF DeliverySpec

-----------------------------------------------------------------------------
(* The length of the queue.  Each fiber has at most one offer that waits.   *)

WaitersDiffer ==
    \A i, j \in DOMAIN queue :
        i > ResultBuffer /\ j > ResultBuffer /\ queue[i].from = queue[j].from => i = j

LEMMA ShorterQueueDiffers ==
    ASSUME DeliveryTyped, WaitersDiffer, queue # <<>>, queue' = Tail(queue)
    PROVE  WaitersDiffer'
<1>1. queue \in Seq(Entry) /\ ResultBuffer \in Nat
  BY ResultBufferAssumption DEF DeliveryTyped
<1>2. DOMAIN queue' = 1 .. Len(queue) - 1
  BY <1>1
<1>3. \A i \in DOMAIN queue' : i + 1 \in DOMAIN queue /\ queue'[i] = queue[i + 1]
  BY <1>1
<1> SUFFICES ASSUME NEW i \in DOMAIN queue', NEW j \in DOMAIN queue',
                    i > ResultBuffer, j > ResultBuffer, queue'[i].from = queue'[j].from
             PROVE  i = j
  BY DEF WaitersDiffer
<1>4. i + 1 = j + 1
  BY <1>1, <1>2, <1>3 DEF WaitersDiffer
<1>5. QED
  BY <1>2, <1>4

LEMMA OfferedQueueDiffers ==
    ASSUME DeliveryTyped, WaitersDiffer,
           NEW id \in ResultIds, NEW from \in Sources, Submit(id, from)
    PROVE  WaitersDiffer'
<1> DEFINE offer == [id |-> id, from |-> from]
<1>1. queue \in Seq(Entry) /\ ResultBuffer \in Nat /\ queue' = Append(queue, offer)
  BY ResultBufferAssumption DEF DeliveryTyped, Submit
<1>2. DOMAIN queue = 1 .. Len(queue) /\ DOMAIN queue' = 1 .. Len(queue) + 1
  BY <1>1
<1>3. /\ \A i \in DOMAIN queue : queue'[i] = queue[i]
      /\ queue'[Len(queue) + 1].from = from
  BY <1>1
<1>4. \A i \in DOMAIN queue : i > ResultBuffer => queue[i].from # from
  BY DEF Submit, Blocked
<1> SUFFICES ASSUME NEW i \in DOMAIN queue', NEW j \in DOMAIN queue',
                    i > ResultBuffer, j > ResultBuffer, queue'[i].from = queue'[j].from
             PROVE  i = j
  BY DEF WaitersDiffer
<1>5. CASE i \in DOMAIN queue /\ j \in DOMAIN queue
  BY <1>3, <1>5 DEF WaitersDiffer
<1>6. CASE i \notin DOMAIN queue \/ j \notin DOMAIN queue
  BY <1>1, <1>2, <1>3, <1>4, <1>6
<1>7. QED
  BY <1>5, <1>6

LEMMA WaitersStayDifferent ==
    ASSUME DeliveryTyped, WaitersDiffer, [DeliveryNext]_deliveryVars
    PROVE  WaitersDiffer'
<1>1. ASSUME NEW id \in ResultIds, NEW from \in Sources, Submit(id, from)
      PROVE  WaitersDiffer'
  BY <1>1, OfferedQueueDiffers
<1>2. CASE TakeDuplicate \/ TakeNew
  BY <1>2, ShorterQueueDiffers DEF TakeDuplicate, TakeNew
<1>3. CASE SessionEnds
  <2>1. DOMAIN queue' \subseteq 1 .. ResultBuffer /\ ResultBuffer \in Nat
    BY <1>3, ResultBufferAssumption DEF SessionEnds, OffersInterrupted
  <2>2. QED
    BY <2>1 DEF WaitersDiffer
<1>4. CASE UNCHANGED queue
  BY <1>4 DEF WaitersDiffer
<1>5. QED
  BY <1>1, <1>2, <1>3, <1>4
     DEF DeliveryNext, DeliveryLoop, HandlerSucceeds, HandlerRetries, HandlerGivesUp,
         WriteOff, SetBaseline, NoteEmptyHistory, deliveryVars

LEMMA ThreeSources == Cardinality(Sources) = 3
<1>1. IsFiniteSet({"pushed"}) /\ Cardinality({"pushed"}) = 1
  BY FS_Singleton
<1>2. /\ IsFiniteSet({"pushed"} \cup {"recovery"})
      /\ Cardinality({"pushed"} \cup {"recovery"}) = 2
  BY <1>1, FS_AddElement
<1>3. Cardinality(({"pushed"} \cup {"recovery"}) \cup {"reader"}) = 3
  <2> DEFINE two == {"pushed"} \cup {"recovery"}
  <2>1. IsFiniteSet(two) /\ Cardinality(two) = 2 /\ "reader" \notin two
    BY <1>2
  <2> HIDE DEF two
  <2>2. Cardinality(two \cup {"reader"}) = 3
    BY <2>1, FS_AddElement
  <2>3. QED
    BY <2>2 DEF two
<1>4. Sources = ({"pushed"} \cup {"recovery"}) \cup {"reader"}
  BY DEF Sources
<1>5. QED
  BY <1>3, <1>4

LEMMA QueueIsBounded ==
    ASSUME DeliveryTyped, WaitersDiffer
    PROVE  Len(queue) <= ResultBuffer + Cardinality(Sources)
<1>1. queue \in Seq(Entry) /\ ResultBuffer \in Nat /\ Cardinality(Sources) = 3
  BY ThreeSources, ResultBufferAssumption DEF DeliveryTyped
<1>2. SUFFICES ASSUME Len(queue) > ResultBuffer + 3
               PROVE  FALSE
  BY <1>1
<1>3. \A k \in 1 .. 4 : ResultBuffer + k \in DOMAIN queue
  BY <1>1, <1>2
<1>4. \A k, l \in 1 .. 4 :
         queue[ResultBuffer + k].from = queue[ResultBuffer + l].from => k = l
  BY <1>1, <1>3 DEF WaitersDiffer
<1>5. \A k \in 1 .. 4 : queue[ResultBuffer + k].from \in {"pushed", "recovery", "reader"}
  <2>1. \A i \in DOMAIN queue : queue[i] \in Entry
    BY <1>1
  <2>2. QED
    BY <1>3, <2>1 DEF Entry, Sources
<1>6. 1 \in 1 .. 4 /\ 2 \in 1 .. 4 /\ 3 \in 1 .. 4 /\ 4 \in 1 .. 4
  OBVIOUS
<1>7. QED
  BY <1>4, <1>5, <1>6

(* The queue is of its types, and no longer than its buffer and one offer  *)
(* of each of the three fibers that submit results: backpressure holds up  *)
(* whoever is too fast (ResultDelivery.ts, Queue.bounded).                 *)
THEOREM DeliveryTypes == DeliverySpec => []DeliveryTypeOK
<1>1. DeliveryInit => WaitersDiffer
  BY DEF DeliveryInit, WaitersDiffer
<1>2. DeliveryTyped /\ WaitersDiffer /\ [DeliveryNext]_deliveryVars => WaitersDiffer'
  BY WaitersStayDifferent
<1>3. DeliveryTyped /\ WaitersDiffer => DeliveryTypeOK
  BY QueueIsBounded DEF DeliveryTyped, DeliveryTypeOK
<1>4. QED
  BY <1>1, <1>2, <1>3, TypedAndGiven, PTL DEF DeliverySpec

-----------------------------------------------------------------------------
(* Gap recovery.                                                           *)

\* What the controller produced, and what a pass plans to ask for.
Planned ==
    /\ produced \in 0 .. MaxProduced
    /\ evicted \in Nat /\ evicted <= produced
    /\ outbox \in Seq(ResultIds)
    /\ pass \in PassTypes
    /\ \A i \in pass.todo : i <= produced
    /\ writtenOff \subseteq 1 .. evicted

-----------------------------------------------------------------------------
LEMMA StoreIsResults ==
    ASSUME produced \in 0 .. MaxProduced, evicted \in Nat
    PROVE  /\ Store \subseteq ResultIds
           /\ Store # {} => produced \in Store
BY ProducedAreResults DEF Store

LEMMA AskedIsPlanned ==
    ASSUME pass \in PassTypes, pass.todo # {}
    PROVE  Asked \in pass.todo /\ Asked \in ResultIds
<1>1. pass.todo \in SUBSET Nat /\ pass.todo \subseteq ResultIds
  <2>1. pass.todo \subseteq ResultIds
    BY DEF PassTypes
  <2>2. ResultIds \subseteq Nat
    BY ResultIdsBelowMaxId, MaxIdAssumption
  <2>3. QED
    BY <2>1, <2>2
<1>2. \E x \in pass.todo : \A y \in pass.todo : x <= y
  <2> DEFINE S == pass.todo
  <2>1. S \in SUBSET Nat /\ S # {}
    BY <1>1
  <2> HIDE DEF S
  <2>2. ResultIds \subseteq Machine!TighteningId
    BY ResultIdsAreIds, SameTypes
  <2>3. \E x \in S : \A y \in S : x <= y
    BY <2>1, <2>2, MaxIdAssumption, CapacityAssumption, Machine!LeastElement
  <2>4. QED
    BY <2>3 DEF S
<1>3. Lowest(pass.todo) \in pass.todo
  <2> DEFINE S == pass.todo
  <2>1. PICK x \in S : \A y \in S : x <= y
    BY <1>2
  <2> HIDE DEF S
  <2>2. (CHOOSE i \in S : \A j \in S : i <= j) \in S
    BY <2>1
  <2>3. QED
    BY <2>2 DEF Lowest, S
<1>4. QED
  BY <1>1, <1>3 DEF Asked

(* The kinds of pass an action may leave behind.                           *)
LEMMA PassesAreTyped ==
    /\ NoPass \in PassTypes /\ FirstPass \in PassTypes
    /\ \A at \in {"latest", "sleeping"}, n \in 0 .. RecoveryAttempts :
          PassAgain(at, n) \in PassTypes
    /\ NoPass.todo = {} /\ FirstPass.todo = {}
    /\ \A at \in {"latest", "sleeping"}, n \in 0 .. RecoveryAttempts :
          PassAgain(at, n).todo = {}
<1>1. NoPass \in PassTypes /\ NoPass.todo = {}
  BY RecoveryAssumption DEF NoPass, PassTypes, NoId
<1>2. ASSUME NEW at \in {"latest", "sleeping"}, NEW n \in 0 .. RecoveryAttempts
      PROVE  [NoPass EXCEPT !.at = at, !.attempts = n] \in PassTypes
  BY <1>1, <1>2 DEF PassTypes
<1>3. ASSUME NEW at, NEW n
      PROVE  [NoPass EXCEPT !.at = at, !.attempts = n].todo = {}
  BY DEF NoPass
<1>4. RecoveryAttempts \in 0 .. RecoveryAttempts
  BY RecoveryAssumption
<1>5. QED
  BY <1>1, <1>2, <1>3, <1>4 DEF FirstPass, PassAgain

LEMMA RecoverGapIsTyped ==
    ASSUME Planned, RecoverGap
    PROVE  pass' \in PassTypes /\ \A i \in pass'.todo : i <= produced
BY PassesAreTyped DEF Planned, RecoverGap

LEMMA PlansAreTyped ==
    ASSUME Planned, NEW newest \in 0 .. produced, NEW pending \in BOOLEAN
    PROVE  /\ FetchRange(newest) \in PassTypes
           /\ \A i \in FetchRange(newest).todo : i <= produced
           /\ FindFloor(newest) \in PassTypes
           /\ \A i \in FindFloor(newest).todo : i <= produced
           /\ NothingToAsk(pending) \in PassTypes
           /\ \A i \in NothingToAsk(pending).todo : i <= produced
<1>1. \A from, n : /\ LowestOf(Unknown(from, newest), n) \subseteq {i \in ResultIds : i <= newest}
                   /\ HighestOf(Unknown(from, newest), n) \subseteq {i \in ResultIds : i <= newest}
  BY DEF LowestOf, HighestOf, Unknown
<1>2. \A i \in ResultIds : i \in Nat /\ (i <= newest => i <= produced)
  BY ResultIdsBelowMaxId, MaxIdAssumption, ProducedAreResults DEF Planned
<1>3. pass \in PassTypes
  BY DEF Planned
<1>4. FetchRange(newest) \in PassTypes /\ \A i \in FetchRange(newest).todo : i <= produced
  <2> DEFINE wanted == LowestOf(Unknown(window.watermark + 1, newest), RecoveryLimit)
             more == Unknown(window.watermark + 1, newest) # wanted
  <2>1. wanted \in SUBSET ResultIds /\ more \in BOOLEAN /\ \A i \in wanted : i <= produced
    BY <1>1, <1>2
  <2>2. FetchRange(newest) = [pass EXCEPT !.at = "asking", !.plan = "range",
                                          !.todo = wanted, !.more = more]
    BY DEF FetchRange
  <2> HIDE DEF wanted, more
  <2>3. QED
    BY <1>3, <2>1, <2>2, ZenonT(40) DEF PassTypes
<1>5. FindFloor(newest) \in PassTypes /\ \A i \in FindFloor(newest).todo : i <= produced
  <2> DEFINE block == HighestOf(Unknown(1, newest), RecoveryLimit)
             more == Cardinality(block) = RecoveryLimit
  <2>1. block \in SUBSET ResultIds /\ more \in BOOLEAN /\ \A i \in block : i <= produced
    BY <1>1, <1>2
  <2>2. FindFloor(newest) = [pass EXCEPT !.at = "asking", !.plan = "floor",
                                         !.todo = block, !.more = more]
    BY DEF FindFloor
  <2> HIDE DEF block, more
  <2>3. QED
    BY <1>3, <2>1, <2>2, ZenonT(40) DEF PassTypes
<1>6. NothingToAsk(pending) \in PassTypes /\ \A i \in NothingToAsk(pending).todo : i <= produced
  BY <1>3 DEF NothingToAsk, PassTypes, Planned
<1>7. QED
  BY <1>4, <1>5, <1>6
-----------------------------------------------------------------------------
(* Every step keeps the account, and is a step of the queue or none.       *)

Tidy == Planned' /\ [DeliveryNext]_deliveryVars

(* The controller and the clock leave the queue and its account alone.     *)
LEMMA QuietSteps ==
    ASSUME Planned, UNCHANGED <<produced, evicted, outbox>>,
           UNCHANGED deliveryVars,
           pass' \in PassTypes /\ \A i \in pass'.todo : i <= produced
    PROVE  Tidy
BY DEF Tidy, Planned, deliveryVars

LEMMA UpdateSteps ==
    ASSUME Planned, UNCHANGED <<produced, evicted, outbox, writtenOff>>, DeliveryNext,
           pass' \in PassTypes /\ \A i \in pass'.todo : i <= produced
    PROVE  Tidy
BY DEF Tidy, Planned

LEMMA LatestSteps ==
    ASSUME Planned, UNCHANGED <<produced, evicted, outbox>>,
           \/ LatestSilent \/ LatestRefused
           \/ \E id \in ResultIds : id <= produced /\ LatestIs(id)
    PROVE  Tidy
<1>0. produced \in 0 .. produced
  BY ProducedAreResults DEF Planned
<1>1. CASE LatestSilent
  BY <1>0, <1>1, PlansAreTyped, QuietSteps DEF LatestSilent
<1>2. CASE LatestRefused
  <2>1. NoteEmptyHistory \/ UNCHANGED deliveryVars
    BY <1>2 DEF LatestRefused
  <2>2. pass' \in PassTypes /\ \A i \in pass'.todo : i <= produced
    BY <1>0, <1>2, PlansAreTyped DEF LatestRefused
  <2>3. NoteEmptyHistory => DeliveryNext /\ UNCHANGED writtenOff
    BY DEF NoteEmptyHistory, DeliveryNext
  <2>4. QED
    BY <2>1, <2>2, <2>3, QuietSteps, UpdateSteps
<1>3. ASSUME NEW id \in ResultIds, id <= produced, LatestIs(id)
      PROVE  Tidy
  <2>1. id \in 0 .. produced
    BY <1>3, ResultIdsBelowMaxId, MaxIdAssumption, ProducedAreResults DEF Planned
  <2>2. SetBaseline(id) \/ UNCHANGED deliveryVars
    BY <1>3 DEF LatestIs
  <2>3. pass' \in PassTypes /\ \A i \in pass'.todo : i <= produced
    BY <2>1, <1>3, PlansAreTyped DEF LatestIs
  <2>4. SetBaseline(id) => DeliveryNext /\ UNCHANGED writtenOff
    BY DEF SetBaseline, DeliveryNext
  <2>5. QED
    BY <2>2, <2>3, <2>4, QuietSteps, UpdateSteps
<1>4. QED
  BY <1>1, <1>2, <1>3

(* An attempt leaves a pass a pass, with one identifier less to ask for.    *)
LEMMA AskedFor ==
    ASSUME NEW old \in PassTypes, NEW left \in SUBSET ResultIds, NEW count \in 0 .. SilenceLimit
    PROVE  LET new == [old EXCEPT !.todo = left, !.silent = count]
           IN  new \in PassTypes /\ new.todo = left
BY DEF PassTypes

LEMMA MarkedGained ==
    ASSUME NEW old \in PassTypes, NEW gained \in BOOLEAN
    PROVE  LET new == [old EXCEPT !.progress = gained]
           IN  new \in PassTypes /\ new.todo = old.todo
BY DEF PassTypes

LEMMA MarkedAgain ==
    ASSUME NEW old \in PassTypes, NEW again \in BOOLEAN
    PROVE  LET new == [old EXCEPT !.pending = again]
           IN  new \in PassTypes /\ new.todo = old.todo
BY DEF PassTypes

LEMMA MarkedFloor ==
    ASSUME NEW old \in PassTypes, NEW id \in ResultIds
    PROVE  LET new == [old EXCEPT !.floor = id]
           IN  new \in PassTypes /\ new.todo = old.todo
BY DEF PassTypes

LEMMA GetsIsTyped ==
    ASSUME pass \in PassTypes, NEW left \in SUBSET ResultIds,
           NEW gained \in BOOLEAN, NEW again \in BOOLEAN,
           pass' = [pass EXCEPT !.todo = left, !.silent = 0,
                                !.progress = gained, !.pending = again]
    PROVE  pass' \in PassTypes /\ pass'.todo = left
<1> DEFINE asked == [pass EXCEPT !.todo = left, !.silent = 0]
           marked == [asked EXCEPT !.progress = gained]
<1>1. 0 \in 0 .. SilenceLimit
  BY RecoveryAssumption
<1>2. asked \in PassTypes /\ asked.todo = left
  BY <1>1, AskedFor
<1>3. pass' = [marked EXCEPT !.pending = again]
  OBVIOUS
<1> HIDE DEF asked
<1>4. marked \in PassTypes /\ marked.todo = left
  BY <1>2, MarkedGained
<1> HIDE DEF marked
<1>5. QED
  BY <1>3, <1>4, MarkedAgain

LEMMA NotFoundIsTyped ==
    ASSUME pass \in PassTypes, NEW left \in SUBSET ResultIds, NEW id \in ResultIds,
           pass' = [pass EXCEPT !.todo = left, !.silent = 0, !.progress = TRUE, !.floor = id]
    PROVE  pass' \in PassTypes /\ pass'.todo = left
<1> DEFINE asked == [pass EXCEPT !.todo = left, !.silent = 0]
           marked == [asked EXCEPT !.progress = TRUE]
<1>1. 0 \in 0 .. SilenceLimit
  BY RecoveryAssumption
<1>2. asked \in PassTypes /\ asked.todo = left
  BY <1>1, AskedFor
<1>3. pass' = [marked EXCEPT !.floor = id]
  OBVIOUS
<1> HIDE DEF asked
<1>4. marked \in PassTypes /\ marked.todo = left
  BY <1>2, MarkedGained
<1> HIDE DEF marked
<1>5. QED
  BY <1>3, <1>4, MarkedFloor, ZenonT(40)

LEMMA UnansweredIsTyped ==
    ASSUME pass \in PassTypes, NEW left \in SUBSET ResultIds,
           NEW count \in 0 .. SilenceLimit,
           pass' = [pass EXCEPT !.todo = left, !.silent = count, !.pending = TRUE]
    PROVE  pass' \in PassTypes /\ pass'.todo = left
BY DEF PassTypes

LEMMA AttemptSteps ==
    ASSUME Planned, UNCHANGED <<produced, evicted, outbox>>, Asking,
           \/ \E id \in ResultIds : AttemptGets(id)
           \/ Asked <= evicted /\ AttemptNotFound
           \/ AttemptRefused \/ AttemptSilent
    PROVE  Tidy
<1>0. /\ pass \in PassTypes /\ pass.todo # {} /\ pass.silent < SilenceLimit
      /\ \A i \in pass.todo : i <= produced
  BY DEF Planned, Asking
<1>1. Asked \in pass.todo /\ Asked \in ResultIds
  BY <1>0, AskedIsPlanned
<1>2. pass.todo \ {Asked} \in SUBSET ResultIds
  BY <1>0 DEF PassTypes
<1> HIDE DEF Asked
<1> DEFINE left == pass.todo \ {Asked}
<1>3. pass' \in PassTypes /\ \A i \in pass'.todo : i <= produced
  <2>0. left \in SUBSET ResultIds /\ \A i \in left : i <= produced
    BY <1>0, <1>2
  <2>1. ASSUME NEW id \in ResultIds, AttemptGets(id)
        PROVE  pass' \in PassTypes /\ \A i \in pass'.todo : i <= produced
    <3> DEFINE gained == pass.progress \/ id = Asked
               again == pass.pending \/ id # Asked
    <3>1. gained \in BOOLEAN /\ again \in BOOLEAN
      BY <1>0 DEF PassTypes
    <3>2. pass' = [pass EXCEPT !.todo = left, !.silent = 0,
                               !.progress = gained, !.pending = again]
      BY <2>1 DEF AttemptGets
    <3> HIDE DEF left, gained, again
    <3>3. pass' \in PassTypes /\ pass'.todo = left
      BY <1>0, <2>0, <3>1, <3>2, GetsIsTyped
    <3>4. QED
      BY <2>0, <3>3
  <2>2. CASE AttemptNotFound
    <3>1. pass' = [pass EXCEPT !.todo = left, !.silent = 0,
                               !.progress = TRUE, !.floor = Asked]
      BY <2>2 DEF AttemptNotFound
    <3> HIDE DEF left
    <3>2. pass' \in PassTypes /\ pass'.todo = left
      BY <1>0, <1>1, <2>0, <3>1, NotFoundIsTyped
    <3>3. QED
      BY <2>0, <3>2
  <2>3. CASE AttemptRefused
    <3>1. pass' = [pass EXCEPT !.todo = left, !.silent = 0, !.pending = TRUE]
      BY <2>3 DEF AttemptRefused
    <3>2. 0 \in 0 .. SilenceLimit
      BY RecoveryAssumption
    <3> HIDE DEF left
    <3>3. pass' \in PassTypes /\ pass'.todo = left
      BY <1>0, <2>0, <3>1, <3>2, UnansweredIsTyped
    <3>4. QED
      BY <2>0, <3>3
  <2>4. CASE AttemptSilent
    <3> DEFINE count == pass.silent + 1
    <3>1. pass' = [pass EXCEPT !.todo = left, !.silent = count, !.pending = TRUE]
      BY <2>4 DEF AttemptSilent
    <3>2. count \in 0 .. SilenceLimit
      BY <1>0, RecoveryAssumption DEF PassTypes
    <3> HIDE DEF left, count
    <3>3. pass' \in PassTypes /\ pass'.todo = left
      BY <1>0, <2>0, <3>1, <3>2, UnansweredIsTyped
    <3>4. QED
      BY <2>0, <3>3
  <2>5. QED
    BY <2>1, <2>2, <2>3, <2>4
<1>4. ASSUME NEW id \in ResultIds, AttemptGets(id)
      PROVE  Tidy
  <2>1. Submit(id, "recovery")
    BY <1>4 DEF AttemptGets
  <2>2. DeliveryNext /\ UNCHANGED writtenOff
    BY <2>1 DEF Submit, DeliveryNext, Sources
  <2>3. QED
    BY <1>3, <2>2, UpdateSteps
<1>5. CASE Asked <= evicted /\ AttemptNotFound
  <2>1. WriteOff(Asked)
    BY <1>5 DEF AttemptNotFound
  <2>2. Asked \in 1 .. evicted
    BY <1>1, <1>5, ResultIdsBelowMaxId, MaxIdAssumption DEF Planned
  <2>3. DeliveryNext /\ writtenOff' \subseteq 1 .. evicted
    BY <1>1, <2>1, <2>2 DEF WriteOff, DeliveryNext, Planned
  <2>4. QED
    BY <1>3, <2>3 DEF Tidy, Planned
<1>6. CASE AttemptRefused \/ AttemptSilent
  BY <1>3, <1>6, QuietSteps DEF AttemptRefused, AttemptSilent
<1>7. QED
  BY <1>4, <1>5, <1>6

LEMMA FinishSteps ==
    ASSUME Planned, FinishPass
    PROVE  Tidy
<1> DEFINE skipped == pass.more /\ ~(pass.plan = "floor" /\ pass.floor # NoId)
<1>0. pass \in PassTypes
  BY DEF Planned
<1>1. UNCHANGED <<produced, evicted, outbox>>
  BY DEF FinishPass
<1>2. \/ pass.floor # NoId /\ SetBaseline(pass.floor)
      \/ SetBaseline(0) \/ UNCHANGED deliveryVars
  BY DEF FinishPass
<1>3. \/ pass' = PassAgain("latest", pass.attempts)
      \/ pass.attempts > 1 /\ pass' = PassAgain("sleeping", pass.attempts - 1)
      \/ pass' = NoPass
  BY DEF FinishPass
<1>4. pass' \in PassTypes /\ pass'.todo = {}
  <2>1. /\ pass.attempts \in 0 .. RecoveryAttempts
        /\ pass.attempts > 1 => pass.attempts - 1 \in 0 .. RecoveryAttempts
    BY <1>0, RecoveryAssumption DEF PassTypes
  <2>2. QED
    BY <1>3, <2>1, PassesAreTyped
<1>5. pass.floor # NoId => pass.floor \in ResultIds
  BY <1>0 DEF PassTypes
<1>6. ASSUME NEW id \in ResultIds \cup {0}, SetBaseline(id)
      PROVE  DeliveryNext /\ UNCHANGED writtenOff
  BY <1>6 DEF SetBaseline, DeliveryNext
<1>7. QED
  BY <1>1, <1>2, <1>4, <1>5, <1>6, QuietSteps, UpdateSteps

LEMMA SessionSteps ==
    ASSUME Planned,
           \/ SessionStarts \/ Subscribes \/ Reconciles \/ KeepsUp \/ Polls
           \/ PassWakes \/ SessionLost
    PROVE  Tidy
<1>1. CASE SessionStarts \/ Reconciles \/ KeepsUp \/ Polls
  BY <1>1, RecoverGapIsTyped, QuietSteps DEF SessionStarts, Reconciles, KeepsUp, Polls
<1>2. CASE Subscribes
  BY <1>2, QuietSteps DEF Subscribes, Planned
<1>3. CASE PassWakes
  <2>1. pass' \in PassTypes /\ pass'.todo = pass.todo
    BY <1>3 DEF PassWakes, Planned, PassTypes
  <2>2. QED
    BY <1>3, <2>1, QuietSteps DEF PassWakes, Planned
<1>4. CASE SessionLost
  <2>1. DeliveryNext /\ UNCHANGED writtenOff
    BY <1>4 DEF SessionLost, SessionEnds, DeliveryNext
  <2>2. pass' \in PassTypes /\ pass'.todo = {} /\ outbox' \in Seq(ResultIds)
    BY <1>4, PassesAreTyped DEF SessionLost
  <2>3. QED
    BY <1>4, <2>1, <2>2 DEF SessionLost, Tidy, Planned
<1>5. QED
  BY <1>1, <1>2, <1>3, <1>4

LEMMA PushSteps ==
    ASSUME Planned, PushArrives
    PROVE  Tidy
<1>1. Head(outbox) \in ResultIds /\ Tail(outbox) \in Seq(ResultIds)
  BY DEF PushArrives, Planned
<1>2. Submit(Head(outbox), "pushed") /\ (RecoverGap \/ UNCHANGED pass)
  BY DEF PushArrives, SubmitPushed
<1>3. DeliveryNext /\ UNCHANGED writtenOff
  BY <1>1, <1>2 DEF Submit, DeliveryNext, Sources
<1>4. pass' \in PassTypes /\ \A i \in pass'.todo : i <= produced
  BY <1>2, RecoverGapIsTyped DEF Planned
<1>5. QED
  BY <1>1, <1>3, <1>4 DEF PushArrives, Tidy, Planned

LEMMA ControllerSteps ==
    ASSUME Planned, Produces \/ Evicts
    PROVE  Tidy
<1>1. CASE Produces
  <2>1. produced' \in 0 .. MaxProduced /\ produced' = produced + 1 /\ produced' \in ResultIds
    BY <1>1, ProducedAreResults DEF Produces, Planned
  <2>2. outbox' \in Seq(ResultIds)
    BY <1>1, <2>1 DEF Produces, Planned
  <2>3. \A i \in pass.todo : i <= produced'
    <3>1. \A i \in pass.todo : i \in Nat
      BY ResultIdsBelowMaxId, MaxIdAssumption DEF Planned, PassTypes
    <3>2. QED
      BY <2>1, <3>1 DEF Planned
  <2>4. QED
    BY <1>1, <2>1, <2>2, <2>3, ProducedAreResults DEF Produces, Tidy, Planned, deliveryVars
<1>2. CASE Evicts
  BY <1>2 DEF Evicts, Tidy, Planned, deliveryVars
<1>3. QED
  BY <1>1, <1>2

(* What a pass finds in the store was produced, what it misses is evicted.  *)
LEMMA StoredIsProduced ==
    ASSUME Planned
    PROVE  /\ Store \subseteq ResultIds
           /\ Store # {} => produced \in ResultIds /\ produced <= produced
<1>1. produced \in Nat
  BY ProducedAreResults DEF Planned
<1>2. QED
  BY <1>1, StoreIsResults DEF Planned

LEMMA MissingIsEvicted ==
    ASSUME Planned, pass.todo # {}, Asked \notin Store
    PROVE  Asked <= evicted
<1>1. Asked \in pass.todo /\ Asked \in ResultIds
  BY AskedIsPlanned DEF Planned
<1> HIDE DEF Asked
<1>2. QED
  BY <1>1, ResultIdsBelowMaxId, MaxIdAssumption, ProducedAreResults DEF Store, Planned

LEMMA DeliversSteps ==
    ASSUME Planned, UNCHANGED <<produced, evicted, outbox, pass>>, DeliveryLoop
    PROVE  Tidy
<1>1. DeliveryNext /\ UNCHANGED writtenOff
  BY DEF DeliveryNext, DeliveryLoop, TakeDuplicate, TakeNew, HandlerSucceeds,
         HandlerRetries, HandlerGivesUp
<1>2. QED
  BY <1>1, UpdateSteps DEF Planned

LEMMA StepsAreTidy ==
    ASSUME Planned, [Next]_vars
    PROVE  Tidy
<1>1. CASE Answers
  <2>1. UNCHANGED <<produced, evicted, outbox>>
    BY <1>1 DEF Answers, StoreKept
  <2>2. CASE Store # {} /\ LatestIs(produced)
    BY <2>1, <2>2, StoredIsProduced, LatestSteps
  <2>3. CASE Store = {} /\ LatestRefused
    BY <2>1, <2>3, LatestSteps
  <2>4. CASE Asking /\ Asked \in Store /\ AttemptGets(Asked)
    BY <2>1, <2>4, StoredIsProduced, AttemptSteps
  <2>5. CASE Asking /\ Asked \notin Store /\ AttemptNotFound
    BY <2>1, <2>5, MissingIsEvicted, AttemptSteps DEF Asking
  <2>6. QED
    BY <1>1, <2>2, <2>3, <2>4, <2>5 DEF Answers
<1>2. CASE Misbehaves
  <2>1. UNCHANGED <<produced, evicted, outbox>>
    BY <1>2 DEF Misbehaves, StoreKept
  <2>2. LatestSilent \/ AttemptSilent \/ AttemptRefused \/ LatestRefused
    BY <1>2 DEF Misbehaves
  <2>3. (AttemptSilent \/ AttemptRefused) => Asking
    BY DEF AttemptSilent, AttemptRefused
  <2>4. QED
    BY <2>1, <2>2, <2>3, LatestSteps, AttemptSteps
<1>3. CASE HandlerFails
  BY <1>3, DeliversSteps DEF HandlerFails, DeliveryLoop
<1>4. CASE Delivers
  BY <1>4, DeliversSteps DEF Delivers, DeliveryLoop, recoveryVars
<1>5. CASE SessionFails
  BY <1>5, SessionSteps DEF SessionFails
<1>6. CASE UNCHANGED vars
  BY <1>6, QuietSteps DEF vars, recoveryVars, Planned
<1>7. QED
  BY <1>1, <1>2, <1>3, <1>4, <1>5, <1>6,
     FinishSteps, SessionSteps, PushSteps, ControllerSteps DEF Next

LEMMA AlwaysPlanned == Spec => []Planned
<1>1. Init => Planned
  BY PassesAreTyped, BoundsAssumption DEF Init, DeliveryInit, Planned
<1>2. Planned /\ [Next]_vars => Planned'
  BY StepsAreTidy DEF Tidy
<1>3. QED
  BY <1>1, <1>2, PTL DEF Spec

(* Recovery uses the delivery queue as its interface allows: whatever the  *)
(* passes, the session and the controller do, the queue does what module   *)
(* ResultDelivery says (GapRecovery.ts, ResultRecovery.ts against          *)
(* ResultDelivery.ts).                                                     *)
THEOREM RecoveryUsesTheQueue == Spec => DeliverySpec
<1>1. Init => DeliveryInit
  BY DEF Init
<1>2. Planned /\ [Next]_vars => [DeliveryNext]_deliveryVars
  BY StepsAreTidy DEF Tidy
<1>3. QED
  BY <1>1, <1>2, AlwaysPlanned, PTL DEF Spec, DeliverySpec

(* With recovery at work a result above the baseline is handled at most    *)
(* once, whether it was pushed, resent, recovered or all of it.            *)
THEOREM RecoveredOnce == Spec => []HandledOnce
BY RecoveryUsesTheQueue, AlwaysHandledOnce, PTL

(* With recovery at work what the handler accepted stays seen, and is not  *)
(* asked for again.                                                        *)
THEOREM RecoveredStaysSeen == Spec => []AcceptedStaysSeen
BY RecoveryUsesTheQueue, AcceptedAlwaysStaysSeen, PTL

(* Only what the controller dropped is written off, whatever went          *)
(* unanswered or was refused, and however the storage moved meanwhile      *)
(* (ResultRecovery.ts attempt).                                            *)
THEOREM WrittenOffIsAlwaysGone == Spec => []WrittenOffIsGone
<1>1. Planned => WrittenOffIsGone
  BY DEF Planned, WrittenOffIsGone, Store
<1>2. QED
  BY <1>1, AlwaysPlanned, PTL

-----------------------------------------------------------------------------
(* Where the history of a controller that was empty begins.                *)

\* The baseline stands with the watermark, and on a controller that was
\* empty it was declared below what is stored.
HistoryInv ==
    /\ window.baseline = NoId <=> window.watermark = NoId
    /\ pass.floor # NoId => pass.floor <= evicted
    /\ window.emptyHistory /\ window.baseline # NoId => window.baseline <= evicted

\* What an update does to the marks of the window.
MarksKept ==
    /\ window'.baseline = window.baseline
    /\ window'.emptyHistory = window.emptyHistory
    /\ window'.watermark = NoId <=> window.watermark = NoId

MarksSet(id) ==
    /\ window.watermark = NoId
    /\ window'.baseline = id
    /\ window'.emptyHistory = window.emptyHistory
    /\ window'.watermark # NoId

LEMMA MarksOfUpdates ==
    ASSUME NEW w \in Window, NEW id \in ResultIds \cup {0}
    PROVE  /\ Remember(w, id).baseline = w.baseline
           /\ Remember(w, id).emptyHistory = w.emptyHistory
           /\ Remember(w, id).watermark = NoId <=> w.watermark = NoId
           /\ w.watermark = NoId =>
                 /\ MarkBaseline(w, id).baseline = id
                 /\ MarkBaseline(w, id).emptyHistory = w.emptyHistory
                 /\ MarkBaseline(w, id).watermark # NoId
           /\ w.watermark # NoId => MarkBaseline(w, id) = w
<1>1. id \in TighteningId
  BY ResultIdsAreIds, MaxIdAssumption DEF TighteningId
<1>2. ASSUME NEW ahead \in SUBSET TighteningId
      PROVE  AdvancedMark(id, ahead) # NoId
  <2>1. Machine!AdvancedMark(id, ahead) \in Machine!TighteningId
    BY <1>1, SameTypes, ResultIdsAreIds, MaxIdAssumption, CapacityAssumption,
       Machine!AdvancedMarkExists
  <2>2. QED
    BY <2>1, SameTypes, SameMarks, MaxIdAssumption DEF TighteningId, NoId
<1>3. /\ Remember(w, id).baseline = w.baseline
      /\ Remember(w, id).emptyHistory = w.emptyHistory
      /\ Remember(w, id).watermark = NoId <=> w.watermark = NoId
  <2> DEFINE kept == [Record(w, id) EXCEPT !.claimed = @ \ {id}]
  <2>1. /\ kept.baseline = w.baseline /\ kept.emptyHistory = w.emptyHistory
        /\ kept.watermark = w.watermark
        /\ {"baseline", "emptyHistory", "watermark", "ahead"} \subseteq DOMAIN kept
    BY DEF Record, Window
  <2>2. CASE ClosesGap(w, id)
    <3> DEFINE mark == AdvancedMark(id, w.ahead \ {id})
    <3>1. mark # NoId /\ w.watermark # NoId
      BY <1>2, <2>2 DEF ClosesGap, Window
    <3>2. Remember(w, id) = [kept EXCEPT !.watermark = mark, !.ahead = Unwalked(id, @ \ {id})]
      BY <2>2 DEF Remember
    <3> HIDE DEF kept, mark
    <3>3. QED
      BY <2>1, <3>1, <3>2
  <2>3. CASE ~ClosesGap(w, id)
    <3>1. Remember(w, id) = [kept EXCEPT !.ahead = @ \cup {id}]
      BY <2>3 DEF Remember
    <3> HIDE DEF kept
    <3>2. QED
      BY <2>1, <3>1
  <2>4. QED
    BY <2>2, <2>3
<1>4. CASE w.watermark = NoId
  <2>1. AdvancedMark(id, Above(id, w.ahead)) # NoId
    BY <1>2 DEF Above, Window
  <2> DEFINE mark == AdvancedMark(id, Above(id, w.ahead))
             left == Unwalked(id, Above(id, w.ahead))
  <2>2. MarkBaseline(w, id) = [w EXCEPT !.baseline = id, !.watermark = mark, !.ahead = left]
    BY <1>4 DEF MarkBaseline
  <2> HIDE DEF mark, left
  <2>3. mark # NoId
    BY <2>1 DEF mark
  <2>4. QED
    BY <1>3, <1>4, <2>2, <2>3 DEF Window
<1>5. CASE w.watermark # NoId
  BY <1>3, <1>5 DEF MarkBaseline
<1>6. QED
  BY <1>4, <1>5

(* Of all the steps of the queue only those of recovery move the marks.    *)
LEMMA QueueKeepsMarks ==
    ASSUME DeliveryTyped,
           \/ \E id \in ResultIds, from \in Sources : Submit(id, from)
           \/ \E id \in ResultIds : WriteOff(id)
           \/ DeliveryLoop \/ SessionEnds \/ UNCHANGED deliveryVars
    PROVE  MarksKept
<1>0. window \in Window
  BY DEF DeliveryTyped
<1>1. ASSUME NEW id, window' = Claim(window, id) \/ window' = Release(window, id)
      PROVE  MarksKept
  BY <1>0, <1>1 DEF Claim, Release, Window, MarksKept
<1>2. ASSUME NEW id \in ResultIds, window' = Remember(window, id)
      PROVE  MarksKept
  BY <1>0, <1>2, MarksOfUpdates DEF MarksKept
<1>3. CASE HandlerSucceeds
  <2>1. worker.id \in ResultIds
    BY <1>3 DEF HandlerSucceeds, DeliveryTyped, Work
  <2>2. QED
    BY <1>2, <1>3, <2>1 DEF HandlerSucceeds
<1>4. CASE UNCHANGED window
  BY <1>4 DEF MarksKept
<1>5. QED
  BY <1>1, <1>2, <1>3, <1>4
     DEF Submit, WriteOff, DeliveryLoop, TakeDuplicate, TakeNew, HandlerRetries,
         HandlerGivesUp, SessionEnds, deliveryVars

LEMMA BaselineMarks ==
    ASSUME DeliveryTyped, NEW id \in ResultIds \cup {0}, SetBaseline(id)
    PROVE  MarksKept \/ MarksSet(id)
BY MarksOfUpdates DEF SetBaseline, DeliveryTyped, MarksKept, MarksSet

(* A step that keeps the marks keeps the history.                          *)
LEMMA HistoryIsKept ==
    ASSUME DeliveryTyped, Planned, HistoryInv, MarksKept,
           evicted' \in Nat, evicted <= evicted',
           pass'.floor = pass.floor \/ pass'.floor = NoId
    PROVE  HistoryInv'
<1>1. window.baseline \in Int /\ evicted \in Int
  BY DEF DeliveryTyped, Window, TighteningId, NoId, Planned
<1>2. pass.floor \in ResultIds \cup {NoId}
  BY DEF Planned, PassTypes
<1>3. pass.floor \in Int
  <2>1. \A i \in ResultIds : i \in Int
    BY ResultIdsBelowMaxId, MaxIdAssumption
  <2>2. NoId \in Int
    BY DEF NoId
  <2>3. QED
    BY <1>2, <2>1, <2>2
<1>4. window.baseline <= evicted => window.baseline <= evicted'
  BY <1>1
<1>5. pass.floor <= evicted => pass.floor <= evicted'
  BY <1>1, <1>3
<1>6. QED
  BY <1>4, <1>5 DEF HistoryInv, MarksKept

LEMMA LatestKeepsHistory ==
    ASSUME DeliveryTyped, Planned, HistoryInv, UNCHANGED evicted,
           LatestSilent \/ LatestRefused \/ \E id \in ResultIds : LatestIs(id)
    PROVE  HistoryInv'
<1>1. pass'.floor = pass.floor
  <2>1. pass \in PassTypes
    BY DEF Planned
  <2>2. \A newest, pending : /\ NothingToAsk(pending).floor = pass.floor
                             /\ FetchRange(newest).floor = pass.floor
                             /\ FindFloor(newest).floor = pass.floor
    BY <2>1 DEF NothingToAsk, FetchRange, FindFloor, PassTypes
  <2>3. \/ \E pending : pass' = NothingToAsk(pending)
        \/ \E newest : pass' = FetchRange(newest) \/ pass' = FindFloor(newest)
    BY DEF LatestSilent, LatestRefused, LatestIs
  <2>4. QED
    BY <2>2, <2>3
<1>2. evicted' \in Nat /\ evicted <= evicted'
  BY DEF Planned
<1>3. CASE UNCHANGED deliveryVars
  BY <1>1, <1>2, <1>3, QueueKeepsMarks, HistoryIsKept
<1>4. CASE window.watermark = NoId /\ NoteEmptyHistory
  <2>1. window'.baseline = window.baseline /\ window'.watermark = window.watermark
    BY <1>4 DEF NoteEmptyHistory, MarkNoHistory, DeliveryTyped, Window
  <2>2. QED
    BY <1>1, <1>4, <2>1 DEF HistoryInv
<1>5. ASSUME NEW id \in ResultIds, SetBaseline(id), ~window.emptyHistory
      PROVE  HistoryInv'
  <2>1. CASE MarksKept
    BY <1>1, <1>2, <2>1, HistoryIsKept
  <2>2. CASE MarksSet(id)
    <3>1. id # NoId
      BY ResultIdsBelowMaxId, MaxIdAssumption DEF NoId
    <3>2. ~window'.emptyHistory
      BY <1>5, <2>2 DEF MarksSet
    <3>3. QED
      BY <1>1, <2>2, <3>1, <3>2 DEF HistoryInv, MarksSet
  <2>3. QED
    BY <1>5, <2>1, <2>2, BaselineMarks
<1>6. QED
  BY <1>3, <1>4, <1>5 DEF LatestSilent, LatestRefused, LatestIs

LEMMA AttemptKeepsHistory ==
    ASSUME DeliveryTyped, Planned, HistoryInv, UNCHANGED evicted, Asking,
           \/ \E id \in ResultIds : AttemptGets(id)
           \/ Asked <= evicted /\ AttemptNotFound
           \/ AttemptRefused \/ AttemptSilent
    PROVE  HistoryInv'
<1>0. pass \in PassTypes /\ evicted' \in Nat /\ evicted <= evicted'
  BY DEF Planned
<1>1. Asked \in ResultIds
  BY <1>0, AskedIsPlanned DEF Asking
<1> HIDE DEF Asked
<1>2. CASE AttemptNotFound /\ Asked <= evicted
  <2>1. MarksKept
    BY <1>1, <1>2, QueueKeepsMarks DEF AttemptNotFound
  <2>2. pass'.floor = Asked
    BY <1>0, <1>2 DEF AttemptNotFound, PassTypes
  <2>3. pass'.floor <= evicted'
    BY <1>2, <2>2
  <2>4. QED
    BY <2>1, <2>3 DEF HistoryInv, MarksKept
<1>3. CASE \E id \in ResultIds : AttemptGets(id)
  <2>1. MarksKept
    BY <1>3, QueueKeepsMarks DEF AttemptGets, Sources
  <2>2. pass'.floor = pass.floor
    BY <1>0, <1>3 DEF AttemptGets, PassTypes
  <2>3. QED
    BY <1>0, <2>1, <2>2, HistoryIsKept
<1>4. CASE AttemptRefused \/ AttemptSilent
  <2>1. MarksKept
    BY <1>4, QueueKeepsMarks DEF AttemptRefused, AttemptSilent
  <2>2. pass'.floor = pass.floor
    BY <1>0, <1>4 DEF AttemptRefused, AttemptSilent, PassTypes
  <2>3. QED
    BY <1>0, <2>1, <2>2, HistoryIsKept
<1>5. QED
  BY <1>2, <1>3, <1>4

LEMMA PassesWithoutFloor ==
    /\ NoPass.floor = NoId /\ FirstPass.floor = NoId
    /\ \A at, n : PassAgain(at, n).floor = NoId
BY DEF NoPass, FirstPass, PassAgain

LEMMA FinishKeepsHistory ==
    ASSUME DeliveryTyped, Planned, HistoryInv, FinishPass
    PROVE  HistoryInv'
<1>0. /\ pass \in PassTypes /\ evicted \in Nat /\ evicted' = evicted
      /\ pass.floor \in ResultIds \cup {NoId}
  BY DEF Planned, FinishPass, PassTypes
<1>1. pass'.floor = NoId
  BY PassesWithoutFloor DEF FinishPass
<1>2. \/ pass.floor # NoId /\ SetBaseline(pass.floor)
      \/ SetBaseline(0) \/ UNCHANGED deliveryVars
  BY DEF FinishPass
<1>3. CASE MarksKept
  BY <1>0, <1>1, <1>3, HistoryIsKept
<1>4. ASSUME NEW id \in ResultIds \cup {0}, id <= evicted, MarksSet(id)
      PROVE  HistoryInv'
  <2>1. id # NoId
    BY ResultIdsBelowMaxId, MaxIdAssumption DEF NoId
  <2>2. QED
    BY <1>0, <1>1, <1>4, <2>1 DEF HistoryInv, MarksSet
<1>5. CASE pass.floor # NoId /\ SetBaseline(pass.floor)
  <2>1. pass.floor \in ResultIds /\ pass.floor <= evicted
    BY <1>0, <1>5 DEF HistoryInv
  <2>2. QED
    BY <1>3, <1>4, <1>5, <2>1, BaselineMarks
<1>6. CASE SetBaseline(0)
  BY <1>0, <1>3, <1>4, <1>6, BaselineMarks
<1>7. CASE UNCHANGED deliveryVars
  BY <1>3, <1>7, QueueKeepsMarks
<1>8. QED
  BY <1>2, <1>5, <1>6, <1>7

(* The session, the controller and the handler leave the history alone.    *)
LEMMA OthersKeepHistory ==
    ASSUME DeliveryTyped, Planned, HistoryInv,
           \/ SessionStarts \/ Subscribes \/ Reconciles \/ KeepsUp \/ Polls
           \/ PassWakes \/ SessionLost
           \/ Produces \/ Evicts
           \/ (UNCHANGED <<evicted, pass>> /\ DeliveryLoop)
    PROVE  HistoryInv'
<1>1. pass'.floor = pass.floor \/ pass'.floor = NoId
  <2>1. RecoverGap => pass'.floor = pass.floor \/ pass'.floor = NoId
    BY PassesWithoutFloor DEF RecoverGap
  <2>2. PassWakes => pass'.floor = pass.floor
    BY DEF PassWakes, Planned, PassTypes
  <2>3. SessionLost => pass'.floor = NoId
    BY PassesWithoutFloor DEF SessionLost
  <2>4. QED
    BY <2>1, <2>2, <2>3
       DEF SessionStarts, Subscribes, Reconciles, KeepsUp, Polls, Produces, Evicts
<1>2. evicted' \in Nat /\ evicted <= evicted'
  BY DEF Planned, SessionStarts, Subscribes, Reconciles, KeepsUp, Polls, PassWakes,
         SessionLost, Produces, Evicts
<1>3. UNCHANGED deliveryVars \/ SessionEnds \/ DeliveryLoop
  BY DEF SessionStarts, Subscribes, Reconciles, KeepsUp, Polls, PassWakes,
         SessionLost, Produces, Evicts
<1>4. QED
  BY <1>1, <1>2, <1>3, QueueKeepsMarks, HistoryIsKept

LEMMA PushKeepsHistory ==
    ASSUME DeliveryTyped, Planned, HistoryInv, UNCHANGED evicted,
           NEW id \in ResultIds, SubmitPushed(id)
    PROVE  HistoryInv'
<1>1. pass'.floor = pass.floor \/ pass'.floor = NoId
  BY PassesWithoutFloor DEF SubmitPushed, RecoverGap
<1>2. MarksKept
  BY QueueKeepsMarks DEF SubmitPushed, Sources
<1>3. QED
  BY <1>1, <1>2, HistoryIsKept DEF Planned

LEMMA StepsKeepHistory ==
    ASSUME DeliveryTyped, Planned, HistoryInv, [Next]_vars
    PROVE  HistoryInv'
<1>1. CASE Answers
  <2>1. UNCHANGED evicted
    BY <1>1 DEF Answers, StoreKept
  <2>2. CASE LatestRefused \/ (Store # {} /\ LatestIs(produced))
    BY <2>1, <2>2, StoredIsProduced, LatestKeepsHistory
  <2>3. CASE Asking /\ Asked \in Store /\ AttemptGets(Asked)
    BY <2>1, <2>3, StoredIsProduced, AttemptKeepsHistory
  <2>4. CASE Asking /\ Asked \notin Store /\ AttemptNotFound
    BY <2>1, <2>4, MissingIsEvicted, AttemptKeepsHistory DEF Asking
  <2>5. QED
    BY <1>1, <2>2, <2>3, <2>4 DEF Answers
<1>2. CASE Misbehaves
  <2>1. UNCHANGED evicted
    BY <1>2 DEF Misbehaves, StoreKept
  <2>2. LatestSilent \/ AttemptSilent \/ AttemptRefused \/ LatestRefused
    BY <1>2 DEF Misbehaves
  <2>3. (AttemptSilent \/ AttemptRefused) => Asking
    BY DEF AttemptSilent, AttemptRefused
  <2>4. QED
    BY <2>1, <2>2, <2>3, LatestKeepsHistory, AttemptKeepsHistory
<1>3. CASE HandlerFails
  BY <1>3, OthersKeepHistory DEF HandlerFails, DeliveryLoop
<1>4. CASE Delivers
  BY <1>4, OthersKeepHistory DEF Delivers, DeliveryLoop, recoveryVars
<1>5. CASE SessionFails
  BY <1>5, OthersKeepHistory DEF SessionFails
<1>6. CASE PushArrives
  <2>1. Head(outbox) \in ResultIds
    BY <1>6 DEF PushArrives, Planned
  <2>2. QED
    BY <1>6, <2>1, PushKeepsHistory DEF PushArrives
<1>7. CASE UNCHANGED vars
  BY <1>7 DEF vars, deliveryVars, recoveryVars, HistoryInv
<1>8. QED
  BY <1>1, <1>2, <1>3, <1>4, <1>5, <1>6, <1>7,
     FinishKeepsHistory, OthersKeepHistory DEF Next

LEMMA AlwaysTyped == Spec => []DeliveryTyped
BY RecoveryUsesTheQueue, TypedAndGiven, PTL

LEMMA HistoryInvariant == Spec => []HistoryInv
<1>1. Init => HistoryInv
  BY DEF Init, DeliveryInit, EmptyWindow, NoPass, HistoryInv
<1>2. DeliveryTyped /\ Planned /\ HistoryInv /\ [Next]_vars => HistoryInv'
  BY StepsKeepHistory
<1>3. QED
  BY <1>1, <1>2, AlwaysTyped, AlwaysPlanned, PTL DEF Spec

LEMMA EmptyHistoryIsBelow ==
    ASSUME DeliveryTyped, Planned, HistoryInv
    PROVE  EmptyControllerHasNoHistory
<1> SUFFICES ASSUME window.emptyHistory, window.baseline # NoId, NEW id \in Store
             PROVE  id > window.baseline
  BY DEF EmptyControllerHasNoHistory
<1>1. window.baseline <= evicted /\ evicted + 1 <= id /\ id \in Int
  BY DEF HistoryInv, Store, Planned
<1>2. window.baseline \in Int /\ evicted \in Int
  BY DEF DeliveryTyped, Window, TighteningId, NoId, Planned
<1>3. QED
  BY <1>1, <1>2

(* On a controller that was empty when first asked no stored result is     *)
(* history, whatever part of a block was refused or never answered, and    *)
(* however the store moved meanwhile (ResultRecovery.ts, findFloor).       *)
THEOREM EmptyControllerNeverHasHistory == Spec => []EmptyControllerHasNoHistory
BY EmptyHistoryIsBelow, AlwaysTyped, AlwaysPlanned, HistoryInvariant, PTL

-----------------------------------------------------------------------------
(* The types of what recovery keeps beside the queue.                      *)

RecoveryTyped ==
    /\ evicted \in 0 .. MaxEvicted
    /\ session \in {"down", "recovering", "subscribing", "ready"}
    /\ reconciled \in BOOLEAN
    /\ owed \in BOOLEAN
    /\ listened \subseteq ResultIds
    /\ faults \in 0 .. MaxFaults

LEMMA RecoveryStepsAreTyped ==
    ASSUME pass \in PassTypes, produced \in 0 .. MaxProduced, RecoveryTyped,
           \/ StoreKept /\ (UNCHANGED faults \/ \E kind \in Faults : Fault(kind))
           \/ FinishPass \/ PassWakes
           \/ SessionStarts \/ Subscribes \/ Reconciles \/ KeepsUp \/ Polls
           \/ Produces \/ Evicts \/ HandlerFails \/ SessionFails
           \/ UNCHANGED <<evicted, session, reconciled, owed, listened, faults>>
    PROVE  RecoveryTyped'
<1> USE DEF RecoveryTyped
<1>1. ASSUME NEW kind, Fault(kind) PROVE faults' \in 0 .. MaxFaults
  BY <1>1, BoundsAssumption DEF Fault
<1>2. CASE StoreKept /\ (UNCHANGED faults \/ \E kind \in Faults : Fault(kind))
  BY <1>1, <1>2 DEF StoreKept
<1>3. CASE FinishPass
  <2>1. /\ session' \in {session, "subscribing"}
        /\ UNCHANGED <<evicted, reconciled, listened, faults>>
    BY <1>3 DEF FinishPass
  <2>2. owed' \in BOOLEAN
    <3>1. pass.pending \in BOOLEAN /\ pass.more \in BOOLEAN
      BY DEF PassTypes
    <3>2. \A skipped \in BOOLEAN : (pass.pending \/ skipped) \in BOOLEAN
      BY <3>1
    <3>3. (pass.more /\ ~(pass.plan = "floor" /\ pass.floor # NoId)) \in BOOLEAN
      BY <3>1
    <3>4. \/ owed' = owed
          \/ owed' = (pass.pending \/ (pass.more /\ ~(pass.plan = "floor" /\ pass.floor # NoId)))
      BY <1>3 DEF FinishPass
    <3>5. QED
      BY <3>2, <3>3, <3>4
  <2>3. QED
    BY <2>1, <2>2
<1>4. CASE PassWakes \/ SessionStarts \/ Subscribes \/ Reconciles \/ KeepsUp \/ Polls
  BY <1>4 DEF PassWakes, SessionStarts, Subscribes, Reconciles, KeepsUp, Polls
<1>5. CASE Produces
  <2>1. produced' \in ResultIds
    BY <1>5, ProducedAreResults DEF Produces
  <2>2. QED
    BY <1>5, <2>1 DEF Produces
<1>6. CASE Evicts
  BY <1>6, BoundsAssumption DEF Evicts
<1>7. CASE HandlerFails \/ SessionFails
  BY <1>1, <1>7 DEF HandlerFails, SessionFails, SessionLost
<1>8. CASE UNCHANGED <<evicted, session, reconciled, owed, listened, faults>>
  BY <1>8
<1>9. QED
  BY <1>2, <1>3, <1>4, <1>5, <1>6, <1>7, <1>8

LEMMA StartsTyped ==
    ASSUME Init
    PROVE  RecoveryTyped
<1>1. /\ evicted = 0 /\ session = "down" /\ reconciled = FALSE
      /\ owed = FALSE /\ listened = {} /\ faults = 0
  BY DEF Init
<1>2. 0 \in 0 .. MaxEvicted /\ 0 \in 0 .. MaxFaults
  BY BoundsAssumption
<1>3. QED
  BY <1>1, <1>2 DEF RecoveryTyped

(* Recovery is of its types, and so is the queue it uses.                  *)
THEOREM RecoveryTypes == Spec => []TypeOK
<1>1. Init => RecoveryTyped
  BY StartsTyped
<1>2. Planned /\ RecoveryTyped /\ [Next]_vars => RecoveryTyped'
  <2> SUFFICES ASSUME Planned, RecoveryTyped, [Next]_vars PROVE RecoveryTyped'
    OBVIOUS
  <2>1. pass \in PassTypes /\ produced \in 0 .. MaxProduced
    BY DEF Planned
  <2>2. CASE Answers \/ Misbehaves
    <3>1. StoreKept /\ (UNCHANGED faults \/ \E kind \in Faults : Fault(kind))
      BY <2>2 DEF Answers, Misbehaves, Faults
    <3>2. QED
      BY <2>1, <3>1, RecoveryStepsAreTyped
  <2>3. CASE PushArrives \/ Delivers \/ UNCHANGED vars
    <3>1. UNCHANGED <<evicted, session, reconciled, owed, listened, faults>>
      BY <2>3 DEF PushArrives, Delivers, vars, recoveryVars
    <3>2. QED
      BY <2>1, <3>1, RecoveryStepsAreTyped
  <2>4. QED
    BY <2>1, <2>2, <2>3, RecoveryStepsAreTyped DEF Next
<1>3. DeliveryTypeOK /\ Planned /\ RecoveryTyped => TypeOK
  BY DEF TypeOK, Planned, RecoveryTyped
<1>4. Spec => []DeliveryTypeOK
  BY RecoveryUsesTheQueue, DeliveryTypes, PTL
<1>5. QED
  BY <1>1, <1>2, <1>3, <1>4, AlwaysPlanned, PTL DEF Spec

-----------------------------------------------------------------------------
(* Over the wire: replies may be late, and answer another request than the *)
(* one that waits.  What is written off need not be gone then, so the      *)
(* account is a weaker one, and any identifier may arrive.                 *)

FlowPlanned ==
    /\ produced \in 0 .. MaxProduced
    /\ outbox \in Seq(ResultIds)
    /\ arrived \in Seq(ResultIds)
    /\ pass \in PassTypes

\* A request waits only while its pass waits for it.
SlotIsAsked ==
    slot # NoId =>
        \/ slot = LatestId /\ pass.at = "latest"
        \/ /\ pass.at = "asking" /\ pass.todo # {} /\ slot = Asked
           /\ pass.silent < SilenceLimit

FlowTidy == FlowPlanned' /\ [DeliveryNext]_deliveryVars

LEMMA PlansArePasses ==
    ASSUME pass \in PassTypes, NEW newest, NEW pending \in BOOLEAN
    PROVE  /\ FetchRange(newest) \in PassTypes
           /\ FindFloor(newest) \in PassTypes
           /\ NothingToAsk(pending) \in PassTypes
<1>1. FetchRange(newest) \in PassTypes
  <2> DEFINE wanted == LowestOf(Unknown(window.watermark + 1, newest), RecoveryLimit)
             more == Unknown(window.watermark + 1, newest) # wanted
  <2>1. wanted \in SUBSET ResultIds /\ more \in BOOLEAN
    BY DEF LowestOf, Unknown
  <2>2. FetchRange(newest) = [pass EXCEPT !.at = "asking", !.plan = "range",
                                          !.todo = wanted, !.more = more]
    BY DEF FetchRange
  <2> HIDE DEF wanted, more
  <2>3. QED
    BY <2>1, <2>2 DEF PassTypes
<1>2. FindFloor(newest) \in PassTypes
  <2> DEFINE block == HighestOf(Unknown(1, newest), RecoveryLimit)
             more == Cardinality(block) = RecoveryLimit
  <2>1. block \in SUBSET ResultIds /\ more \in BOOLEAN
    BY DEF HighestOf, Unknown
  <2>2. FindFloor(newest) = [pass EXCEPT !.at = "asking", !.plan = "floor",
                                         !.todo = block, !.more = more]
    BY DEF FindFloor
  <2> HIDE DEF block, more
  <2>3. QED
    BY <2>1, <2>2 DEF PassTypes
<1>3. NothingToAsk(pending) \in PassTypes
  BY DEF NothingToAsk, PassTypes
<1>4. QED
  BY <1>1, <1>2, <1>3

LEMMA RecoverGapIsPass ==
    ASSUME pass \in PassTypes, RecoverGap \/ UNCHANGED pass
    PROVE  pass' \in PassTypes
BY PassesAreTyped DEF RecoverGap

(* The latest result is answered with any result, or not at all.           *)
LEMMA LatestAnswers ==
    ASSUME FlowPlanned,
           LatestSilent \/ LatestRefused \/ \E id \in ResultIds : LatestIs(id)
    PROVE  pass' \in PassTypes /\ [DeliveryNext]_deliveryVars
<1>1. pass' \in PassTypes
  BY PlansArePasses DEF LatestSilent, LatestRefused, LatestIs, FlowPlanned
<1>2. \/ NoteEmptyHistory \/ UNCHANGED deliveryVars
      \/ \E id \in ResultIds : SetBaseline(id)
  BY DEF LatestSilent, LatestRefused, LatestIs
<1>3. QED
  BY <1>1, <1>2 DEF DeliveryNext

LEMMA AttemptAnswers ==
    ASSUME FlowPlanned,
           \/ \E id \in ResultIds : AttemptGets(id)
           \/ AttemptNotFound \/ AttemptRefused \/ AttemptSilent
    PROVE  pass' \in PassTypes /\ [DeliveryNext]_deliveryVars
<1>0. pass \in PassTypes /\ pass.todo # {} /\ pass.silent < SilenceLimit
  BY DEF FlowPlanned, AttemptGets, AttemptNotFound, AttemptRefused, AttemptSilent, Asking
<1>1. Asked \in pass.todo /\ Asked \in ResultIds
  BY <1>0, AskedIsPlanned
<1> HIDE DEF Asked
<1> DEFINE left == pass.todo \ {Asked}
<1>2. left \in SUBSET ResultIds
  BY <1>0 DEF PassTypes
<1>3. ASSUME NEW id \in ResultIds, AttemptGets(id)
      PROVE  pass' \in PassTypes /\ [DeliveryNext]_deliveryVars
  <2> DEFINE gained == pass.progress \/ id = Asked
             again == pass.pending \/ id # Asked
  <2>1. gained \in BOOLEAN /\ again \in BOOLEAN
    BY <1>0 DEF PassTypes
  <2>2. pass' = [pass EXCEPT !.todo = left, !.silent = 0,
                             !.progress = gained, !.pending = again]
    BY <1>3 DEF AttemptGets
  <2>3. Submit(id, "recovery")
    BY <1>3 DEF AttemptGets
  <2> HIDE DEF left, gained, again
  <2>4. pass' \in PassTypes
    BY <1>0, <1>2, <2>1, <2>2, GetsIsTyped
  <2>5. QED
    BY <2>3, <2>4 DEF DeliveryNext, Sources
<1>4. CASE AttemptNotFound
  <2>1. pass' = [pass EXCEPT !.todo = left, !.silent = 0,
                             !.progress = TRUE, !.floor = Asked]
    BY <1>4 DEF AttemptNotFound
  <2>2. WriteOff(Asked)
    BY <1>4 DEF AttemptNotFound
  <2> HIDE DEF left
  <2>3. pass' \in PassTypes
    BY <1>0, <1>1, <1>2, <2>1, NotFoundIsTyped
  <2>4. QED
    BY <1>1, <2>2, <2>3 DEF DeliveryNext
<1>5. CASE AttemptRefused
  <2>1. pass' = [pass EXCEPT !.todo = left, !.silent = 0, !.pending = TRUE]
    BY <1>5 DEF AttemptRefused
  <2>2. 0 \in 0 .. SilenceLimit
    BY RecoveryAssumption
  <2> HIDE DEF left
  <2>3. QED
    BY <1>0, <1>2, <1>5, <2>1, <2>2, UnansweredIsTyped DEF AttemptRefused
<1>6. CASE AttemptSilent
  <2> DEFINE count == pass.silent + 1
  <2>1. pass' = [pass EXCEPT !.todo = left, !.silent = count, !.pending = TRUE]
    BY <1>6 DEF AttemptSilent
  <2>2. count \in 0 .. SilenceLimit
    BY <1>0, RecoveryAssumption DEF PassTypes
  <2> HIDE DEF left, count
  <2>3. QED
    BY <1>0, <1>2, <1>6, <2>1, <2>2, UnansweredIsTyped DEF AttemptSilent
<1>7. QED
  BY <1>3, <1>4, <1>5, <1>6

LEMMA PassEnds ==
    ASSUME FlowPlanned, FinishPass
    PROVE  pass' \in PassTypes /\ [DeliveryNext]_deliveryVars
<1>0. pass \in PassTypes
  BY DEF FlowPlanned
<1>1. \/ pass.floor # NoId /\ SetBaseline(pass.floor)
      \/ SetBaseline(0) \/ UNCHANGED deliveryVars
  BY DEF FinishPass
<1>2. \/ pass' = PassAgain("latest", pass.attempts)
      \/ pass.attempts > 1 /\ pass' = PassAgain("sleeping", pass.attempts - 1)
      \/ pass' = NoPass
  BY DEF FinishPass
<1>3. /\ pass.attempts \in 0 .. RecoveryAttempts
      /\ pass.attempts > 1 => pass.attempts - 1 \in 0 .. RecoveryAttempts
  BY <1>0, RecoveryAssumption DEF PassTypes
<1>4. pass' \in PassTypes
  BY <1>2, <1>3, PassesAreTyped
<1>5. pass.floor # NoId => pass.floor \in ResultIds
  BY <1>0 DEF PassTypes
<1>6. QED
  BY <1>1, <1>4, <1>5 DEF DeliveryNext

(* Every step on the wire is a step of the queue or none.                  *)
LEMMA FlowIsTidy ==
    ASSUME FlowPlanned, [FlowNext]_flowVars
    PROVE  FlowTidy
<1> USE DEF FlowTidy, FlowPlanned
<1>1. CASE Requests \/ AnswersRequest \/ TakesAck
  BY <1>1 DEF Requests, AnswersRequest, TakesAck, vars, recoveryVars
<1>2. CASE RequestTimesOut
  <2>1. /\ UNCHANGED <<produced, outbox, arrived>>
        /\ LatestSilent \/ AttemptSilent
    BY <1>2 DEF RequestTimesOut, StoreKept
  <2>2. pass' \in PassTypes /\ [DeliveryNext]_deliveryVars
    BY <2>1, LatestAnswers, AttemptAnswers
  <2>3. QED
    BY <2>1, <2>2
<1>3. CASE ReadsReply
  <2>1. UNCHANGED <<produced, outbox, arrived>>
    BY <1>3 DEF ReadsReply, StoreKept
  <2>2. \/ \E id \in ResultIds : LatestIs(id) \/ AttemptGets(id)
        \/ LatestRefused \/ AttemptNotFound \/ AttemptRefused
    BY <1>3 DEF ReadsReply
  <2>3. pass' \in PassTypes /\ [DeliveryNext]_deliveryVars
    BY <2>2, LatestAnswers, AttemptAnswers
  <2>4. QED
    BY <2>1, <2>3
<1>4. CASE ReadsLateReply
  <2>1. (\E id \in ResultIds : Submit(id, "reader")) \/ UNCHANGED deliveryVars
    BY <1>4 DEF ReadsLateReply
  <2>2. UNCHANGED <<produced, outbox, arrived, pass>>
    BY <1>4 DEF ReadsLateReply, recoveryVars
  <2>3. QED
    BY <2>1, <2>2 DEF DeliveryNext, Sources
<1>5. CASE ReadsPush
  BY <1>5 DEF ReadsPush, vars, recoveryVars
<1>6. CASE ConsumesPush
  <2>1. Head(arrived) \in ResultIds /\ Tail(arrived) \in Seq(ResultIds)
    BY <1>6 DEF ConsumesPush
  <2>2. Submit(Head(arrived), "pushed") /\ (RecoverGap \/ UNCHANGED pass)
    BY <1>6 DEF ConsumesPush, SubmitPushed
  <2>3. pass' \in PassTypes /\ DeliveryNext
    BY <2>1, <2>2, RecoverGapIsPass DEF DeliveryNext, Sources
  <2>4. QED
    BY <1>6, <2>1, <2>3 DEF ConsumesPush
<1>7. CASE Delivery
  <2>1. DeliveryLoop /\ UNCHANGED <<recoveryVars, arrived>>
    BY <1>7 DEF Delivery, DeliveryLoop
  <2>2. QED
    BY <2>1 DEF recoveryVars, DeliveryNext
<1>8. CASE RefusesRequest
  BY <1>8 DEF RefusesRequest
<1>9. CASE Pushes \/ Resends
  <2>1. CASE Pushes
    <3>1. Tail(outbox) \in Seq(ResultIds)
      BY <2>1 DEF Pushes
    <3>2. QED
      BY <2>1, <3>1 DEF Pushes
  <2>2. CASE Resends
    BY <2>2 DEF Resends
  <2>3. QED
    BY <1>9, <2>1, <2>2
<1>10. CASE ConnectionLost
  <2>1. SessionEnds /\ pass' = NoPass /\ outbox' = <<>> /\ UNCHANGED <<produced, arrived>>
    BY <1>10 DEF ConnectionLost, SessionFails, SessionLost
  <2>2. QED
    BY <2>1, PassesAreTyped DEF DeliveryNext
<1>11. CASE Elsewhere
  <2>0. UNCHANGED arrived
    BY <1>11 DEF Elsewhere, wireVars
  <2>1. CASE FinishPass
    BY <2>0, <2>1, PassEnds DEF FinishPass
  <2>2. CASE PassWakes
    BY <2>0, <2>2 DEF PassWakes, PassTypes
  <2>3. CASE SessionStarts \/ Subscribes \/ Reconciles \/ KeepsUp \/ Polls
    <3>1. pass' \in PassTypes
      BY <2>3, RecoverGapIsPass DEF SessionStarts, Subscribes, Reconciles, KeepsUp, Polls
    <3>2. QED
      BY <2>0, <2>3, <3>1 DEF SessionStarts, Subscribes, Reconciles, KeepsUp, Polls
  <2>4. CASE Produces
    <3>1. produced' \in 0 .. MaxProduced /\ produced' \in ResultIds
      BY <2>4, ProducedAreResults DEF Produces
    <3>2. QED
      BY <2>0, <2>4, <3>1, SMTT(30) DEF Produces
  <2>5. CASE Evicts
    BY <2>0, <2>5 DEF Evicts
  <2>6. CASE HandlerFails
    BY <2>0, <2>6 DEF HandlerFails, DeliveryNext, DeliveryLoop
  <2>7. QED
    BY <1>11, <2>1, <2>2, <2>3, <2>4, <2>5, <2>6 DEF Elsewhere
<1>12. CASE UNCHANGED flowVars
  BY <1>12 DEF flowVars, vars, recoveryVars, wireVars
<1>13. QED
  BY <1>1, <1>2, <1>3, <1>4, <1>5, <1>6, <1>7, <1>8, <1>9, <1>10, <1>11, <1>12
     DEF FlowNext

LEMMA AlwaysFlowPlanned == FlowSpec => []FlowPlanned
<1>1. ASSUME FlowInit PROVE FlowPlanned
  <2>1. produced \in 0 .. MaxProduced
    BY <1>1, BoundsAssumption DEF FlowInit, Init
  <2>2. outbox = <<>> /\ arrived = <<>> /\ pass = NoPass
    BY <1>1 DEF FlowInit, Init
  <2>3. QED
    BY <2>1, <2>2, PassesAreTyped DEF FlowPlanned
<1>2. FlowPlanned /\ [FlowNext]_flowVars => FlowPlanned'
  BY FlowIsTidy DEF FlowTidy
<1>3. QED
  BY <1>1, <1>2, PTL DEF FlowSpec

(* Also with replies that arrive late, pushes that wait in the buffer of   *)
(* the subscription and acknowledgements on the wire, the delivery queue   *)
(* does what module ResultDelivery says (DeviceConnection.ts,              *)
(* routeUnsolicited and submitPushed).                                     *)
THEOREM FlowUsesTheQueue == FlowSpec => DeliverySpec
<1>1. FlowInit => DeliveryInit
  BY DEF FlowInit, Init
<1>2. FlowPlanned /\ [FlowNext]_flowVars => [DeliveryNext]_deliveryVars
  BY FlowIsTidy DEF FlowTidy
<1>3. QED
  BY <1>1, <1>2, AlwaysFlowPlanned, PTL DEF FlowSpec, DeliverySpec

(* However late its replies and however often it is resent, a result above *)
(* the baseline is handled at most once and stays seen, and what is        *)
(* acknowledged was accepted or written off.                               *)
THEOREM FlowHandlesOnce ==
    FlowSpec => [](HandledOnce /\ AcceptedStaysSeen /\ AckedWasAccepted)
BY FlowUsesTheQueue, AlwaysHandledOnce, AcceptedAlwaysStaysSeen,
   AckedWasAlwaysAccepted, PTL

-----------------------------------------------------------------------------
LEMMA SlotStaysAsked ==
    ASSUME FlowPlanned, SlotIsAsked, [FlowNext]_flowVars
    PROVE  SlotIsAsked'
<1> USE DEF SlotIsAsked
<1>1. CASE Requests
  <2>1. pass.at = "latest" => slot' = LatestId
    BY <1>1 DEF Requests
  <2>2. pass.at # "latest" => Asking /\ slot' = Asked
    BY <1>1 DEF Requests, WaitsForLatest
  <2>3. UNCHANGED pass
    BY <1>1 DEF Requests, vars, recoveryVars
  <2>4. QED
    BY <2>1, <2>2, <2>3 DEF Asking, Asked
<1>2. CASE RequestTimesOut \/ ReadsReply \/ ConnectionLost
  BY <1>2 DEF RequestTimesOut, ReadsReply, ConnectionLost
<1>3. CASE ReadsLateReply
  BY <1>3 DEF ReadsLateReply
<1>4. ASSUME UNCHANGED <<slot, pass>>
      PROVE  SlotIsAsked'
  BY <1>4 DEF Asked
<1>5. ASSUME UNCHANGED slot, RecoverGap \/ UNCHANGED pass
      PROVE  SlotIsAsked'
  <2>1. CASE slot = NoId
    BY <1>5, <2>1
  <2>2. CASE slot # NoId
    BY <1>4, <1>5, <2>2 DEF RecoverGap
  <2>3. QED
    BY <2>1, <2>2
<1>6. CASE ReadsPush \/ Delivery \/ AnswersRequest \/ RefusesRequest \/ TakesAck
           \/ Pushes \/ Resends
  BY <1>4, <1>6 DEF ReadsPush, Delivery, AnswersRequest, RefusesRequest, TakesAck,
     Pushes, Resends, vars, recoveryVars
<1>7. CASE ConsumesPush
  BY <1>5, <1>7 DEF ConsumesPush, SubmitPushed
<1>8. CASE Elsewhere
  <2>0. UNCHANGED slot
    BY <1>8 DEF Elsewhere, wireVars
  <2>1. CASE FinishPass \/ PassWakes
    <3>1. slot = NoId
      <4>1. pass.at = "asking" \/ pass.at = "sleeping"
        BY <2>1 DEF FinishPass, PassWakes
      <4>2. pass.at = "asking" => pass.todo = {} \/ pass.silent = SilenceLimit
        BY <2>1 DEF FinishPass, PassWakes
      <4>3. QED
        BY <4>1, <4>2, RecoveryAssumption
    <3>2. QED
      BY <2>0, <3>1
  <2>2. CASE SessionStarts \/ Subscribes \/ Reconciles \/ KeepsUp \/ Polls
    BY <1>5, <2>0, <2>2 DEF SessionStarts, Subscribes, Reconciles, KeepsUp, Polls
  <2>3. CASE Produces \/ Evicts \/ HandlerFails
    BY <1>4, <2>0, <2>3 DEF Produces, Evicts, HandlerFails
  <2>4. QED
    BY <1>8, <2>1, <2>2, <2>3 DEF Elsewhere
<1>9. CASE UNCHANGED flowVars
  BY <1>4, <1>9 DEF flowVars, vars, recoveryVars, wireVars
<1>10. QED
  BY <1>1, <1>2, <1>3, <1>6, <1>7, <1>8, <1>9 DEF FlowNext

(* A reply never finds a pass that has moved on from the request it        *)
(* settles, for any pushes that start passes meanwhile (RequestReply.ts    *)
(* against ResultRecovery.ts).                                             *)
THEOREM SlotAlwaysMatchesPass == FlowSpec => []SlotMatchesPass
<1>1. FlowInit => SlotIsAsked
  BY DEF FlowInit, SlotIsAsked
<1>2. FlowPlanned /\ SlotIsAsked /\ [FlowNext]_flowVars => SlotIsAsked'
  BY SlotStaysAsked
<1>3. SlotIsAsked => SlotMatchesPass
  BY DEF SlotIsAsked, SlotMatchesPass
<1>4. QED
  BY <1>1, <1>2, <1>3, AlwaysFlowPlanned, PTL DEF FlowSpec

-----------------------------------------------------------------------------
(* What a sequence of frames, or of results, holds of a kind.              *)

Elements(s) == {s[i] : i \in DOMAIN s}
Has(s, kind) == Elements(s) \cap kind # {}
AtMostOne(s, kind) == \A i, j \in DOMAIN s : s[i] \in kind /\ s[j] \in kind => i = j

LEMMA ElementAdded ==
    ASSUME NEW S, NEW s \in Seq(S), NEW e \in S, NEW kind
    PROVE  /\ Append(s, e) \in Seq(S)
           /\ Elements(Append(s, e)) = Elements(s) \cup {e}
           /\ AtMostOne(s, kind) /\ (e \in kind => ~Has(s, kind))
                 => AtMostOne(Append(s, e), kind)
<1> DEFINE t == Append(s, e)
<1>1. /\ t \in Seq(S) /\ DOMAIN s = 1 .. Len(s) /\ DOMAIN t = 1 .. (Len(s) + 1)
      /\ Len(s) \in Nat /\ t[Len(s) + 1] = e /\ \A i \in 1 .. Len(s) : t[i] = s[i]
  OBVIOUS
<1> HIDE DEF t
<1>2. Elements(t) = Elements(s) \cup {e}
  <2>1. ASSUME NEW x \in Elements(t) PROVE x \in Elements(s) \cup {e}
    <3>1. PICK i \in 1 .. (Len(s) + 1) : x = t[i]
      BY <1>1, <2>1 DEF Elements
    <3>2. CASE i \in 1 .. Len(s)
      BY <1>1, <3>1, <3>2 DEF Elements
    <3>3. CASE i = Len(s) + 1
      BY <1>1, <3>1, <3>3
    <3>4. QED
      BY <1>1, <3>2, <3>3
  <2>2. ASSUME NEW x \in Elements(s) PROVE x \in Elements(t)
    <3>1. PICK i \in 1 .. Len(s) : x = s[i]
      BY <1>1, <2>2 DEF Elements
    <3>2. i \in 1 .. (Len(s) + 1) /\ t[i] = x
      BY <1>1, <3>1
    <3>3. QED
      BY <1>1, <3>2 DEF Elements
  <2>3. e \in Elements(t)
    <3>1. Len(s) + 1 \in 1 .. (Len(s) + 1)
      BY <1>1
    <3>2. QED
      BY <1>1, <3>1 DEF Elements
  <2>4. QED
    BY <2>1, <2>2, <2>3
<1>3. ASSUME AtMostOne(s, kind), e \in kind => ~Has(s, kind)
      PROVE  AtMostOne(t, kind)
  <2> SUFFICES ASSUME NEW i \in 1 .. (Len(s) + 1), NEW j \in 1 .. (Len(s) + 1),
                      t[i] \in kind, t[j] \in kind
               PROVE  i = j
    BY <1>1 DEF AtMostOne
  <2>1. \A k \in 1 .. Len(s) : e \in kind => t[k] \notin kind
    BY <1>1, <1>3 DEF Has, Elements
  <2>2. \A k \in 1 .. (Len(s) + 1) : k \in 1 .. Len(s) \/ k = Len(s) + 1
    BY <1>1
  <2>3. CASE i \in 1 .. Len(s) /\ j \in 1 .. Len(s)
    BY <1>1, <1>3, <2>3 DEF AtMostOne
  <2>4. CASE i = Len(s) + 1 \/ j = Len(s) + 1
    BY <1>1, <2>1, <2>2, <2>4
  <2>5. QED
    BY <2>2, <2>3, <2>4
<1>4. QED
  BY <1>1, <1>2, <1>3 DEF t

LEMMA ElementTaken ==
    ASSUME NEW S, NEW s \in Seq(S), s # <<>>, NEW kind
    PROVE  /\ Tail(s) \in Seq(S)
           /\ Head(s) \in S /\ Head(s) \in Elements(s)
           /\ Elements(Tail(s)) \subseteq Elements(s)
           /\ AtMostOne(s, kind) => AtMostOne(Tail(s), kind)
           /\ AtMostOne(s, kind) /\ Head(s) \in kind => ~Has(Tail(s), kind)
<1> DEFINE t == Tail(s)
<1>1. /\ t \in Seq(S) /\ DOMAIN s = 1 .. Len(s) /\ DOMAIN t = 1 .. (Len(s) - 1)
      /\ Len(s) \in Nat \ {0} /\ Head(s) = s[1] /\ Head(s) \in S
      /\ \A i \in 1 .. (Len(s) - 1) : t[i] = s[i + 1]
  OBVIOUS
<1> HIDE DEF t
<1>2. \A i \in 1 .. (Len(s) - 1) : i + 1 \in 1 .. Len(s) /\ i + 1 # 1 /\ i \in Int
  BY <1>1
<1>3. 1 \in 1 .. Len(s)
  BY <1>1
<1>4. Head(s) \in Elements(s) /\ Elements(t) \subseteq Elements(s)
  BY <1>1, <1>2, <1>3 DEF Elements
<1>5. AtMostOne(s, kind) => AtMostOne(t, kind)
  <2> SUFFICES ASSUME AtMostOne(s, kind),
                      NEW i \in 1 .. (Len(s) - 1), NEW j \in 1 .. (Len(s) - 1),
                      t[i] \in kind, t[j] \in kind
               PROVE  i = j
    BY <1>1 DEF AtMostOne
  <2>1. i + 1 = j + 1
    BY <1>1, <1>2 DEF AtMostOne
  <2>2. QED
    BY <1>2, <2>1
<1>6. AtMostOne(s, kind) /\ Head(s) \in kind => ~Has(t, kind)
  <2> SUFFICES ASSUME AtMostOne(s, kind), Head(s) \in kind,
                      NEW i \in 1 .. (Len(s) - 1), t[i] \in kind
               PROVE  FALSE
    BY <1>1 DEF Has, Elements
  <2>1. i + 1 = 1
    BY <1>1, <1>2, <1>3 DEF AtMostOne
  <2>2. QED
    BY <1>2, <2>1
<1>7. QED
  BY <1>1, <1>4, <1>5, <1>6 DEF t

LEMMA NothingThere ==
    \A kind : ~Has(<<>>, kind) /\ AtMostOne(<<>>, kind)
<1>1. DOMAIN <<>> = {}
  OBVIOUS
<1>2. QED
  BY <1>1 DEF Has, Elements, AtMostOne

(* A sequence that loses its head, or gets something else, has no more of  *)
(* a kind than before.                                                     *)
LEMMA NoneAdded ==
    ASSUME NEW S, NEW s \in Seq(S), NEW t, NEW kind, AtMostOne(s, kind),
           \/ t = s
           \/ s # <<>> /\ t = Tail(s)
           \/ \E e \in S \ kind : t = Append(s, e)
    PROVE  /\ t \in Seq(S) /\ AtMostOne(t, kind)
           /\ \A e \in Elements(t) : e \in kind => e \in Elements(s)
           /\ Has(t, kind) => Has(s, kind)
<1>1. CASE t = s
  BY <1>1
<1>2. CASE s # <<>> /\ t = Tail(s)
  BY <1>2, ElementTaken DEF Has
<1>3. ASSUME NEW e \in S \ kind, t = Append(s, e)
      PROVE  /\ t \in Seq(S) /\ AtMostOne(t, kind)
             /\ Elements(t) = Elements(s) \cup {e}
  BY <1>3, ElementAdded
<1>4. QED
  BY <1>1, <1>2, <1>3 DEF Has

-----------------------------------------------------------------------------
(* The types of what is on the wire.                                       *)

WireTyped ==
    /\ toClient \in Seq(Frame) /\ toController \in Seq(Frame)
    /\ Len(arrived) <= 1
    /\ pushing \in {NoId} \cup ResultIds
    /\ settled \subseteq ResultIds

LEMMA FramesAreFrames ==
    /\ \A id \in ResultIds \cup {LatestId} :
          /\ Request(id) \in Frame /\ Request(id).type = "request" /\ Request(id).id = id
          /\ Old(id) \in Frame /\ Old(id).type = "old" /\ Old(id).id = id
          /\ Push(id) \in Frame /\ Push(id).type = "push" /\ Push(id).id = id
    /\ NotFound \in Frame /\ NotFound.type = "notFound"
    /\ Refused \in Frame /\ Refused.type = "refused"
    /\ Ack \in Frame /\ Ack.type = "ack"
<1>1. ResultIds \cup {LatestId} \subseteq TighteningId
  BY ResultIdsAreIds, MaxIdAssumption DEF LatestId, TighteningId
<1>2. QED
  BY <1>1 DEF Frame, Request, Old, Push, NotFound, Refused, Ack

LEMMA IdsAreNumbers ==
    /\ \A id \in ResultIds : id \in Nat /\ id # NoId /\ id # LatestId /\ id > 0
    /\ NoId \in Int /\ LatestId \in Nat /\ NoId # LatestId
<1>1. \A id \in ResultIds : id \in Nat /\ id > 0
  BY ResultIdsBelowMaxId, MaxIdAssumption
<1>2. QED
  BY <1>1 DEF NoId, LatestId

(* What the request that waits is for.                                     *)
LEMMA SlotIsTyped ==
    ASSUME pass \in PassTypes, SlotIsAsked
    PROVE  /\ slot \in {NoId, LatestId} \cup ResultIds
           /\ slot # NoId /\ slot # LatestId => slot \in pass.todo /\ slot = Asked
BY AskedIsPlanned DEF SlotIsAsked

LEMMA WireStaysTyped ==
    ASSUME FlowPlanned, RecoveryTyped, SlotIsAsked, WireTyped, [FlowNext]_flowVars
    PROVE  WireTyped'
<1> USE DEF WireTyped
<1>0. /\ pass \in PassTypes /\ arrived \in Seq(ResultIds) /\ outbox \in Seq(ResultIds)
      /\ Store \subseteq ResultIds
  BY StoreIsResults DEF FlowPlanned, RecoveryTyped
<1>1. CASE Requests
  <2>1. slot' \in ResultIds \cup {LatestId}
    BY <1>0, <1>1, AskedIsPlanned DEF Requests, WaitsForLatest, Asking
  <2>2. toController' \in Seq(Frame)
    BY <1>1, <2>1, FramesAreFrames, ElementAdded DEF Requests
  <2>3. QED
    BY <1>1, <2>2 DEF Requests
<1>2. CASE RequestTimesOut
  BY <1>2 DEF RequestTimesOut
<1>3. CASE ReadsReply
  <2>1. toClient # <<>> /\ toClient' = Tail(toClient) /\ UNCHANGED <<toController, arrived, pushing, settled>>
    BY <1>3 DEF ReadsReply, Receives
  <2>2. QED
    BY <2>1, ElementTaken
<1>4. CASE ReadsLateReply
  <2>1. toClient # <<>> /\ toClient' = Tail(toClient) /\ UNCHANGED <<toController, arrived, pushing, settled>>
    BY <1>4 DEF ReadsLateReply, Receives
  <2>2. QED
    BY <2>1, ElementTaken
<1>5. CASE ReadsPush
  <2>1. /\ toClient # <<>> /\ toClient' = Tail(toClient)
        /\ UNCHANGED <<toController, pushing, settled>>
    BY <1>5 DEF ReadsPush, Receives
  <2>2. PICK id \in ResultIds : arrived' = Append(<<>>, id)
    BY <1>5 DEF ReadsPush
  <2>3. Len(arrived') <= 1
    BY <2>2
  <2>4. QED
    BY <2>1, <2>3, ElementTaken
<1>6. CASE ConsumesPush
  <2>1. arrived # <<>> /\ arrived' = Tail(arrived) /\ UNCHANGED <<toClient, toController, pushing, settled>>
    BY <1>6 DEF ConsumesPush
  <2>2. Len(arrived') <= 1
    BY <1>0, <2>1
  <2>3. QED
    BY <2>1, <2>2
<1>7. CASE Delivery
  <2>1. /\ toController' = toController \/ toController' = Append(toController, Ack)
        /\ UNCHANGED <<toClient, arrived, pushing, settled>>
    BY <1>7 DEF Delivery, SendsAck
  <2>2. QED
    BY <2>1, FramesAreFrames, ElementAdded
<1>8. CASE AnswersRequest
  <2>1. /\ toController # <<>> /\ toController' = Tail(toController)
        /\ UNCHANGED <<arrived, pushing, settled>>
    BY <1>8 DEF AnswersRequest, Takes
  <2>2. \E f \in Frame : toClient' = Append(toClient, f)
    <3>1. \E wanted : toClient' = Append(toClient, IF wanted \in Store THEN Old(wanted) ELSE NotFound)
      BY <1>8 DEF AnswersRequest
    <3>2. QED
      BY <1>0, <3>1, FramesAreFrames
  <2>3. QED
    BY <2>1, <2>2, ElementAdded, ElementTaken
<1>9. CASE RefusesRequest
  <2>1. /\ toController # <<>> /\ toController' = Tail(toController)
        /\ toClient' = Append(toClient, Refused) /\ UNCHANGED <<arrived, pushing, settled>>
    BY <1>9 DEF RefusesRequest, Takes
  <2>2. QED
    BY <2>1, FramesAreFrames, ElementAdded, ElementTaken
<1>10. CASE TakesAck
  <2>1. /\ toController # <<>> /\ toController' = Tail(toController)
        /\ UNCHANGED <<toClient, arrived>>
        /\ pushing' = NoId
        /\ settled' = IF pushing # NoId THEN settled \cup {pushing} ELSE settled
    BY <1>10 DEF TakesAck, Takes, vars
  <2>2. QED
    BY <2>1, ElementTaken
<1>11. CASE Pushes
  <2>1. /\ pushing' \in ResultIds /\ toClient' = Append(toClient, Push(pushing'))
        /\ UNCHANGED <<toController, arrived, settled>>
    BY <1>0, <1>11 DEF Pushes
  <2>2. QED
    BY <2>1, FramesAreFrames, ElementAdded
<1>12. CASE Resends
  <2>1. /\ pushing \in ResultIds /\ toClient' = Append(toClient, Push(pushing))
        /\ UNCHANGED <<toController, arrived, settled, pushing>>
    BY <1>12 DEF Resends
  <2>2. QED
    BY <2>1, FramesAreFrames, ElementAdded
<1>13. CASE ConnectionLost
  BY <1>13 DEF ConnectionLost
<1>14. CASE Elsewhere \/ UNCHANGED flowVars
  BY <1>14 DEF Elsewhere, wireVars, flowVars
<1>15. QED
  BY <1>1, <1>2, <1>3, <1>4, <1>5, <1>6, <1>7, <1>8, <1>9, <1>10, <1>11, <1>12, <1>13, <1>14
     DEF FlowNext

LEMMA RecoveryStaysTyped ==
    ASSUME FlowPlanned, RecoveryTyped, [FlowNext]_flowVars
    PROVE  RecoveryTyped'
<1>1. pass \in PassTypes /\ produced \in 0 .. MaxProduced
  BY DEF FlowPlanned
<1>2. CASE RequestTimesOut \/ ReadsReply
  <2>1. StoreKept /\ (UNCHANGED faults \/ \E kind \in Faults : Fault(kind))
    BY <1>2 DEF RequestTimesOut, ReadsReply, Faults
  <2>2. QED
    BY <1>1, <2>1, RecoveryStepsAreTyped
<1>3. CASE Requests \/ ReadsLateReply \/ ReadsPush \/ ConsumesPush \/ Delivery
           \/ AnswersRequest \/ TakesAck \/ Pushes \/ UNCHANGED flowVars
  <2>1. UNCHANGED <<evicted, session, reconciled, owed, listened, faults>>
    BY <1>3 DEF Requests, ReadsLateReply, ReadsPush, ConsumesPush, Delivery,
       AnswersRequest, TakesAck, Pushes, flowVars, vars, recoveryVars
  <2>2. QED
    BY <1>1, <2>1, RecoveryStepsAreTyped
<1>4. CASE RefusesRequest \/ Resends
  <2>1. /\ UNCHANGED <<produced, evicted, session, reconciled, owed, listened>>
        /\ \E kind \in Faults : Fault(kind)
    BY <1>4 DEF RefusesRequest, Resends, Faults
  <2>2. QED
    BY <2>1, BoundsAssumption DEF RecoveryTyped, Fault
<1>5. CASE ConnectionLost \/ Elsewhere
  BY <1>1, <1>5, RecoveryStepsAreTyped DEF ConnectionLost, Elsewhere
<1>6. QED
  BY <1>2, <1>3, <1>4, <1>5 DEF FlowNext

LEMMA AlwaysSlotted == FlowSpec => []SlotIsAsked
<1>1. FlowInit => SlotIsAsked
  BY DEF FlowInit, SlotIsAsked
<1>2. FlowPlanned /\ SlotIsAsked /\ [FlowNext]_flowVars => SlotIsAsked'
  BY SlotStaysAsked
<1>3. QED
  BY <1>1, <1>2, AlwaysFlowPlanned, PTL DEF FlowSpec

LEMMA AlwaysWired == FlowSpec => [](RecoveryTyped /\ WireTyped)
<1>1. FlowInit => RecoveryTyped /\ WireTyped
  BY StartsTyped DEF FlowInit, WireTyped
<1>2. /\ FlowPlanned /\ RecoveryTyped /\ [FlowNext]_flowVars => RecoveryTyped'
      /\ FlowPlanned /\ RecoveryTyped /\ SlotIsAsked /\ WireTyped /\ [FlowNext]_flowVars
            => WireTyped'
  BY RecoveryStaysTyped, WireStaysTyped
<1>3. QED
  BY <1>1, <1>2, AlwaysFlowPlanned, AlwaysSlotted, PTL DEF FlowSpec

(* What is on the wire is of its types, and the client has at most one     *)
(* request waiting and one result in the buffer of its subscription.       *)
THEOREM FlowTypes == FlowSpec => []FlowTypeOK
<1>1. DeliveryTypeOK /\ FlowPlanned /\ RecoveryTyped => TypeOK
  BY DEF TypeOK, FlowPlanned, RecoveryTyped
<1>2. TypeOK /\ FlowPlanned /\ SlotIsAsked /\ WireTyped => FlowTypeOK
  BY SlotIsTyped DEF FlowTypeOK, FlowPlanned, WireTyped
<1>3. FlowSpec => []DeliveryTypeOK
  BY FlowUsesTheQueue, DeliveryTypes, PTL
<1>4. QED
  BY <1>1, <1>2, <1>3, AlwaysFlowPlanned, AlwaysSlotted, AlwaysWired, PTL

-----------------------------------------------------------------------------
(* As long as requests are answered in time there is one exchange at most  *)
(* on the wire, and the reply belongs to the request that waits.           *)

Asks == {f \in Frame : f.type = "request"}
Replies == {f \in Frame : f.type \in {"old", "notFound", "refused"}}

Exchange ==
    /\ AtMostOne(toController, Asks) /\ AtMostOne(toClient, Replies)
    /\ ~(Has(toController, Asks) /\ Has(toClient, Replies))
    /\ Has(toController, Asks) \/ Has(toClient, Replies) => slot # NoId
    /\ \A f \in Elements(toController) : f.type = "request" => f.id = slot
    /\ \A f \in Elements(toClient) :
          /\ f.type = "old" => f.id <= produced
          /\ f.type = "notFound" /\ slot # LatestId => slot <= evicted

(* Nobody adds a request or a reply.                                       *)
LEMMA ExchangeIsKept ==
    ASSUME WireTyped, Exchange, UNCHANGED slot,
           toClient' \in Seq(Frame), toController' \in Seq(Frame),
           \/ toController' = toController
           \/ toController # <<>> /\ toController' = Tail(toController)
           \/ \E f \in Frame \ Asks : toController' = Append(toController, f),
           \/ toClient' = toClient
           \/ toClient # <<>> /\ toClient' = Tail(toClient)
           \/ \E f \in Frame \ Replies : toClient' = Append(toClient, f),
           produced \in Nat, produced' \in Nat, produced <= produced',
           evicted \in Nat, evicted' \in Nat, evicted <= evicted',
           slot \in Int, \A f \in Elements(toClient) : f.id \in Int
    PROVE  Exchange'
<1> USE DEF WireTyped
<1>0. /\ \A f \in Elements(toController') : f \in Frame
      /\ \A f \in Elements(toClient') : f \in Frame
  BY DEF Elements
<1>1. /\ AtMostOne(toController', Asks)
      /\ Has(toController', Asks) => Has(toController, Asks)
      /\ \A f \in Elements(toController') : f \in Asks => f \in Elements(toController)
  BY NoneAdded DEF Exchange
<1>2. /\ AtMostOne(toClient', Replies)
      /\ Has(toClient', Replies) => Has(toClient, Replies)
      /\ \A f \in Elements(toClient') : f \in Replies => f \in Elements(toClient)
  BY NoneAdded DEF Exchange
<1>3. \A f \in Elements(toController') : f.type = "request" => f.id = slot'
  BY <1>0, <1>1 DEF Exchange, Asks
<1>4. \A f \in Elements(toClient') :
          /\ f.type = "old" => f.id <= produced'
          /\ f.type = "notFound" /\ slot' # LatestId => slot' <= evicted'
  BY <1>0, <1>2 DEF Exchange, Replies
<1>5. QED
  BY <1>1, <1>2, <1>3, <1>4 DEF Exchange

LEMMA NumbersOnTheWire ==
    ASSUME Planned, SlotIsAsked, WireTyped
    PROVE  /\ slot \in Int /\ produced \in Nat /\ evicted \in Nat
           /\ \A f \in Elements(toClient) : f.id \in Int
           /\ \A f \in Elements(toClient) \cup Elements(toController) : f \in Frame
<1>1. \A f \in Elements(toClient) \cup Elements(toController) : f \in Frame
  BY DEF WireTyped, Elements
<1>2. \A f \in Frame : f.id \in Int
  BY MaxIdAssumption DEF Frame, TighteningId, NoId
<1>3. slot \in Int
  <2>1. slot \in {NoId, LatestId} \cup ResultIds
    BY SlotIsTyped DEF Planned
  <2>2. QED
    BY <2>1, IdsAreNumbers
<1>4. QED
  BY <1>1, <1>2, <1>3, ProducedAreResults DEF Planned

LEMMA RequestGoesOut ==
    ASSUME Planned, SlotIsAsked, WireTyped, Exchange, Requests
    PROVE  Exchange'
<1>1. slot' \in ResultIds \cup {LatestId} /\ slot' # NoId
  <2>1. pass \in PassTypes
    BY DEF Planned
  <2>2. slot' \in ResultIds \cup {LatestId}
    BY <2>1, AskedIsPlanned DEF Requests, WaitsForLatest, Asking
  <2>3. QED
    BY <2>2, IdsAreNumbers
<1>2. /\ slot = NoId /\ toController' = Append(toController, Request(slot'))
      /\ UNCHANGED <<toClient, produced, evicted>>
  BY DEF Requests, vars, recoveryVars
<1>3. /\ Request(slot') \in Frame /\ Request(slot') \in Asks
      /\ Request(slot').id = slot'
  BY <1>1, FramesAreFrames DEF Asks
<1>4. ~Has(toController, Asks) /\ ~Has(toClient, Replies)
  BY <1>2 DEF Exchange
<1>5. /\ Elements(toController') = Elements(toController) \cup {Request(slot')}
      /\ AtMostOne(toController', Asks)
  BY <1>2, <1>3, <1>4, ElementAdded DEF WireTyped, Exchange
<1>6. \A f \in Elements(toController) : f.type # "request"
  BY <1>4, NumbersOnTheWire DEF Has, Asks
<1>7. \A f \in Elements(toClient) : f.type \notin {"old", "notFound", "refused"}
  BY <1>4, NumbersOnTheWire DEF Has, Replies
<1>8. QED
  BY <1>1, <1>2, <1>3, <1>4, <1>5, <1>6, <1>7 DEF Exchange

\* The controller answers what waits: from its storage, or with a refusal.
Answering(id, reply) ==
    /\ toController # <<>> /\ Head(toController) = Request(id)
    /\ toController' = Tail(toController)
    /\ toClient' = Append(toClient, reply)
    /\ UNCHANGED <<slot, pass, produced, evicted>>

LEMMA AnswerGoesOut ==
    ASSUME Planned, SlotIsAsked, WireTyped, Exchange,
           NEW id \in TighteningId, NEW reply \in Replies, Answering(id, reply),
           reply.type = "old" => reply.id <= produced,
           reply.type = "notFound" /\ slot # LatestId => slot <= evicted
    PROVE  Exchange'
<1>1. Head(toController) \in Asks /\ Head(toController) \in Elements(toController)
  <2>1. Head(toController) \in Elements(toController) /\ Head(toController) \in Frame
    BY ElementTaken DEF Answering, WireTyped
  <2>2. QED
    BY <2>1 DEF Answering, Asks, Request
<1>2. Has(toController, Asks) /\ ~Has(toClient, Replies) /\ slot # NoId
  BY <1>1 DEF Has, Exchange
<1>3. ~Has(toController', Asks) /\ AtMostOne(toController', Asks)
      /\ Elements(toController') \subseteq Elements(toController)
  BY <1>1, ElementTaken DEF Answering, WireTyped, Exchange
<1>4. reply \in Frame
  BY DEF Replies
<1>5. /\ Elements(toClient') = Elements(toClient) \cup {reply}
      /\ AtMostOne(toClient', Replies)
  BY <1>2, <1>4, ElementAdded DEF Answering, WireTyped, Exchange
<1>6. UNCHANGED <<slot, produced, evicted>>
  BY DEF Answering
<1>7. QED
  BY <1>2, <1>3, <1>5, <1>6 DEF Exchange

LEMMA ReplyComesIn ==
    ASSUME Planned, SlotIsAsked, WireTyped, Exchange,
           NEW frame \in Replies, Receives(frame), slot' = NoId
    PROVE  Exchange'
<1>1. toClient # <<>> /\ Head(toClient) = frame /\ toClient' = Tail(toClient)
      /\ UNCHANGED toController
  BY DEF Receives
<1>2. Has(toClient, Replies)
  BY <1>1, ElementTaken DEF Has, WireTyped
<1>3. ~Has(toController, Asks)
  BY <1>2 DEF Exchange
<1>4. /\ ~Has(toClient', Replies) /\ AtMostOne(toClient', Replies)
      /\ Elements(toClient') \subseteq Elements(toClient)
  BY <1>1, ElementTaken DEF WireTyped, Exchange
<1>5. \A f \in Elements(toController) : f.type # "request"
  BY <1>3, NumbersOnTheWire DEF Has, Asks
<1>6. \A f \in Elements(toClient') : f.type \notin {"old", "notFound", "refused"}
  BY <1>4, NumbersOnTheWire DEF Has, Replies
<1>7. QED
  BY <1>1, <1>3, <1>4, <1>5, <1>6 DEF Exchange

(* A reply that is there has its request waiting for it.                   *)
LEMMA NoLateReplies ==
    ASSUME Planned, SlotIsAsked, WireTyped, Exchange
    PROVE  ~ReadsLateReply
<1> SUFFICES ASSUME ReadsLateReply PROVE FALSE
  OBVIOUS
<1>1. slot = NoId /\ \E frame \in Replies : Receives(frame)
  <2>1. \A id \in ResultIds : Old(id) \in Replies
    BY FramesAreFrames DEF Replies
  <2>2. NotFound \in Replies /\ Refused \in Replies
    BY FramesAreFrames DEF Replies
  <2>3. QED
    BY <2>1, <2>2 DEF ReadsLateReply
<1>2. Has(toClient, Replies)
  BY <1>1, ElementTaken DEF Receives, Has, WireTyped
<1>3. QED
  BY <1>1, <1>2 DEF Exchange

LEMMA NotFoundIsEvicted ==
    ASSUME Planned, SlotIsAsked, slot # NoId, slot # LatestId, slot \notin Store
    PROVE  slot <= evicted
<1>1. slot = Asked /\ pass.todo # {}
  BY DEF SlotIsAsked
<1>2. QED
  BY <1>1, MissingIsEvicted

LEMMA ExchangeStays ==
    ASSUME "silence" \notin FaultKinds, Planned, Planned', SlotIsAsked,
           WireTyped, WireTyped', Exchange, [FlowNext]_flowVars
    PROVE  Exchange'
<1>0. /\ slot \in Int /\ produced \in Nat /\ evicted \in Nat
      /\ produced' \in Nat /\ evicted' \in Nat
      /\ \A f \in Elements(toClient) : f.id \in Int
  BY NumbersOnTheWire, ProducedAreResults DEF Planned
<1>1. CASE Requests
  BY <1>1, RequestGoesOut
<1>2. CASE RequestTimesOut
  BY <1>2 DEF RequestTimesOut, Fault
<1>3. CASE ReadsReply
  <2>1. \E frame \in Replies : Receives(frame)
    BY <1>3, FramesAreFrames DEF ReadsReply, Replies
  <2>2. slot' = NoId
    BY <1>3 DEF ReadsReply
  <2>3. QED
    BY <2>1, <2>2, ReplyComesIn
<1>4. CASE ReadsLateReply
  BY <1>4, NoLateReplies
<1>5. CASE AnswersRequest
  <2>1. PICK id \in TighteningId :
           LET wanted == IF id = LatestId THEN produced ELSE id
           IN  /\ Takes(Request(id))
               /\ toClient' = Append(toClient, IF wanted \in Store THEN Old(wanted)
                                                                  ELSE NotFound)
    BY <1>5 DEF AnswersRequest
  <2> DEFINE wanted == IF id = LatestId THEN produced ELSE id
             reply == IF wanted \in Store THEN Old(wanted) ELSE NotFound
  <2>2. Answering(id, reply)
    BY <1>5, <2>1 DEF Answering, Takes, AnswersRequest, vars, recoveryVars
  <2>3. reply \in Replies /\ (reply.type = "old" => wanted \in Store /\ reply.id = wanted)
        /\ (reply.type = "notFound" => wanted \notin Store)
    <3>1. Store \subseteq ResultIds
      BY StoredIsProduced
    <3>2. QED
      BY <3>1, FramesAreFrames DEF Replies
  <2>4. wanted \in Store => wanted <= produced
    BY <1>0 DEF Store
  <2>5. slot = id /\ slot # NoId
    <3>1. Head(toController) \in Elements(toController) /\ Head(toController) = Request(id)
      BY <2>2, ElementTaken DEF Answering, WireTyped
    <3>2. Request(id).type = "request" /\ Request(id).id = id
      BY DEF Request
    <3>3. id # NoId
      BY MaxIdAssumption DEF TighteningId, NoId
    <3>4. QED
      BY <3>1, <3>2, <3>3 DEF Exchange
  <2>6. slot # LatestId /\ wanted \notin Store => slot <= evicted
    BY <2>5, NotFoundIsEvicted
  <2> HIDE DEF reply, wanted
  <2>7. QED
    BY <2>2, <2>3, <2>4, <2>6, AnswerGoesOut
<1>6. CASE RefusesRequest
  <2>1. \E id \in TighteningId : Answering(id, Refused)
    <3>1. LatestId \in TighteningId /\ ResultIds \subseteq TighteningId
      BY ResultIdsAreIds, MaxIdAssumption DEF LatestId, TighteningId
    <3>2. QED
      BY <1>6, <3>1 DEF RefusesRequest, Takes, Answering
  <2>2. Refused \in Replies /\ Refused.type = "refused"
    BY FramesAreFrames DEF Replies
  <2>3. QED
    BY <2>1, <2>2, AnswerGoesOut
<1>7. CASE ConnectionLost
  <2>1. toClient' = <<>> /\ toController' = <<>>
    BY <1>7 DEF ConnectionLost
  <2>2. Elements(<<>>) = {}
    BY DEF Elements
  <2>3. QED
    BY <2>1, <2>2, NothingThere DEF Exchange
<1>8. CASE ReadsPush \/ ConsumesPush \/ Delivery \/ TakesAck \/ Pushes \/ Resends
           \/ Elsewhere \/ UNCHANGED flowVars
  <2>1. UNCHANGED slot
    BY <1>8 DEF ReadsPush, ConsumesPush, Delivery, TakesAck, Pushes, Resends, Elsewhere,
       wireVars, flowVars
  <2>2. produced <= produced' /\ evicted <= evicted'
    <3>1. CASE ReadsPush \/ ConsumesPush \/ Delivery \/ TakesAck \/ Pushes \/ Resends
               \/ UNCHANGED flowVars
      BY <1>0, <3>1 DEF ReadsPush, ConsumesPush, Delivery, TakesAck, Pushes, Resends,
         flowVars, vars, recoveryVars
    <3>2. CASE Elsewhere
      BY <1>0, <3>2 DEF Elsewhere, FinishPass, PassWakes, SessionStarts, Subscribes,
         Reconciles, KeepsUp, Polls, Produces, Evicts, HandlerFails
    <3>3. QED
      BY <1>8, <3>1, <3>2
  <2>3. \/ toController' = toController
        \/ toController # <<>> /\ toController' = Tail(toController)
        \/ \E f \in Frame \ Asks : toController' = Append(toController, f)
    <3>1. Ack \in Frame \ Asks
      BY FramesAreFrames DEF Asks
    <3>2. Delivery => toController' = toController \/ toController' = Append(toController, Ack)
      BY DEF Delivery, SendsAck
    <3>3. TakesAck => toController # <<>> /\ toController' = Tail(toController)
      BY DEF TakesAck, Takes
    <3>4. ReadsPush \/ ConsumesPush \/ Pushes \/ Resends \/ Elsewhere \/ UNCHANGED flowVars
             => toController' = toController
      BY DEF ReadsPush, Receives, ConsumesPush, Pushes, Resends, Elsewhere, wireVars, flowVars
    <3>5. QED
      BY <1>8, <3>1, <3>2, <3>3, <3>4
  <2>4. \/ toClient' = toClient
        \/ toClient # <<>> /\ toClient' = Tail(toClient)
        \/ \E f \in Frame \ Replies : toClient' = Append(toClient, f)
    <3>1. \A id \in ResultIds : Push(id) \in Frame \ Replies
      BY FramesAreFrames DEF Replies
    <3>2. ReadsPush => toClient # <<>> /\ toClient' = Tail(toClient)
      BY DEF ReadsPush, Receives
    <3>3. Pushes => pushing' \in ResultIds /\ toClient' = Append(toClient, Push(pushing'))
      BY DEF Pushes, Planned
    <3>4. Resends => pushing \in ResultIds /\ toClient' = Append(toClient, Push(pushing))
      BY DEF Resends, WireTyped
    <3>5. ConsumesPush \/ Delivery \/ TakesAck \/ Elsewhere \/ UNCHANGED flowVars
             => toClient' = toClient
      BY DEF ConsumesPush, Delivery, TakesAck, Elsewhere, wireVars, flowVars
    <3>6. QED
      BY <1>8, <3>1, <3>2, <3>3, <3>4, <3>5
  <2>5. toClient' \in Seq(Frame) /\ toController' \in Seq(Frame)
    BY DEF WireTyped
  <2>6. QED
    BY <1>0, <2>1, <2>2, <2>3, <2>4, <2>5, ExchangeIsKept
<1>9. QED
  BY <1>1, <1>2, <1>3, <1>4, <1>5, <1>6, <1>7, <1>8 DEF FlowNext

(* A reply says what was the case when it was sent, and still is.          *)
LEMMA ReplyIsTrue ==
    ASSUME Planned, SlotIsAsked, WireTyped, Exchange, ReadsReply
    PROVE  /\ StoreKept /\ UNCHANGED <<faults, arrived>>
           /\ \/ LatestRefused \/ \E id \in ResultIds : id <= produced /\ LatestIs(id)
              \/ /\ Asking
                 /\ \/ \E id \in ResultIds : AttemptGets(id)
                    \/ Asked <= evicted /\ AttemptNotFound
                    \/ AttemptRefused
<1>1. StoreKept /\ UNCHANGED <<faults, arrived>> /\ slot # NoId
  BY DEF ReadsReply
<1>2. \A frame : Receives(frame) => frame \in Elements(toClient)
  BY ElementTaken DEF Receives, WireTyped
<1>3. ASSUME NEW id \in ResultIds, Receives(Old(id)), LatestIs(id)
      PROVE  id <= produced
  BY <1>2, <1>3, FramesAreFrames DEF Exchange
<1>4. ASSUME Receives(NotFound), AttemptNotFound
      PROVE  Asked <= evicted
  <2>1. Asking
    BY <1>4 DEF AttemptNotFound
  <2>2. slot = Asked /\ slot # LatestId
    <3>1. pass.at = "asking"
      BY <2>1 DEF Asking
    <3>2. slot = Asked /\ pass.todo # {}
      BY <1>1, <3>1 DEF SlotIsAsked
    <3>3. Asked \in ResultIds
      BY <3>2, AskedIsPlanned DEF Planned
    <3>4. QED
      BY <3>2, <3>3, IdsAreNumbers
  <2>3. QED
    BY <1>2, <1>4, <2>2, FramesAreFrames DEF Exchange
<1>5. \/ \E id \in ResultIds : Receives(Old(id)) /\ (LatestIs(id) \/ AttemptGets(id))
      \/ Receives(NotFound) /\ (LatestRefused \/ AttemptNotFound)
      \/ Receives(Refused) /\ (LatestRefused \/ AttemptRefused)
  BY DEF ReadsReply
<1>6. /\ \A id : AttemptGets(id) => Asking
      /\ AttemptNotFound \/ AttemptRefused => Asking
  BY DEF AttemptGets, AttemptNotFound, AttemptRefused
<1>7. QED
  BY <1>1, <1>3, <1>4, <1>5, <1>6

LEMMA FlowStaysPlanned ==
    ASSUME "silence" \notin FaultKinds, Planned, FlowPlanned, SlotIsAsked, WireTyped,
           Exchange, [FlowNext]_flowVars
    PROVE  Planned'
<1>1. CASE Requests \/ AnswersRequest \/ TakesAck \/ ReadsPush \/ UNCHANGED flowVars
  <2>1. UNCHANGED <<produced, evicted, outbox, pass, writtenOff>>
    BY <1>1 DEF Requests, AnswersRequest, TakesAck, ReadsPush, flowVars, vars, recoveryVars,
       deliveryVars
  <2>2. QED
    BY <2>1 DEF Planned
<1>2. CASE RequestTimesOut \/ ReadsLateReply
  BY <1>2, NoLateReplies DEF RequestTimesOut, Fault
<1>3. CASE ReadsReply
  <2>1. UNCHANGED <<produced, evicted, outbox>>
    BY <1>3, ReplyIsTrue DEF StoreKept
  <2>2. QED
    BY <1>3, <2>1, ReplyIsTrue, LatestSteps, AttemptSteps DEF Tidy
<1>4. CASE ConsumesPush
  <2>1. /\ RecoverGap \/ UNCHANGED pass
        /\ UNCHANGED <<produced, evicted, outbox, writtenOff>>
    BY <1>4 DEF ConsumesPush, SubmitPushed, Submit
  <2>2. pass' \in PassTypes /\ \A i \in pass'.todo : i <= produced
    BY <2>1, RecoverGapIsTyped DEF Planned
  <2>3. QED
    BY <2>1, <2>2 DEF Planned
<1>5. CASE Delivery
  <2>1. DeliveryLoop /\ UNCHANGED <<produced, evicted, outbox, pass>>
    BY <1>5 DEF Delivery, DeliveryLoop, recoveryVars
  <2>2. QED
    BY <2>1, DeliversSteps DEF Tidy
<1>6. CASE RefusesRequest \/ Pushes \/ Resends
  <2>1. UNCHANGED <<produced, evicted, pass, writtenOff>>
    BY <1>6 DEF RefusesRequest, Pushes, Resends, deliveryVars
  <2>2. outbox' \in Seq(ResultIds)
    <3>1. UNCHANGED outbox \/ (outbox # <<>> /\ outbox' = Tail(outbox))
      BY <1>6 DEF RefusesRequest, Pushes, Resends
    <3>2. QED
      BY <3>1, ElementTaken DEF Planned
  <2>3. QED
    BY <2>1, <2>2 DEF Planned
<1>7. CASE ConnectionLost
  BY <1>7, SessionSteps DEF ConnectionLost, SessionFails, Tidy
<1>8. CASE Elsewhere
  <2>1. CASE HandlerFails
    BY <2>1, DeliversSteps DEF HandlerFails, DeliveryLoop, Tidy
  <2>2. QED
    BY <1>8, <2>1, FinishSteps, SessionSteps, ControllerSteps DEF Elsewhere, Tidy
<1>9. QED
  BY <1>1, <1>2, <1>3, <1>4, <1>5, <1>6, <1>7, <1>8 DEF FlowNext

LEMMA FlowKeepsHistory ==
    ASSUME "silence" \notin FaultKinds, DeliveryTyped, Planned, FlowPlanned, SlotIsAsked,
           WireTyped, Exchange, HistoryInv, [FlowNext]_flowVars
    PROVE  HistoryInv'
<1>1. CASE Requests \/ AnswersRequest \/ TakesAck \/ ReadsPush \/ RefusesRequest
           \/ Pushes \/ Resends \/ UNCHANGED flowVars
  <2>1. UNCHANGED <<evicted, pass, window>>
    BY <1>1 DEF Requests, AnswersRequest, TakesAck, ReadsPush, RefusesRequest, Pushes,
       Resends, flowVars, vars, recoveryVars, deliveryVars
  <2>2. QED
    BY <2>1 DEF HistoryInv
<1>2. CASE RequestTimesOut \/ ReadsLateReply
  BY <1>2, NoLateReplies DEF RequestTimesOut, Fault
<1>3. CASE ReadsReply
  <2>1. UNCHANGED evicted
    BY <1>3, ReplyIsTrue DEF StoreKept
  <2>2. QED
    BY <1>3, <2>1, ReplyIsTrue, LatestKeepsHistory, AttemptKeepsHistory
<1>4. CASE ConsumesPush
  <2>1. Head(arrived) \in ResultIds
    BY <1>4 DEF ConsumesPush, FlowPlanned
  <2>2. QED
    BY <1>4, <2>1, PushKeepsHistory DEF ConsumesPush
<1>5. CASE Delivery
  <2>1. DeliveryLoop /\ UNCHANGED <<evicted, pass>>
    BY <1>5 DEF Delivery, DeliveryLoop, recoveryVars
  <2>2. QED
    BY <2>1, OthersKeepHistory
<1>6. CASE ConnectionLost
  BY <1>6, OthersKeepHistory DEF ConnectionLost, SessionFails
<1>7. CASE Elsewhere
  <2>1. CASE HandlerFails
    BY <2>1, OthersKeepHistory DEF HandlerFails, DeliveryLoop
  <2>2. QED
    BY <1>7, <2>1, FinishKeepsHistory, OthersKeepHistory DEF Elsewhere
<1>8. QED
  BY <1>1, <1>2, <1>3, <1>4, <1>5, <1>6, <1>7 DEF FlowNext

-----------------------------------------------------------------------------
(* Nothing is produced under a subscription before recovery knows where it *)
(* starts, when its first request is answered.                             *)

Unmet == window.baseline = NoId /\ ~window.emptyHistory

Contact ==
    /\ session = "down" => pass.at = "idle"
    /\ Unmet => /\ listened = {}
                /\ session = "down" \/ (session = "recovering" /\ pass.at = "latest")

Heard ==
    /\ window.baseline <= produced
    /\ \A id \in listened : id <= produced /\ (id <= window.baseline => id <= evicted)

\* How a step on the wire may move the marks.
EmptyNoted == window'.baseline = window.baseline /\ window'.emptyHistory

BaselineFound ==
    /\ \E id \in ResultIds \cup {0} :
          /\ window'.baseline = id
          /\ id <= evicted \/ (listened = {} /\ id <= produced)
    /\ UNCHANGED <<listened, produced, evicted>>

LEMMA RefusalNotesEmpty ==
    ASSUME DeliveryTyped, NoteEmptyHistory
    PROVE  EmptyNoted
BY DEF DeliveryTyped, NoteEmptyHistory, MarkNoHistory, Window, EmptyNoted

LEMMA ReplyMovesMarks ==
    ASSUME DeliveryTyped, Planned, HistoryInv, SlotIsAsked, WireTyped, Exchange, Contact,
           ReadsReply
    PROVE  /\ MarksKept \/ EmptyNoted \/ BaselineFound
           /\ Unmet => ~Unmet' \/ Asking
<1>0. /\ UNCHANGED <<listened, produced, evicted>>
      /\ Unmet => window.watermark = NoId
  BY ReplyIsTrue DEF StoreKept, Unmet, HistoryInv
<1>1. CASE LatestRefused
  <2>1. CASE window.watermark = NoId
    <3>1. EmptyNoted
      BY <1>1, <2>1, RefusalNotesEmpty DEF LatestRefused
    <3>2. QED
      BY <3>1 DEF EmptyNoted, Unmet
  <2>2. CASE window.watermark # NoId
    BY <1>0, <1>1, <2>2, QueueKeepsMarks DEF LatestRefused
  <2>3. QED
    BY <2>1, <2>2
<1>2. ASSUME NEW id \in ResultIds, id <= produced, LatestIs(id)
      PROVE  /\ MarksKept \/ BaselineFound
             /\ ~Unmet \/ ~Unmet'
  <2>1. CASE window.watermark = NoId /\ ~window.emptyHistory
    <3>1. SetBaseline(id) /\ Unmet
      BY <1>2, <2>1 DEF LatestIs, Unmet, HistoryInv
    <3>2. listened = {}
      BY <3>1 DEF Contact
    <3>3. window'.baseline = id
      BY <2>1, <3>1, MarksOfUpdates DEF SetBaseline, DeliveryTyped
    <3>4. QED
      BY <1>0, <1>2, <3>2, <3>3, IdsAreNumbers DEF BaselineFound, Unmet
  <2>2. CASE window.watermark # NoId \/ window.emptyHistory
    <3>1. UNCHANGED deliveryVars
      BY <1>2, <2>2 DEF LatestIs
    <3>2. ~Unmet
      BY <1>0, <2>2 DEF Unmet
    <3>3. QED
      BY <3>1, <3>2, QueueKeepsMarks
  <2>3. QED
    BY <2>1, <2>2
<1>3. CASE /\ Asking
           /\ (\E id \in ResultIds : AttemptGets(id)) \/ AttemptNotFound \/ AttemptRefused
  <2>1. \/ \E id \in ResultIds, from \in Sources : Submit(id, from)
        \/ WriteOff(Asked) \/ UNCHANGED deliveryVars
    BY <1>3 DEF AttemptGets, AttemptNotFound, AttemptRefused, Sources
  <2>2. Asked \in ResultIds
    BY <1>3, AskedIsPlanned DEF Asking, Planned
  <2>3. QED
    BY <1>3, <2>1, <2>2, QueueKeepsMarks
<1>4. QED
  BY <1>1, <1>2, <1>3, ReplyIsTrue

LEMMA FinishMovesMarks ==
    ASSUME DeliveryTyped, Planned, HistoryInv, FinishPass
    PROVE  MarksKept \/ BaselineFound
<1>1. \/ pass.floor # NoId /\ SetBaseline(pass.floor)
      \/ SetBaseline(0) \/ UNCHANGED deliveryVars
  BY DEF FinishPass
<1>2. /\ pass.floor # NoId => pass.floor \in ResultIds /\ pass.floor <= evicted
      /\ 0 <= evicted /\ UNCHANGED <<listened, produced, evicted>>
  BY DEF Planned, PassTypes, HistoryInv, FinishPass
<1>3. \A id \in ResultIds \cup {0} : SetBaseline(id) => MarksKept \/ MarksSet(id)
  BY BaselineMarks
<1>4. QED
  BY <1>1, <1>2, <1>3, QueueKeepsMarks DEF MarksSet, BaselineFound

LEMMA MarksMove ==
    ASSUME "silence" \notin FaultKinds, DeliveryTyped, Planned, FlowPlanned, HistoryInv,
           SlotIsAsked, WireTyped, Exchange, Contact, [FlowNext]_flowVars
    PROVE  MarksKept \/ EmptyNoted \/ BaselineFound
<1>1. CASE RequestTimesOut \/ ReadsLateReply
  BY <1>1, NoLateReplies DEF RequestTimesOut, Fault
<1>2. CASE Requests \/ AnswersRequest \/ TakesAck \/ ReadsPush \/ RefusesRequest
           \/ Pushes \/ Resends \/ UNCHANGED flowVars
  <2>1. UNCHANGED deliveryVars
    BY <1>2 DEF Requests, AnswersRequest, TakesAck, ReadsPush, RefusesRequest, Pushes,
       Resends, flowVars, vars
  <2>2. QED
    BY <2>1, QueueKeepsMarks
<1>3. CASE ConsumesPush
  <2>1. Head(arrived) \in ResultIds
    BY <1>3 DEF ConsumesPush, FlowPlanned
  <2>2. Submit(Head(arrived), "pushed")
    BY <1>3 DEF ConsumesPush, SubmitPushed
  <2>3. QED
    BY <2>1, <2>2, QueueKeepsMarks DEF Sources
<1>4. CASE Delivery \/ ConnectionLost
  <2>1. DeliveryLoop \/ SessionEnds
    BY <1>4 DEF Delivery, DeliveryLoop, ConnectionLost, SessionFails, SessionLost
  <2>2. QED
    BY <2>1, QueueKeepsMarks
<1>5. CASE Elsewhere
  <2>1. FinishPass \/ DeliveryLoop \/ UNCHANGED deliveryVars
    BY <1>5 DEF Elsewhere, PassWakes, SessionStarts, Subscribes, Reconciles, KeepsUp,
       Polls, Produces, Evicts, HandlerFails, DeliveryLoop
  <2>2. QED
    BY <2>1, FinishMovesMarks, QueueKeepsMarks
<1>6. QED
  BY <1>1, <1>2, <1>3, <1>4, <1>5, ReplyMovesMarks DEF FlowNext

\* What the controller does meanwhile.
LEMMA ControllerMoves ==
    ASSUME Planned, Planned', RecoveryTyped, [FlowNext]_flowVars
    PROVE  /\ produced <= produced' /\ evicted <= evicted'
           /\ \/ UNCHANGED listened
              \/ Produces
<1>0. produced \in Nat /\ evicted \in Nat
  BY ProducedAreResults DEF Planned
<1>1. CASE Requests \/ AnswersRequest \/ TakesAck \/ ReadsPush \/ RefusesRequest
           \/ Pushes \/ Resends \/ ConsumesPush \/ Delivery \/ ReadsLateReply
           \/ UNCHANGED flowVars
  <2>1. UNCHANGED <<produced, evicted, listened>>
    BY <1>1 DEF Requests, AnswersRequest, TakesAck, ReadsPush, RefusesRequest,
       Pushes, Resends, ConsumesPush, Delivery, ReadsLateReply, flowVars, vars, recoveryVars
  <2>2. QED
    BY <1>0, <2>1
<1>2. CASE ReadsReply \/ RequestTimesOut \/ ConnectionLost
  BY <1>0, <1>2 DEF ReadsReply, RequestTimesOut, StoreKept, ConnectionLost, SessionFails,
     SessionLost
<1>3. CASE Elsewhere
  BY <1>0, <1>3 DEF Elsewhere, FinishPass, PassWakes, SessionStarts, Subscribes,
     Reconciles, KeepsUp, Polls, Produces, Evicts, HandlerFails
<1>4. QED
  BY <1>1, <1>2, <1>3 DEF FlowNext

LEMMA HeardStays ==
    ASSUME "silence" \notin FaultKinds, DeliveryTyped, Planned, Planned', FlowPlanned,
           HistoryInv, SlotIsAsked, RecoveryTyped, WireTyped, Exchange, Contact, Heard,
           [FlowNext]_flowVars
    PROVE  Heard'
<1>0. /\ produced \in Nat /\ evicted \in Nat /\ produced' \in Nat /\ evicted' \in Nat
      /\ evicted <= produced /\ window.baseline \in Int
      /\ \A id \in listened : id \in Nat
  <2>1. /\ produced \in Nat /\ evicted \in Nat /\ produced' \in Nat /\ evicted' \in Nat
        /\ evicted <= produced
    BY ProducedAreResults DEF Planned
  <2>2. window.baseline \in Int
    BY DEF DeliveryTyped, Window, TighteningId, NoId
  <2>3. \A id \in listened : id \in Nat
    BY IdsAreNumbers DEF RecoveryTyped
  <2>4. QED
    BY <2>1, <2>2, <2>3
<1>1. /\ produced <= produced' /\ evicted <= evicted'
      /\ UNCHANGED listened \/ Produces
  BY ControllerMoves
<1>2. CASE BaselineFound
  <2>1. PICK id \in ResultIds \cup {0} :
           window'.baseline = id /\ (id <= evicted \/ (listened = {} /\ id <= produced))
    BY <1>2 DEF BaselineFound
  <2>2. id \in Nat
    BY <2>1, IdsAreNumbers
  <2>3. UNCHANGED <<listened, produced, evicted>>
    BY <1>2 DEF BaselineFound
  <2>4. id <= produced
    BY <1>0, <2>1, <2>2
  <2>5. CASE id <= evicted
    <3>1. \A i \in listened : i <= id => i <= evicted
      BY <1>0, <2>2, <2>5
    <3>2. QED
      BY <2>1, <2>3, <2>4, <3>1 DEF Heard
  <2>6. CASE listened = {}
    BY <2>1, <2>3, <2>4, <2>6 DEF Heard
  <2>7. QED
    BY <2>1, <2>5, <2>6
<1>3. CASE window'.baseline = window.baseline
  <2>1. CASE UNCHANGED listened
    BY <1>0, <1>1, <1>3, <2>1 DEF Heard
  <2>2. CASE Produces
    <3>1. /\ produced' = produced + 1 /\ evicted' = evicted
          /\ listened' \subseteq listened \cup {produced'}
      BY <2>2 DEF Produces
    <3>2. ~(produced' <= window.baseline)
      BY <1>0, <3>1 DEF Heard
    <3>3. QED
      BY <1>0, <1>3, <3>1, <3>2 DEF Heard
  <2>3. QED
    BY <1>1, <2>1, <2>2
<1>4. QED
  BY <1>2, <1>3, MarksMove DEF MarksKept, EmptyNoted

(* Until recovery knows where it starts its first pass goes on, or no      *)
(* session is there.                                                       *)
LEMMA ContactStays ==
    ASSUME "silence" \notin FaultKinds, DeliveryTyped, Planned, FlowPlanned, HistoryInv,
           SlotIsAsked, WireTyped, Exchange, Contact, [FlowNext]_flowVars
    PROVE  Contact'
<1>1. Unmet' => Unmet
  <2>1. BaselineFound => ~Unmet'
    BY IdsAreNumbers DEF BaselineFound, Unmet, LatestId
  <2>2. QED
    BY <2>1, MarksMove DEF MarksKept, EmptyNoted, Unmet
<1>2. ASSUME UNCHANGED <<session, listened, pass>>
      PROVE  Contact'
  BY <1>1, <1>2 DEF Contact
<1>3. ASSUME session # "down", session' # "down", ~Unmet
      PROVE  Contact'
  BY <1>1, <1>3 DEF Contact
<1>4. CASE Requests \/ AnswersRequest \/ TakesAck \/ ReadsPush \/ RefusesRequest
           \/ Pushes \/ Resends \/ Delivery \/ UNCHANGED flowVars
  <2>1. UNCHANGED <<session, listened, pass>>
    BY <1>4 DEF Requests, AnswersRequest, TakesAck, ReadsPush, RefusesRequest, Pushes,
       Resends, Delivery, flowVars, vars, recoveryVars
  <2>2. QED
    BY <1>2, <2>1
<1>5. CASE RequestTimesOut \/ ReadsLateReply
  BY <1>5, NoLateReplies DEF RequestTimesOut, Fault
<1>6. CASE ReadsReply
  <2>1. session' = session /\ listened' = listened
    BY <1>6 DEF ReadsReply, StoreKept
  <2>2. session # "down"
    BY <1>6 DEF ReadsReply, Receives, Up
  <2>3. Asking => ~Unmet
    BY DEF Asking, Contact
  <2>4. CASE ~Unmet
    BY <1>3, <2>1, <2>2, <2>4
  <2>5. CASE Unmet
    <3>1. ~Unmet'
      BY <1>6, <2>3, <2>5, ReplyMovesMarks
    <3>2. QED
      BY <2>1, <2>2, <3>1 DEF Contact
  <2>6. QED
    BY <2>4, <2>5
<1>7. CASE ConsumesPush
  <2>1. session = "ready" /\ session' = session /\ listened' = listened
    BY <1>7 DEF ConsumesPush, SubmitPushed
  <2>2. ~Unmet
    BY <2>1 DEF Contact
  <2>3. QED
    BY <1>3, <2>1, <2>2
<1>8. CASE ConnectionLost
  <2>1. session' = "down" /\ pass' = NoPass /\ UNCHANGED listened
    BY <1>8 DEF ConnectionLost, SessionFails, SessionLost
  <2>2. NoPass.at = "idle"
    BY DEF NoPass
  <2>3. QED
    BY <1>1, <2>1, <2>2 DEF Contact
<1>9. CASE Elsewhere
  <2>1. CASE SessionStarts
    <3>1. session = "down" /\ session' = "recovering" /\ UNCHANGED listened
          /\ pass' = IF pass.at = "idle" THEN FirstPass ELSE pass
      BY <2>1 DEF SessionStarts, RecoverGap
    <3>2. FirstPass.at = "latest"
      BY DEF FirstPass, NoPass
    <3>3. QED
      BY <1>1, <3>1, <3>2 DEF Contact
  <2>2. CASE FinishPass \/ PassWakes \/ Subscribes \/ Reconciles \/ KeepsUp \/ Polls
    <3>1. session # "down" /\ session' # "down"
      BY <2>2 DEF FinishPass, PassWakes, Subscribes, Reconciles, KeepsUp, Polls
    <3>2. \/ session = "subscribing" \/ session = "ready"
          \/ pass.at = "asking" \/ pass.at = "sleeping"
      BY <2>2 DEF FinishPass, PassWakes, Subscribes, Reconciles, KeepsUp, Polls
    <3>3. QED
      BY <1>3, <3>1, <3>2 DEF Contact
  <2>3. CASE Produces
    <3>1. /\ UNCHANGED <<session, pass, window>>
          /\ session # "ready" => UNCHANGED listened
      BY <2>3 DEF Produces, deliveryVars
    <3>2. QED
      BY <3>1 DEF Contact, Unmet
  <2>4. CASE Evicts \/ HandlerFails
    BY <1>2, <2>4 DEF Evicts, HandlerFails
  <2>5. QED
    BY <1>9, <2>1, <2>2, <2>3, <2>4 DEF Elsewhere
<1>10. QED
  BY <1>4, <1>5, <1>6, <1>7, <1>8, <1>9 DEF FlowNext

\* What holds of the flow of results while requests are answered in time.
Prompt == Planned /\ HistoryInv /\ Exchange /\ Contact /\ Heard

LEMMA StartsPrompt ==
    ASSUME FlowInit
    PROVE  Prompt
<1>1. /\ produced \in 0 .. MaxProduced /\ evicted = 0 /\ outbox = <<>> /\ session = "down"
      /\ pass = NoPass /\ listened = {} /\ writtenOff = {} /\ window = EmptyWindow
      /\ toClient = <<>> /\ toController = <<>>
  BY BoundsAssumption DEF FlowInit, Init, DeliveryInit
<1>2. NoPass.at = "idle" /\ NoPass.floor = NoId
  BY DEF NoPass
<1>3. EmptyWindow.baseline = NoId /\ EmptyWindow.watermark = NoId /\ ~EmptyWindow.emptyHistory
  BY DEF EmptyWindow
<1>4. produced \in Nat /\ NoId <= produced
  BY <1>1, ProducedAreResults DEF NoId
<1>5. Planned
  BY <1>1, <1>4, PassesAreTyped DEF Planned
<1>6. Exchange
  <2>1. Elements(<<>>) = {}
    BY DEF Elements
  <2>2. QED
    BY <1>1, <2>1, NothingThere DEF Exchange
<1>7. HistoryInv /\ Contact /\ Heard
  BY <1>1, <1>2, <1>3, <1>4 DEF HistoryInv, Contact, Unmet, Heard
<1>8. QED
  BY <1>5, <1>6, <1>7 DEF Prompt

LEMMA AlwaysPrompt ==
    ASSUME "silence" \notin FaultKinds
    PROVE  FlowSpec => []Prompt
<1>1. FlowInit => Prompt
  BY StartsPrompt
<1>2. /\ DeliveryTyped /\ FlowPlanned /\ SlotIsAsked /\ RecoveryTyped /\ WireTyped
      /\ WireTyped' /\ Prompt /\ [FlowNext]_flowVars
      => Prompt'
  <2> SUFFICES ASSUME DeliveryTyped, FlowPlanned, SlotIsAsked, RecoveryTyped, WireTyped,
                      WireTyped', Prompt, [FlowNext]_flowVars
               PROVE  Prompt'
    OBVIOUS
  <2>0. Planned /\ HistoryInv /\ Exchange /\ Contact /\ Heard
    BY DEF Prompt
  <2>1. Planned'
    BY <2>0, FlowStaysPlanned
  <2>2. HistoryInv'
    BY <2>0, FlowKeepsHistory
  <2>3. Exchange'
    BY <2>0, <2>1, ExchangeStays
  <2>4. Contact'
    BY <2>0, ContactStays
  <2>5. Heard'
    BY <2>0, <2>1, HeardStays
  <2>6. QED
    BY <2>1, <2>2, <2>3, <2>4, <2>5 DEF Prompt
<1>3. FlowSpec => []DeliveryTyped
  BY FlowUsesTheQueue, TypedAndGiven, PTL
<1>4. QED
  BY <1>1, <1>2, <1>3, AlwaysFlowPlanned, AlwaysSlotted, AlwaysWired, PTL DEF FlowSpec

(* As long as requests are answered in time no stored result that was      *)
(* produced under a subscription is history, although the baseline may be  *)
(* declared sessions later, from replies that were sent before             *)
(* (ResultRecovery.ts, fetch and findFloor).                               *)
THEOREM HeardIsNeverHistory ==
    ASSUME "silence" \notin FaultKinds
    PROVE  FlowSpec => []HeardIsNotHistory
<1>1. Prompt => HeardIsNotHistory
  <2> SUFFICES ASSUME Prompt, NEW id \in listened, id <= window.baseline, id \in Store
               PROVE  FALSE
    BY DEF HeardIsNotHistory
  <2>1. id <= evicted /\ evicted \in Nat /\ id \in Int /\ evicted + 1 <= id
    BY DEF Prompt, Heard, Planned, Store
  <2>2. QED
    BY <2>1
<1>2. QED
  BY <1>1, AlwaysPrompt, PTL

(* As long as requests are answered in time "not found" is the answer to   *)
(* the request that waits, also over the wire: what is written off is      *)
(* gone, and on a controller that was empty nothing stored is history      *)
(* (ResultRecovery.ts, attempt).                                           *)
THEOREM PromptAnswersAreTrue ==
    ASSUME "silence" \notin FaultKinds
    PROVE  FlowSpec => [](WrittenOffIsGone /\ EmptyControllerHasNoHistory)
<1>1. Prompt => WrittenOffIsGone
  BY DEF Prompt, Planned, WrittenOffIsGone, Store
<1>2. DeliveryTyped /\ Prompt => EmptyControllerHasNoHistory
  BY EmptyHistoryIsBelow DEF Prompt
<1>3. FlowSpec => []DeliveryTyped
  BY FlowUsesTheQueue, TypedAndGiven, PTL
<1>4. QED
  BY <1>1, <1>2, <1>3, AlwaysPrompt, PTL

-----------------------------------------------------------------------------
(* While the connection stays and nothing is sent again, a push is in one  *)
(* place at a time: on the wire, in the buffer, in the queue, with the     *)
(* handler, or back as an acknowledgement.                                 *)

PushFrames == {f \in Frame : f.type = "push"}
Acks == {f \in Frame : f.type = "ack"}
Pushed == {e \in Entry : e.from = "pushed"}

Place == {"none", "wire", "buffer", "queue", "handler", "ack"}

Only(place) ==
    /\ Has(toClient, PushFrames) => place = "wire"
    /\ arrived # <<>> => place = "buffer"
    /\ Has(queue, Pushed) => place = "queue"
    /\ worker.from = "pushed" => place = "handler"
    /\ Has(toController, Acks) => place = "ack" /\ pushing \in handled \cup writtenOff
    /\ pushing = NoId => place = "none"

Token ==
    /\ \E place \in Place : Only(place)
    /\ AtMostOne(toClient, PushFrames) /\ AtMostOne(queue, Pushed)
    /\ AtMostOne(toController, Acks)
    /\ \A f \in Elements(toClient) : f \in PushFrames => f.id = pushing
    /\ \A id \in Elements(arrived) : id = pushing
    /\ \A e \in Elements(queue) : e \in Pushed => e.id = pushing
    /\ worker.from = "pushed" => worker.id = pushing

Accepted == handled \cup writtenOff

\* What a step that has nothing to do with the push may do.
Aside ==
    /\ \/ toClient' = toClient
       \/ toClient # <<>> /\ toClient' = Tail(toClient)
       \/ \E f \in Frame \ PushFrames : toClient' = Append(toClient, f)
    /\ \/ toController' = toController
       \/ toController # <<>> /\ toController' = Tail(toController)
       \/ \E f \in Frame \ Acks : toController' = Append(toController, f)
    /\ \/ queue' = queue
       \/ queue # <<>> /\ queue' = Tail(queue)
       \/ \E e \in Entry \ Pushed : queue' = Append(queue, e)
    /\ arrived' = arrived
    /\ worker'.from = "pushed" => worker.from = "pushed" /\ worker'.id = worker.id
    /\ pushing' = pushing
    /\ Accepted \subseteq Accepted'

LEMMA PushIsLeftAlone ==
    ASSUME DeliveryTyped, WireTyped, Token, Aside
    PROVE  Token'
<1>1. /\ AtMostOne(toClient', PushFrames)
      /\ Has(toClient', PushFrames) => Has(toClient, PushFrames)
      /\ \A f \in Elements(toClient') : f \in PushFrames => f \in Elements(toClient)
  BY NoneAdded DEF WireTyped, Token, Aside
<1>2. /\ AtMostOne(toController', Acks)
      /\ Has(toController', Acks) => Has(toController, Acks)
  BY NoneAdded DEF WireTyped, Token, Aside
<1>3. /\ AtMostOne(queue', Pushed)
      /\ Has(queue', Pushed) => Has(queue, Pushed)
      /\ \A e \in Elements(queue') : e \in Pushed => e \in Elements(queue)
  <2>1. queue \in Seq(Entry)
    BY DEF DeliveryTyped
  <2>2. QED
    BY <2>1, NoneAdded DEF Token, Aside
<1>4. PICK place \in Place : Only(place)
  BY DEF Token
<1>5. /\ arrived' = arrived /\ pushing' = pushing /\ Accepted \subseteq Accepted'
      /\ worker'.from = "pushed" => worker.from = "pushed" /\ worker'.id = worker.id
  BY DEF Aside
<1>6. Only(place)'
  BY <1>1, <1>2, <1>3, <1>4, <1>5 DEF Only, Accepted
<1>7. QED
  BY <1>1, <1>2, <1>3, <1>5, <1>6 DEF Token

\* Where the push is, from one step to the next.
LEMMA PushIsRead ==
    ASSUME DeliveryTyped, WireTyped, FlowPlanned, Token, ReadsPush
    PROVE  Token'
<1>1. PICK id \in ResultIds : Receives(Push(id)) /\ arrived' = Append(arrived, id)
  BY DEF ReadsPush
<1>2. /\ toClient # <<>> /\ Head(toClient) = Push(id) /\ toClient' = Tail(toClient)
      /\ arrived' = <<id>>
      /\ UNCHANGED <<toController, pushing, queue, worker, handled, writtenOff>>
  BY <1>1 DEF ReadsPush, Receives, vars, deliveryVars
<1>3. Push(id) \in PushFrames /\ Push(id).id = id /\ Push(id) \in Elements(toClient)
  BY <1>2, FramesAreFrames, ElementTaken DEF PushFrames, WireTyped
<1>4. Has(toClient, PushFrames) /\ id = pushing
  BY <1>3 DEF Has, Token
<1>5. Only("wire")
  BY <1>4 DEF Token, Only
<1>6. /\ ~Has(toClient', PushFrames) /\ AtMostOne(toClient', PushFrames)
      /\ Elements(toClient') \subseteq Elements(toClient)
  BY <1>2, <1>3, ElementTaken DEF WireTyped, Token
<1>7. \A i \in Elements(arrived') : i = pushing
  BY <1>2, <1>4 DEF Elements
<1>8. Only("buffer")'
  BY <1>2, <1>4, <1>5, <1>6, IdsAreNumbers DEF Only
<1>9. QED
  BY <1>2, <1>6, <1>7, <1>8 DEF Token, Place

LEMMA PushIsSubmitted ==
    ASSUME DeliveryTyped, WireTyped, FlowPlanned, Token, ConsumesPush
    PROVE  Token'
<1> DEFINE entry == [id |-> Head(arrived), from |-> "pushed"]
<1>1. /\ arrived # <<>> /\ arrived' = Tail(arrived) /\ queue' = Append(queue, entry)
      /\ UNCHANGED <<toClient, toController, pushing, worker, handled, writtenOff>>
  BY DEF ConsumesPush, SubmitPushed, Submit
<1>2. /\ arrived' = <<>> /\ Head(arrived) \in ResultIds /\ Head(arrived) \in Elements(arrived)
  <2>1. arrived \in Seq(ResultIds) /\ Len(arrived) <= 1
    BY DEF FlowPlanned, WireTyped
  <2>2. arrived' = <<>>
    BY <1>1, <2>1
  <2>3. QED
    BY <1>1, <2>1, <2>2, ElementTaken
<1>3. /\ entry \in Pushed /\ entry \in Entry /\ entry.id = Head(arrived)
      /\ Head(arrived) = pushing /\ pushing # NoId
  BY <1>2, IdsAreNumbers DEF Entry, Sources, Pushed, Token
<1> HIDE DEF entry
<1>4. Only("buffer")
  BY <1>1 DEF Token, Only
<1>5. ~Has(queue, Pushed)
  BY <1>4 DEF Only
<1>6. /\ AtMostOne(queue', Pushed) /\ Elements(queue') = Elements(queue) \cup {entry}
  BY <1>1, <1>3, <1>5, ElementAdded DEF DeliveryTyped, Token
<1>7. \A e \in Elements(queue') : e \in Pushed => e.id = pushing
  BY <1>3, <1>6 DEF Token
<1>8. Only("queue")'
  BY <1>1, <1>2, <1>3, <1>4 DEF Only
<1>9. \A id \in Elements(arrived') : id = pushing
  BY <1>2 DEF Elements
<1>10. QED
  BY <1>1, <1>6, <1>7, <1>8, <1>9 DEF Token, Place

\* The acknowledgement goes out, or is lost for want of a session.
LEMMA AckGoesOut ==
    ASSUME WireTyped, Token, NEW place \in {"queue", "handler"}, Only(place),
           toController' = Append(toController, Ack) \/ UNCHANGED toController,
           UNCHANGED <<toClient, arrived, pushing>>,
           AtMostOne(queue', Pushed), ~Has(queue', Pushed),
           \A e \in Elements(queue') : e \in Pushed => e.id = pushing,
           worker'.from # "pushed", pushing \in Accepted'
    PROVE  Token'
<1>1. Ack \in Acks /\ Ack \in Frame
  BY FramesAreFrames DEF Acks
<1>2. ~Has(toController, Acks) /\ ~Has(toClient, PushFrames) /\ arrived = <<>>
      /\ pushing # NoId
  BY DEF Only
<1>3. AtMostOne(toController', Acks)
  <2>1. AtMostOne(toController, Acks) /\ toController \in Seq(Frame)
    BY DEF WireTyped, Token
  <2>2. AtMostOne(Append(toController, Ack), Acks)
    BY <1>1, <1>2, <2>1, ElementAdded
  <2>3. QED
    BY <2>1, <2>2
<1>4. Only("ack")'
  BY <1>2 DEF Only, Accepted
<1>5. QED
  BY <1>3, <1>4 DEF Token, Place

LEMMA PushIsDelivered ==
    ASSUME DeliveryTyped, WireTyped, Token, AckedWasAccepted', Delivery
    PROVE  Token'
<1>0. /\ UNCHANGED <<toClient, arrived, pushing>>
      /\ queue \in Seq(Entry) /\ worker \in Work \cup {NoWork}
  BY DEF Delivery, DeliveryTyped
<1>1. ASSUME queue # <<>>
      PROVE  /\ Head(queue) \in Entry /\ Head(queue) \in Elements(queue)
             /\ Head(queue).from = "pushed" => Head(queue) \in Pushed
             /\ Tail(queue) \in Seq(Entry) /\ AtMostOne(Tail(queue), Pushed)
             /\ Elements(Tail(queue)) \subseteq Elements(queue)
             /\ Head(queue) \in Pushed => ~Has(Tail(queue), Pushed)
  BY <1>0, <1>1, ElementTaken DEF Pushed, Token
<1>2. ASSUME queue # <<>>, Head(queue).from = "pushed"
      PROVE  Only("queue") /\ Head(queue).id = pushing
  <2>1. Has(queue, Pushed)
    BY <1>1, <1>2 DEF Has
  <2>2. QED
    BY <1>1, <1>2, <2>1 DEF Token, Only
<1>3. CASE TakeDuplicate /\ SendsAck(Head(queue))
  <2>1. /\ queue # <<>> /\ queue' = Tail(queue) /\ UNCHANGED <<worker, handled, writtenOff>>
        /\ worker = NoWork /\ Acknowledge(Head(queue))
    BY <1>3 DEF TakeDuplicate
  <2>2. worker.from # "pushed"
    BY <2>1 DEF NoWork
  <2>3. CASE Head(queue).from = "pushed"
    <3>1. pushing \in Accepted'
      BY <1>2, <2>1, <2>3 DEF Acknowledge, AckedWasAccepted, Accepted
    <3>2. toController' = Append(toController, Ack) \/ UNCHANGED toController
      BY <1>3 DEF SendsAck
    <3>3. \A e \in Elements(queue') : e \in Pushed => e.id = pushing
      BY <1>1, <2>1 DEF Token
    <3>4. QED
      BY <1>0, <1>1, <1>2, <2>1, <2>2, <2>3, <3>1, <3>2, <3>3, AckGoesOut
  <2>4. CASE Head(queue).from # "pushed"
    <3>1. UNCHANGED toController
      BY <1>3, <2>4 DEF SendsAck
    <3>2. QED
      BY <1>0, <2>1, <3>1, PushIsLeftAlone DEF Aside, Accepted
  <2>5. QED
    BY <2>3, <2>4
<1>4. CASE HandlerSucceeds /\ SendsAck(worker)
  <2>1. /\ worker # NoWork /\ worker' = NoWork /\ UNCHANGED <<queue, writtenOff>>
        /\ handled' = handled \cup {worker.id}
    BY <1>4 DEF HandlerSucceeds
  <2>2. worker'.from # "pushed"
    BY <2>1 DEF NoWork
  <2>3. CASE worker.from = "pushed"
    <3>1. Only("handler") /\ worker.id = pushing
      BY <2>3 DEF Token, Only
    <3>2. toController' = Append(toController, Ack) \/ UNCHANGED toController
      BY <1>4 DEF SendsAck
    <3>3. pushing \in Accepted'
      BY <2>1, <3>1 DEF Accepted
    <3>4. /\ AtMostOne(queue', Pushed) /\ ~Has(queue', Pushed)
          /\ \A e \in Elements(queue') : e \in Pushed => e.id = pushing
      BY <2>1, <3>1 DEF Token, Only
    <3>5. QED
      BY <1>0, <2>2, <3>1, <3>2, <3>3, <3>4, AckGoesOut
  <2>4. CASE worker.from # "pushed"
    <3>1. UNCHANGED toController
      BY <1>4, <2>4 DEF SendsAck
    <3>2. QED
      BY <1>0, <2>1, <2>2, <3>1, PushIsLeftAlone DEF Aside, Accepted
  <2>5. QED
    BY <2>3, <2>4
<1>5. CASE TakeNew /\ UNCHANGED toController
  <2>1. /\ queue # <<>> /\ queue' = Tail(queue) /\ worker = NoWork
        /\ worker' = [id |-> Head(queue).id, from |-> Head(queue).from, left |-> HandlerAttempts]
        /\ UNCHANGED <<handled, writtenOff>>
    BY <1>5 DEF TakeNew
  <2>2. CASE Head(queue).from = "pushed"
    <3>1. /\ Only("queue") /\ worker'.id = pushing /\ worker'.from = "pushed"
          /\ ~Has(queue', Pushed) /\ AtMostOne(queue', Pushed)
      BY <1>1, <1>2, <2>1, <2>2
    <3>2. Only("handler")'
      BY <1>0, <1>5, <2>1, <3>1 DEF Only
    <3>3. \A e \in Elements(queue') : e \in Pushed => e.id = pushing
      BY <1>1, <2>1 DEF Token
    <3>4. QED
      BY <1>0, <1>5, <3>1, <3>2, <3>3 DEF Token, Place
  <2>3. CASE Head(queue).from # "pushed"
    <3>1. worker'.from # "pushed"
      BY <2>1, <2>3
    <3>2. QED
      BY <1>0, <1>5, <2>1, <3>1, PushIsLeftAlone DEF Aside, Accepted
  <2>4. QED
    BY <2>2, <2>3
<1>6. QED
  BY <1>3, <1>4, <1>5 DEF Delivery

LEMMA PushGoesOut ==
    ASSUME WireTyped, FlowPlanned, Token, Pushes
    PROVE  Token'
<1>1. /\ pushing = NoId /\ pushing' \in ResultIds /\ toClient' = Append(toClient, Push(pushing'))
      /\ UNCHANGED <<toController, arrived, queue, worker, handled, writtenOff>>
  BY DEF Pushes, FlowPlanned, deliveryVars
<1>2. Only("none")
  BY <1>1 DEF Token, Only
<1>3. /\ ~Has(toClient, PushFrames) /\ arrived = <<>> /\ ~Has(queue, Pushed)
      /\ worker.from # "pushed" /\ ~Has(toController, Acks)
  BY <1>2 DEF Only
<1>4. Push(pushing') \in Frame /\ Push(pushing').id = pushing'
  BY <1>1, FramesAreFrames
<1>5. /\ AtMostOne(toClient', PushFrames)
      /\ Elements(toClient') = Elements(toClient) \cup {Push(pushing')}
  BY <1>1, <1>3, <1>4, ElementAdded DEF WireTyped, Token
<1>6. \A f \in Elements(toClient') : f \in PushFrames => f.id = pushing'
  BY <1>3, <1>4, <1>5 DEF Has
<1>7. Elements(arrived') = {} /\ \A e \in Elements(queue') : e \notin Pushed
  BY <1>1, <1>3 DEF Elements, Has
<1>8. Only("wire")'
  BY <1>1, <1>3, IdsAreNumbers DEF Only
<1>9. QED
  BY <1>1, <1>3, <1>5, <1>6, <1>7, <1>8 DEF Token, Place

LEMMA PushIsAcknowledged ==
    ASSUME WireTyped, Token, SettledWasAccepted, TakesAck
    PROVE  Token' /\ SettledWasAccepted'
<1>1. /\ toController # <<>> /\ Head(toController) = Ack /\ toController' = Tail(toController)
      /\ UNCHANGED <<toClient, arrived, queue, worker, handled, writtenOff>>
      /\ pushing' = NoId
      /\ settled' = IF pushing # NoId THEN settled \cup {pushing} ELSE settled
  BY DEF TakesAck, Takes, vars, deliveryVars
<1>2. Ack \in Acks /\ Ack \in Elements(toController)
  BY <1>1, FramesAreFrames, ElementTaken DEF Acks, WireTyped
<1>3. Has(toController, Acks)
  BY <1>2 DEF Has
<1>4. Only("ack") /\ pushing \in handled \cup writtenOff
  BY <1>3 DEF Token, Only
<1>5. /\ ~Has(toClient, PushFrames) /\ arrived = <<>> /\ ~Has(queue, Pushed)
      /\ worker.from # "pushed"
  BY <1>4 DEF Only
<1>6. ~Has(toController', Acks) /\ AtMostOne(toController', Acks)
  BY <1>1, <1>2, ElementTaken DEF WireTyped, Token
<1>7. Only("none")'
  BY <1>1, <1>5, <1>6 DEF Only
<1>8. /\ Elements(arrived') = {} /\ \A e \in Elements(queue') : e \notin Pushed
      /\ \A f \in Elements(toClient') : f \notin PushFrames
  BY <1>1, <1>5 DEF Elements, Has
<1>9. Token'
  BY <1>1, <1>5, <1>6, <1>7, <1>8 DEF Token, Place
<1>10. SettledWasAccepted'
  BY <1>1, <1>4 DEF SettledWasAccepted
<1>11. QED
  BY <1>9, <1>10

\* What the queue sees of a step that is neither a push nor a delivery.
LEMMA QueueSeesNoPush ==
    ASSUME DeliveryTyped,
           \/ UNCHANGED deliveryVars
           \/ \E id \in ResultIds, from \in Sources \ {"pushed"} : Submit(id, from)
           \/ \E id : WriteOff(id) \/ SetBaseline(id)
           \/ NoteEmptyHistory \/ HandlerRetries \/ HandlerGivesUp
    PROVE  /\ queue' = queue \/ \E e \in Entry \ Pushed : queue' = Append(queue, e)
           /\ worker'.from = "pushed" => worker.from = "pushed" /\ worker'.id = worker.id
           /\ Accepted \subseteq Accepted'
<1>1. ASSUME NEW id \in ResultIds, NEW from \in Sources \ {"pushed"}, Submit(id, from)
      PROVE  /\ \E e \in Entry \ Pushed : queue' = Append(queue, e)
             /\ UNCHANGED <<worker, handled, writtenOff>>
  <2>1. [id |-> id, from |-> from] \in Entry \ Pushed
    BY DEF Entry, Pushed, Sources
  <2>2. QED
    BY <1>1, <2>1 DEF Submit
<1>2. ASSUME NEW id, WriteOff(id) \/ SetBaseline(id)
      PROVE  UNCHANGED <<queue, worker>> /\ Accepted \subseteq Accepted'
  BY <1>2 DEF WriteOff, SetBaseline, Accepted
<1>3. CASE HandlerRetries
  <2>1. /\ worker \in Work /\ worker' = [worker EXCEPT !.left = @ - 1]
        /\ UNCHANGED <<queue, handled, writtenOff>>
    BY <1>3 DEF HandlerRetries, DeliveryTyped
  <2>2. worker'.from = worker.from /\ worker'.id = worker.id
    BY <2>1 DEF Work
  <2>3. QED
    BY <2>1, <2>2 DEF Accepted
<1>4. CASE HandlerGivesUp
  <2>1. worker' = NoWork /\ UNCHANGED <<queue, handled, writtenOff>>
    BY <1>4 DEF HandlerGivesUp
  <2>2. QED
    BY <2>1 DEF NoWork, Accepted
<1>5. CASE NoteEmptyHistory \/ UNCHANGED deliveryVars
  BY <1>5 DEF NoteEmptyHistory, deliveryVars, Accepted
<1>6. QED
  BY <1>1, <1>2, <1>3, <1>4, <1>5 DEF Accepted

LEMMA TokenStays ==
    ASSUME "session" \notin FaultKinds, "resend" \notin FaultKinds,
           DeliveryTyped, FlowPlanned, RecoveryTyped, SlotIsAsked, WireTyped,
           AckedWasAccepted', Token, SettledWasAccepted, [FlowNext]_flowVars
    PROVE  Token' /\ SettledWasAccepted'
<1>1. CASE TakesAck
  BY <1>1, PushIsAcknowledged
<1>2. ~TakesAck => UNCHANGED settled
  BY DEF FlowNext, Requests, RequestTimesOut, ReadsReply, ReadsLateReply, ReadsPush, Receives,
     ConsumesPush, Delivery, AnswersRequest, RefusesRequest, Pushes, Resends, ConnectionLost,
     Elsewhere, wireVars, flowVars
<1>3. ~Resends /\ ~ConnectionLost
  BY DEF Resends, ConnectionLost, SessionFails, Fault
<1>4. CASE Delivery \/ ReadsPush \/ ConsumesPush \/ Pushes
  <2>1. Token'
    BY <1>4, PushIsRead, PushIsSubmitted, PushIsDelivered, PushGoesOut
  <2>2. Accepted \subseteq Accepted'
    BY <1>4 DEF Delivery, TakeDuplicate, TakeNew, HandlerSucceeds, ReadsPush, ConsumesPush,
       SubmitPushed, Submit, Pushes, vars, deliveryVars, Accepted
  <2>3. UNCHANGED settled
    BY <1>2, <1>4 DEF Delivery, ReadsPush, Receives, ConsumesPush, Pushes
  <2>4. QED
    BY <2>1, <2>2, <2>3 DEF SettledWasAccepted, Accepted
<1>5. ASSUME Aside, UNCHANGED settled
      PROVE  Token' /\ SettledWasAccepted'
  BY <1>5, PushIsLeftAlone DEF Aside, SettledWasAccepted, Accepted
<1>6. ASSUME \/ UNCHANGED deliveryVars
             \/ \E id \in ResultIds, from \in Sources \ {"pushed"} : Submit(id, from)
             \/ \E id : WriteOff(id) \/ SetBaseline(id)
             \/ NoteEmptyHistory \/ HandlerRetries \/ HandlerGivesUp,
             UNCHANGED <<arrived, pushing, settled>>,
             \/ toClient' = toClient
             \/ toClient # <<>> /\ toClient' = Tail(toClient)
             \/ \E f \in Frame \ PushFrames : toClient' = Append(toClient, f),
             \/ toController' = toController
             \/ toController # <<>> /\ toController' = Tail(toController)
             \/ \E f \in Frame \ Acks : toController' = Append(toController, f)
      PROVE  Token' /\ SettledWasAccepted'
  <2>1. /\ queue' = queue \/ \E e \in Entry \ Pushed : queue' = Append(queue, e)
        /\ worker'.from = "pushed" => worker.from = "pushed" /\ worker'.id = worker.id
        /\ Accepted \subseteq Accepted'
    BY <1>6, QueueSeesNoPush
  <2>2. Aside
    BY <1>6, <2>1 DEF Aside
  <2>3. QED
    BY <1>5, <1>6, <2>2
<1>7. CASE Requests
  <2>1. slot' \in ResultIds \cup {LatestId}
    BY <1>7, AskedIsPlanned DEF Requests, WaitsForLatest, Asking, FlowPlanned
  <2>2. Request(slot') \in Frame \ Acks
    BY <2>1, FramesAreFrames DEF Acks
  <2>3. QED
    BY <1>6, <1>7, <2>2 DEF Requests, vars
<1>8. CASE RequestTimesOut
  <2>1. UNCHANGED <<deliveryVars, toClient, toController, arrived, pushing, settled>>
    BY <1>8 DEF RequestTimesOut, LatestSilent, AttemptSilent
  <2>2. QED
    BY <1>6, <2>1
<1>9. CASE ReadsReply
  <2>1. /\ toClient # <<>> /\ toClient' = Tail(toClient)
        /\ UNCHANGED <<toController, arrived, pushing, settled>>
    BY <1>9 DEF ReadsReply, Receives
  <2>2. \/ \E id \in ResultIds : LatestIs(id) \/ AttemptGets(id)
        \/ LatestRefused \/ AttemptNotFound \/ AttemptRefused
    BY <1>9 DEF ReadsReply
  <2>3. \/ UNCHANGED deliveryVars
        \/ \E id \in ResultIds, from \in Sources \ {"pushed"} : Submit(id, from)
        \/ \E id : WriteOff(id) \/ SetBaseline(id)
        \/ NoteEmptyHistory
    BY <2>2 DEF LatestIs, AttemptGets, LatestRefused, AttemptNotFound, AttemptRefused, Sources
  <2>4. QED
    BY <1>6, <2>1, <2>3
<1>10. CASE ReadsLateReply
  <2>1. /\ toClient # <<>> /\ toClient' = Tail(toClient)
        /\ UNCHANGED <<toController, arrived, pushing, settled>>
    BY <1>10 DEF ReadsLateReply, Receives
  <2>2. \/ UNCHANGED deliveryVars
        \/ \E id \in ResultIds, from \in Sources \ {"pushed"} : Submit(id, from)
    BY <1>10 DEF ReadsLateReply, Sources
  <2>3. QED
    BY <1>6, <2>1, <2>2
<1>11. CASE AnswersRequest
  <2>1. /\ toController # <<>> /\ toController' = Tail(toController)
        /\ UNCHANGED <<deliveryVars, arrived, pushing, settled>>
    BY <1>11 DEF AnswersRequest, Takes, vars
  <2>2. \E f \in Frame \ PushFrames : toClient' = Append(toClient, f)
    <3>1. \E wanted : toClient' = Append(toClient, IF wanted \in Store THEN Old(wanted) ELSE NotFound)
      BY <1>11 DEF AnswersRequest
    <3>2. Store \subseteq ResultIds
      BY StoreIsResults DEF FlowPlanned, RecoveryTyped
    <3>3. /\ NotFound \in Frame \ PushFrames
          /\ \A id \in ResultIds : Old(id) \in Frame \ PushFrames
      BY FramesAreFrames DEF PushFrames
    <3>4. QED
      BY <3>1, <3>2, <3>3
  <2>3. QED
    BY <1>6, <2>1, <2>2
<1>12. CASE RefusesRequest
  <2>1. /\ toController # <<>> /\ toController' = Tail(toController)
        /\ toClient' = Append(toClient, Refused)
        /\ UNCHANGED <<deliveryVars, arrived, pushing, settled>>
    BY <1>12 DEF RefusesRequest, Takes
  <2>2. Refused \in Frame \ PushFrames
    BY FramesAreFrames DEF PushFrames
  <2>3. QED
    BY <1>6, <2>1, <2>2
<1>13. CASE Elsewhere
  <2>1. UNCHANGED <<toClient, toController, arrived, pushing, settled>>
    BY <1>13 DEF Elsewhere, wireVars
  <2>2. \/ UNCHANGED deliveryVars
        \/ \E id : SetBaseline(id)
        \/ HandlerRetries \/ HandlerGivesUp
    BY <1>13 DEF Elsewhere, FinishPass, PassWakes, SessionStarts, Subscribes, Reconciles,
       KeepsUp, Polls, Produces, Evicts, HandlerFails
  <2>3. QED
    BY <1>6, <2>1, <2>2
<1>14. CASE UNCHANGED flowVars
  BY <1>6, <1>14 DEF flowVars, vars, wireVars
<1>15. QED
  BY <1>1, <1>3, <1>4, <1>7, <1>8, <1>9, <1>10, <1>11, <1>12, <1>13, <1>14 DEF FlowNext

(* A result counts as acknowledged at the controller only when the handler *)
(* accepted it or recovery found it gone, although MID 0062 does not say   *)
(* what it acknowledges.  It takes that the connection stays and that the  *)
(* controller sends nothing twice: of two copies on their way, the second  *)
(* acknowledgement would settle the next push, and so would one for a push *)
(* of the connection before (ControllerSimulator.ts push, ResultDelivery.ts). *)
THEOREM SettledWasAlwaysAccepted ==
    ASSUME "session" \notin FaultKinds, "resend" \notin FaultKinds
    PROVE  FlowSpec => []SettledWasAccepted
<1>1. ASSUME FlowInit PROVE Token /\ SettledWasAccepted
  <2>1. /\ toClient = <<>> /\ toController = <<>> /\ arrived = <<>> /\ queue = <<>>
        /\ worker = NoWork /\ settled = {}
    BY <1>1 DEF FlowInit, Init, DeliveryInit
  <2>2. Elements(<<>>) = {}
    BY DEF Elements
  <2>3. NoWork.from # "pushed"
    BY DEF NoWork
  <2>4. Only("none")
    BY <2>1, <2>3, NothingThere DEF Only
  <2>5. QED
    BY <2>1, <2>2, <2>3, <2>4, NothingThere DEF Token, Place, SettledWasAccepted
<1>2. DeliveryTyped /\ FlowPlanned /\ RecoveryTyped /\ SlotIsAsked /\ WireTyped
      /\ AckedWasAccepted' /\ Token /\ SettledWasAccepted /\ [FlowNext]_flowVars
      => Token' /\ SettledWasAccepted'
  BY TokenStays
<1>3. FlowSpec => [](DeliveryTyped /\ AckedWasAccepted)
  BY FlowUsesTheQueue, TypedAndGiven, AckedWasAlwaysAccepted, PTL
<1>4. QED
  BY <1>1, <1>2, <1>3, AlwaysFlowPlanned, AlwaysSlotted, AlwaysWired, PTL DEF FlowSpec

=============================================================================
