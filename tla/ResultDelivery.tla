--------------------------- MODULE ResultDelivery ---------------------------
(***************************************************************************)
(* The delivery queue of one device, results/ResultDelivery.ts: results    *)
(* wait in a bounded queue for one fiber that hands them to the            *)
(* application handler, and a pushed result is acknowledged only after.    *)
(*                                                                         *)
(* Results come from three sequential fibers of the session: the consumer  *)
(* of the results subscription ("pushed"), the recovery pass ("recovery")  *)
(* and the reader, for a stored result nobody waits for any more           *)
(* ("reader").  Only the first kind has an acknowledgement.                *)
(*                                                                         *)
(* The window is shared with gap recovery, whose updates appear here as    *)
(* WriteOff, SetBaseline and NoteEmptyHistory; module GapRecovery says     *)
(* when they happen.                                                       *)
(***************************************************************************)
EXTENDS DedupWindow, FiniteSets

CONSTANTS
    ResultIds,          \* identifiers of results
    ResultBuffer,       \* results that may wait for the handler
    HandlerAttempts     \* calls of the handler before it is given up on

\* The overflow at MaxId is the subject of module Dedup.
ASSUME ResultIdsBelowMaxId == ResultIds \subseteq 1 .. (MaxId - 1)
ASSUME ResultBufferAssumption == ResultBuffer \in Nat \ {0}
ASSUME HandlerAttemptsAssumption == HandlerAttempts \in Nat \ {0}

VARIABLES
    window,     \* Dedup: what was delivered, written off and claimed
    queue,      \* results waiting for the handler, offers that wait included
    worker,     \* the result the handler is working on
    handled,    \* history: results the handler accepted
    writtenOff, \* history: results recovery remembered as gone
    acked       \* history: pushed results whose acknowledgement was run

deliveryVars == <<window, queue, worker, handled, writtenOff, acked>>

Sources == {"pushed", "recovery", "reader"}
Entry == [id : ResultIds, from : Sources]

NoWork == [id |-> NoId, from |-> "reader", left |-> 0]
Work == [id : ResultIds, from : Sources, left : 1 .. HandlerAttempts]

\* Queue.bounded holds ResultBuffer entries.  The entries behind them are
\* offers that wait for room, in the order they were made; the fiber that
\* made one waits with it.
Blocked(from) ==
    \E i \in DOMAIN queue : i > ResultBuffer /\ queue[i].from = from

InFlight(id) ==
    \/ \E i \in DOMAIN queue : queue[i].id = id
    \/ worker.id = id

DeliveryInit ==
    /\ window = EmptyWindow
    /\ queue = <<>>
    /\ worker = NoWork
    /\ handled = {}
    /\ writtenOff = {}
    /\ acked = {}

-----------------------------------------------------------------------------
\* enqueue: the claim comes first, then the offer, which may have to wait.
Submit(id, from) ==
    /\ ~Blocked(from)
    /\ window' = Claim(window, id)
    /\ queue' = Append(queue, [id |-> id, from |-> from])
    /\ UNCHANGED <<worker, handled, writtenOff, acked>>

Acknowledge(entry) ==
    acked' = IF entry.from = "pushed" THEN acked \cup {entry.id} ELSE acked

\* Mutant of TakeDuplicate: only a pushed duplicate, the one with an
\* acknowledgement to repeat, is taken.
TakePushedDuplicate ==
    /\ worker = NoWork
    /\ queue # <<>>
    /\ Seen(window, Head(queue).id)
    /\ Head(queue).from = "pushed"
    /\ window' = Release(window, Head(queue).id)
    /\ queue' = Tail(queue)
    /\ Acknowledge(Head(queue))
    /\ UNCHANGED <<worker, handled, writtenOff>>

\* deliver, on a result the window has seen: redeliver.
TakeDuplicate ==
    /\ worker = NoWork
    /\ queue # <<>>
    /\ Seen(window, Head(queue).id)
    /\ window' = Release(window, Head(queue).id)
    /\ queue' = Tail(queue)
    /\ Acknowledge(Head(queue))
    /\ UNCHANGED <<worker, handled, writtenOff>>

\* deliver, on a new result: handle calls the handler.
TakeNew ==
    /\ worker = NoWork
    /\ queue # <<>>
    /\ ~Seen(window, Head(queue).id)
    /\ worker' = [id   |-> Head(queue).id, from |-> Head(queue).from,
                  left |-> HandlerAttempts]
    /\ queue' = Tail(queue)
    /\ UNCHANGED <<window, handled, writtenOff, acked>>

\* Mutant of HandlerSucceeds: drops the claim and remembers nothing.
HandlerSucceedsUnrecorded ==
    /\ worker # NoWork
    /\ window' = Release(window, worker.id)
    /\ handled' = handled \cup {worker.id}
    /\ Acknowledge(worker)
    /\ worker' = NoWork
    /\ UNCHANGED <<queue, writtenOff>>

HandlerSucceeds ==
    /\ worker # NoWork
    /\ window' = Remember(window, worker.id)
    /\ handled' = handled \cup {worker.id}
    /\ Acknowledge(worker)
    /\ worker' = NoWork
    /\ UNCHANGED <<queue, writtenOff>>

\* handlerRetry allows another call.
HandlerRetries ==
    /\ worker # NoWork
    /\ worker.left > 1
    /\ worker' = [worker EXCEPT !.left = @ - 1]
    /\ UNCHANGED <<window, queue, handled, writtenOff, acked>>

\* Mutant of HandlerGivesUp: keeps the claim.
HandlerGivesUpClaimed ==
    /\ worker # NoWork
    /\ worker.left = 1
    /\ worker' = NoWork
    /\ UNCHANGED <<window, queue, handled, writtenOff, acked>>

\* The last failure drops the claim and does not acknowledge.
HandlerGivesUp ==
    /\ worker # NoWork
    /\ worker.left = 1
    /\ window' = Release(window, worker.id)
    /\ worker' = NoWork
    /\ UNCHANGED <<queue, handled, writtenOff, acked>>

\* The session ends and interrupts its fibers: their waiting offers leave
\* the queue.  What is in the queue stays, the loop belongs to the connection.
OffersInterrupted ==
    queue' = [i \in DOMAIN queue \cap (1 .. ResultBuffer) |-> queue[i]]

SessionEnds ==
    /\ OffersInterrupted
    /\ UNCHANGED <<window, worker, handled, writtenOff, acked>>

\* Updates of gap recovery.
WriteOff(id) ==
    /\ window' = Remember(window, id)
    /\ writtenOff' = writtenOff \cup {id}
    /\ UNCHANGED <<queue, worker, handled, acked>>

SetBaseline(id) ==
    /\ window' = MarkBaseline(window, id)
    /\ UNCHANGED <<queue, worker, handled, writtenOff, acked>>

NoteEmptyHistory ==
    /\ window' = MarkNoHistory(window)
    /\ UNCHANGED <<queue, worker, handled, writtenOff, acked>>

DeliveryLoop ==
    TakeDuplicate \/ TakeNew \/ HandlerSucceeds \/ HandlerRetries \/ HandlerGivesUp

DeliveryNext ==
    \/ \E id \in ResultIds, from \in Sources : Submit(id, from)
    \/ DeliveryLoop
    \/ SessionEnds
    \/ \E id \in ResultIds : WriteOff(id)
    \/ \E id \in ResultIds \cup {0} : SetBaseline(id)
    \/ NoteEmptyHistory

DeliverySpec == DeliveryInit /\ [][DeliveryNext]_deliveryVars

-----------------------------------------------------------------------------
(* The state of the delivery queue is of its types, and at most one offer  *)
(* of each fiber waits behind a full queue.                                *)
DeliveryTypeOK ==
    /\ window \in Window
    /\ queue \in Seq(Entry)
    /\ Len(queue) <= ResultBuffer + Cardinality(Sources)
    /\ worker \in Work \cup {NoWork}
    /\ handled \subseteq ResultIds
    /\ writtenOff \subseteq ResultIds
    /\ acked \subseteq ResultIds

(* Above the baseline the handler accepts a result at most once, however   *)
(* often it is pushed, resent, recovered or both, and whatever the bounded *)
(* window evicted: the handler is never given a result it already          *)
(* accepted.                                                               *)
HandledOnce ==
    worker # NoWork /\ worker.id > window.baseline => worker.id \notin handled

(* The client runs the acknowledgement of a pushed result only when the    *)
(* handler accepted that result, or it was given up as gone: the           *)
(* controller may forget what is acknowledged.                             *)
AckedWasAccepted == acked \subseteq handled \cup writtenOff

(* What the handler accepted stays known: recovery never asks again for a  *)
(* result above the baseline that was delivered, and a later resend of it  *)
(* is a duplicate.                                                         *)
AcceptedStaysSeen ==
    \A id \in handled : id > window.baseline => Seen(window, id)

(* Backpressure ends: a fiber that waits behind a full queue goes on, also *)
(* when the handler fails.                                                 *)
BackpressureEnds == \A from \in Sources : Blocked(from) ~> ~Blocked(from)

=============================================================================
