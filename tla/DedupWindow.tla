---------------------------- MODULE DedupWindow ----------------------------
(***************************************************************************)
(* The duplicate window of one device, results/Dedup.ts: what the client   *)
(* remembers of the results it was given.  The window is the record the    *)
(* code keeps in one Ref; every operation of the interface is an operator  *)
(* from a window to a window, so the delivery queue and gap recovery can   *)
(* share one, as they do in the code.                                      *)
(*                                                                         *)
(* An optional identifier (Option<TighteningId>) is NoId when absent.      *)
(***************************************************************************)
EXTENDS Integers, Sequences, FiniteSets

CONSTANTS
    MaxId,      \* largest TighteningId, 4294967295 in the code
    Capacity    \* identifiers the window keeps, dedupCapacity

ASSUME MaxIdAssumption == MaxId \in Nat \ {0}
ASSUME CapacityAssumption == Capacity \in Nat \ {0}

TighteningId == 0 .. MaxId
NoId == -1

Window ==
    [ids          : SUBSET TighteningId,    \* membership of the last Capacity
     order        : Seq(TighteningId),      \* the same, oldest first
     watermark    : TighteningId \cup {NoId},
     ahead        : SUBSET TighteningId,    \* delivered above the watermark
     emptyHistory : BOOLEAN,
     baseline     : TighteningId \cup {NoId},
     claimed      : SUBSET TighteningId]    \* handed to delivery, not handled

EmptyWindow ==
    [ids          |-> {},
     order        |-> <<>>,
     watermark    |-> NoId,
     ahead        |-> {},
     emptyHistory |-> FALSE,
     baseline     |-> NoId,
     claimed      |-> {}]

(***************************************************************************)
(* advance(from, ahead): the recursion over consecutive identifiers stops  *)
(* at the first one that is not in ahead.  AdvancedMark is where it stops. *)
(* On its way it builds the identifier after the mark, and the brand       *)
(* TighteningId.make throws above MaxId: AdvanceThrows.                    *)
(***************************************************************************)
IsAdvancedMark(m, from, ahead) ==
    /\ from <= m
    /\ \A i \in TighteningId : from < i /\ i <= m => i \in ahead
    /\ m + 1 \notin ahead

AdvancedMark(from, ahead) ==
    CHOOSE m \in TighteningId : IsAdvancedMark(m, from, ahead)

AdvanceThrows(from, ahead) == AdvancedMark(from, ahead) = MaxId

Above(mark, ahead) == {i \in ahead : i > mark}

\* The identifiers advance walked over leave ahead; those at or below its
\* starting point stay where they are.
Unwalked(from, ahead) ==
    {i \in ahead : i <= from \/ i > AdvancedMark(from, ahead)}

-----------------------------------------------------------------------------
(* The answers of the interface.                                           *)

\* Mutant of Seen: trusts the bounded window alone.
SeenInWindow(w, id) == id \in w.ids

Seen(w, id) ==
    \/ id \in w.ids
    \/ id \in w.ahead
    \/ /\ w.baseline # NoId /\ id > w.baseline
       /\ w.watermark # NoId /\ id <= w.watermark

Known(w, id) == Seen(w, id) \/ id \in w.claimed

-----------------------------------------------------------------------------
(* The updates of the interface.                                           *)

\* record: a new identifier goes last, and pushes the oldest out of a full
\* window.
Record(w, id) ==
    IF id \in w.ids
    THEN w
    ELSE IF Len(w.order) < Capacity
         THEN [w EXCEPT !.ids = @ \cup {id}, !.order = Append(@, id)]
         ELSE [w EXCEPT !.ids = (@ \ {Head(w.order)}) \cup {id},
                        !.order = Append(Tail(@), id)]

ClosesGap(w, id) == w.watermark # NoId /\ id = w.watermark + 1

RememberThrows(w, id) ==
    ClosesGap(w, id) /\ AdvanceThrows(id, w.ahead \ {id})

\* Mutant of Remember: a closed gap drops every result that waits.
RememberDropsAhead(w, id) ==
    LET kept == [Record(w, id) EXCEPT !.claimed = @ \ {id}]
    IN  IF ClosesGap(w, id)
        THEN [kept EXCEPT !.watermark = AdvancedMark(id, w.ahead \ {id}),
                          !.ahead = {}]
        ELSE [kept EXCEPT !.ahead = @ \cup {id}]

\* Outside the gap the identifier waits in ahead, also when it lies at or
\* below the watermark.
Remember(w, id) ==
    LET kept == [Record(w, id) EXCEPT !.claimed = @ \ {id}]
    IN  IF ClosesGap(w, id)
        THEN [kept EXCEPT !.watermark = AdvancedMark(id, w.ahead \ {id}),
                          !.ahead = Unwalked(id, @ \ {id})]
        ELSE [kept EXCEPT !.ahead = @ \cup {id}]

MarkBaselineThrows(w, id) ==
    w.watermark = NoId /\ AdvanceThrows(id, Above(id, w.ahead))

\* Mutant of MarkBaseline: every baseline counts.
MarkBaselineAgain(w, id) ==
    [w EXCEPT !.baseline = id,
              !.watermark = AdvancedMark(id, Above(id, w.ahead)),
              !.ahead = Unwalked(id, Above(id, @))]

\* Only the first baseline counts.
MarkBaseline(w, id) ==
    IF w.watermark # NoId
    THEN w
    ELSE [w EXCEPT !.baseline = id,
                   !.watermark = AdvancedMark(id, Above(id, w.ahead)),
                   !.ahead = Unwalked(id, Above(id, @))]

MarkNoHistory(w) == [w EXCEPT !.emptyHistory = TRUE]

Claim(w, id) == [w EXCEPT !.claimed = @ \cup {id}]

Release(w, id) == [w EXCEPT !.claimed = @ \ {id}]

=============================================================================
