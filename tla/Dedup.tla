------------------------------- MODULE Dedup -------------------------------
(***************************************************************************)
(* The duplicate window as a state machine: the operations of Dedup.ts in  *)
(* any order, on any identifier.  Each is one Ref.update, so each is one   *)
(* step.  An update whose computation throws leaves the Ref as it was and  *)
(* kills its caller.                                                       *)
(*                                                                         *)
(* remembered is a history variable: every identifier the window was asked *)
(* to remember, with nothing ever forgotten.  The window is bounded; the   *)
(* properties below say what it still answers as if it were not.           *)
(***************************************************************************)
EXTENDS DedupWindow, FiniteSets

CONSTANT ResultIds      \* identifiers of results

ASSUME ResultIdsAssumption == ResultIds \subseteq TighteningId

VARIABLES window, remembered
vars == <<window, remembered>>

Init ==
    /\ window = EmptyWindow
    /\ remembered = {}

RememberResult(id) ==
    /\ remembered' = remembered \cup {id}
    /\ window' = IF RememberThrows(window, id) THEN window
                                               ELSE Remember(window, id)

SetBaseline(id) ==
    /\ window' = IF MarkBaselineThrows(window, id) THEN window
                                                   ELSE MarkBaseline(window, id)
    /\ UNCHANGED remembered

NoteEmptyHistory ==
    /\ window' = MarkNoHistory(window)
    /\ UNCHANGED remembered

ClaimResult(id) ==
    /\ window' = Claim(window, id)
    /\ UNCHANGED remembered

ReleaseResult(id) ==
    /\ window' = Release(window, id)
    /\ UNCHANGED remembered

Next ==
    \/ \E id \in ResultIds : RememberResult(id)
    \/ \E id \in ResultIds \cup {0} : SetBaseline(id)
    \/ NoteEmptyHistory
    \/ \E id \in ResultIds : ClaimResult(id)
    \/ \E id \in ResultIds : ReleaseResult(id)

Spec == Init /\ [][Next]_vars

-----------------------------------------------------------------------------
(* TypeOK: the window holds identifiers, and its two views of the last     *)
(* Capacity identifiers are one set, without repetition, that fits.        *)
TypeOK ==
    /\ window \in Window
    /\ remembered \subseteq ResultIds

(* The set and the queue of Dedup.ts are kept by hand, in record: they     *)
(* must name the same identifiers, each once, and never more than          *)
(* Capacity of them, or an eviction removes the wrong one.                 *)
WindowAgrees ==
    /\ Len(window.order) <= Capacity
    /\ window.ids = {window.order[i] : i \in 1 .. Len(window.order)}
    /\ \A i, j \in 1 .. Len(window.order) :
          window.order[i] = window.order[j] => i = j

(* Above the baseline (and everywhere while there is none) the bounded     *)
(* window answers seen exactly as an unbounded set would, whatever was     *)
(* evicted in between.                                                     *)
ExactAboveBaseline ==
    \A id \in ResultIds :
        id > window.baseline => (Seen(window, id) <=> id \in remembered)

(* No result is ever taken for a duplicate that was never remembered, not  *)
(* even one the baseline declared history: it could not be delivered.      *)
NothingFalselySeen ==
    \A id \in ResultIds : Seen(window, id) => id \in remembered

(* The watermark is the exact end of the unbroken run above the baseline:  *)
(* it never skips a missing result, and never lags behind a closed gap.    *)
WatermarkIsTight ==
    window.watermark # NoId =>
        /\ window.baseline # NoId /\ window.baseline <= window.watermark
        /\ \A id \in TighteningId :
              window.baseline < id /\ id <= window.watermark
              => id \in remembered
        /\ window.watermark + 1 \notin remembered

(* The baseline is decided once, and the watermark recovery starts from    *)
(* never moves back.                                                       *)
ProgressIsKept ==
    [][/\ window.watermark # NoId => window'.watermark >= window.watermark
       /\ window.baseline # NoId => window'.baseline = window.baseline]_vars

(* The window implements an unbounded memory of what was delivered above   *)
(* the baseline: as far as seen can tell, nothing is ever evicted.         *)
Memory == INSTANCE DuplicateMemory WITH
    Never     <- NoId,
    start     <- window.baseline,
    delivered <- {id \in ResultIds : id > window.baseline /\ Seen(window, id)}

ImplementsMemory == Memory!Spec

=============================================================================
