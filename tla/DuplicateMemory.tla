--------------------------- MODULE DuplicateMemory ---------------------------
(***************************************************************************)
(* What the duplicate window promises, without a bound and without a       *)
(* watermark: the set of results delivered above the point where recovery  *)
(* starts.  Declaring that point drops what lies at or below it.           *)
(***************************************************************************)
EXTENDS Integers

CONSTANTS
    ResultIds,      \* identifiers of results
    Never           \* start, before it is declared: below every identifier

VARIABLES delivered, start
vars == <<delivered, start>>

Init ==
    /\ delivered = {}
    /\ start = Never

Deliver(id) ==
    /\ id > start
    /\ delivered' = delivered \cup {id}
    /\ UNCHANGED start

DeclareStart(id) ==
    /\ start = Never
    /\ start' = id
    /\ delivered' = {d \in delivered : d > id}

Next ==
    \/ \E id \in ResultIds : Deliver(id)
    \/ \E id \in ResultIds \cup {0} : DeclareStart(id)

Spec == Init /\ [][Next]_vars

=============================================================================
