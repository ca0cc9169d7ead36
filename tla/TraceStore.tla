------------------------------- MODULE TraceStore -------------------------------
(***************************************************************************)
(* packages/store: the SQLite file every traced event is recorded into.    *)
(* The events table as the sequence of its rows; the id of a row is its    *)
(* place, because ids only grow and nothing is deleted.  A row refers to   *)
(* the event by its number in the trace of its run.  Several processes     *)
(* write into the file; SQLite lets one statement in at a time, and makes  *)
(* the others fail when it is busy for too long.                           *)
(***************************************************************************)
EXTENDS Naturals, Sequences, SequencesExt

CONSTANTS
    ThisRun,        \* the run that is recorded here
    OtherRun,       \* the run of the process at the other end of the link
    MaxOthers       \* how many rows that process writes

VARIABLES
    rows,           \* the events table
    ended           \* the runs whose end is stamped

\* Runs and the rows of the events table.
RunId == {ThisRun, OtherRun}
TracedEvent == [run : RunId, event : Nat]

StoreTypeOK ==
    /\ rows \in Seq(TracedEvent)
    /\ ended \subseteq RunId

StoreInit == rows = <<>> /\ ended = {}

RowOf(event) == [run |-> ThisRun, event |-> event]

\* writeEvents, insertEvents: one statement, which inserts all of them.
InsertEvents(batch) == rows' = rows \o [i \in DOMAIN batch |-> RowOf(batch[i])]

\* The other process inserts an event of its own run.
OtherInserts ==
    /\ Len(SelectSeq(rows, LAMBDA row : row.run = OtherRun)) < MaxOthers
    /\ rows' = Append(rows, [run |-> OtherRun, event |-> 1])
    /\ UNCHANGED ended

\* endRun.
EndRun == ended' = ended \cup {ThisRun}

IdsOf(run, after) ==
    SelectSeq([i \in DOMAIN rows |-> i], LAMBDA id : rows[id].run = run /\ id > after)

\* events: the ids of a page after a cursor, oldest first.
EventsAfter(run, after, limit) ==
    LET ids == IdsOf(run, after) IN SubSeq(ids, 1, Min({limit, Len(ids)}))

\* The numbers of the events of this run that are stored.
Stored == {rows[id].event : id \in {i \in DOMAIN rows : rows[i].run = ThisRun}}

=============================================================================
