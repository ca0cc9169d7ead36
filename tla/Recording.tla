------------------------------- MODULE Recording -------------------------------
(***************************************************************************)
(* cli/Recording.ts: traced events are offered to an unbounded queue; one  *)
(* fiber writes them in batches.  When the scope of the recording closes,  *)
(* that fiber is interrupted, what is left is written and the run is       *)
(* stamped ended.  A batch that cannot be written is dropped, so that a    *)
(* trace never takes the run with it.                                      *)
(***************************************************************************)
EXTENDS TraceStore

CONSTANT BatchSize      \* the most events written in one statement

ASSUME BatchSizeAssumption == BatchSize \in Nat \ {0}

VARIABLES
    traced,     \* the events offered so far
    queue,      \* the numbers of those nobody has taken
    batch,      \* the numbers of those being written
    dropped,    \* the numbers of those a failed statement lost
    stage,      \* how far the recording is
    due         \* how many events had been offered when its scope closed

recordingVars == <<rows, ended, traced, queue, batch, dropped, stage, due>>

Stages == {"off", "recording", "stopping", "flushing", "ended", "exited", "killed"}

RecordingTypeOK ==
    /\ StoreTypeOK
    /\ queue \in Seq(DOMAIN traced)
    /\ batch \in Seq(DOMAIN traced)
    /\ dropped \subseteq DOMAIN traced
    /\ stage \in Stages
    /\ due \in 0 .. Len(traced)

\* A store that cannot be opened costs a warning and turns recording off.
RecordingInit(opened) ==
    /\ StoreInit
    /\ traced = <<>> /\ queue = <<>> /\ batch = <<>> /\ dropped = {} /\ due = 0
    /\ stage = IF opened THEN "recording" ELSE "off"

\* The sink: the queue takes an event whether or not anyone reads it.
Offers(events) ==
    /\ traced' = traced \o events
    /\ queue' = IF stage = "off" THEN queue
                ELSE queue \o [i \in DOMAIN events |-> Len(traced) + i]
    /\ UNCHANGED <<rows, ended, batch, dropped, stage, due>>

\* The writer takes what is there.  The events of one socket operation are
\* offered one after the other, so it may wake up between two of them.
TakesBatch ==
    /\ stage = "recording" /\ batch = <<>>
    /\ \E n \in 1 .. Min({BatchSize, Len(queue)}) :
         /\ batch' = SubSeq(queue, 1, n)
         /\ queue' = SubSeq(queue, n + 1, Len(queue))
    /\ UNCHANGED <<rows, ended, traced, dropped, stage, due>>

\* write.
WritesBatch ==
    /\ batch # <<>>
    /\ \/ InsertEvents(batch) /\ UNCHANGED dropped
       \/ dropped' = dropped \cup Range(batch) /\ UNCHANGED rows
    /\ batch' = <<>>
    /\ UNCHANGED <<ended, traced, queue, stage, due>>

\* The finalizer begins: the writer is interrupted, which waits for a write.
ScopeCloses ==
    /\ stage = "recording"
    /\ stage' = "stopping" /\ due' = Len(traced)
    /\ UNCHANGED <<rows, ended, traced, queue, batch, dropped>>

\* Mutant of ClearsQueue: what the writer left is not written.
ClearsNothing ==
    /\ stage = "stopping" /\ batch = <<>>
    /\ stage' = "flushing"
    /\ UNCHANGED <<rows, ended, traced, queue, batch, dropped, due>>

\* Queue.clear: all that is left is one last batch.
ClearsQueue ==
    /\ stage = "stopping" /\ batch = <<>>
    /\ stage' = "flushing" /\ batch' = queue /\ queue' = <<>>
    /\ UNCHANGED <<rows, ended, traced, dropped, due>>

\* endRun, or the warning that the run could not be closed.
EndsRun ==
    /\ stage = "flushing" /\ batch = <<>>
    /\ stage' = "ended"
    /\ EndRun \/ UNCHANGED ended
    /\ UNCHANGED <<rows, traced, queue, batch, dropped, due>>

\* The process is killed: what was not written is gone, the run stays open.
IsKilled ==
    /\ stage \notin {"off", "exited", "killed"}
    /\ stage' = "killed" /\ queue' = <<>> /\ batch' = <<>>
    /\ dropped' = dropped \cup Range(queue) \cup Range(batch)
    /\ UNCHANGED <<rows, ended, traced, due>>

Records ==
    \/ TakesBatch \/ WritesBatch \/ ClearsQueue \/ EndsRun

-----------------------------------------------------------------------------

\* Once the run is over, what was traced before its scope closed is in the
\* store, unless a statement failed (Recording.ts:81-90).
EndedRunIsComplete == stage \in {"ended", "exited"} => 1 .. due \subseteq Stored \cup dropped

=============================================================================
