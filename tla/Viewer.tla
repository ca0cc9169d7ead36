--------------------------------- MODULE Viewer ---------------------------------
(***************************************************************************)
(* apps/ui: a page shows a run.  The server renders the first events, the  *)
(* live feed pages through the rest: it polls the store after a cursor of  *)
(* its own, and is opened again, from what the browser holds, whenever it  *)
(* ends.  Pages on their way when it ends are lost.                        *)
(***************************************************************************)
EXTENDS TraceStore

CONSTANTS
    FirstPage,      \* events the server renders
    PageSize,       \* most events in one message of the feed
    MaxFeeds        \* how often the feed is opened

ASSUME PagesAssumption == FirstPage \in Nat \ {0} /\ PageSize \in Nat \ {0}

VARIABLES
    open,       \* is the page loaded
    held,       \* the ids of the events the browser has
    feed,       \* is a live connection open
    cursor,     \* where the server's side of it stands
    pages,      \* pages sent that have not arrived
    feeds       \* connections opened so far

viewVars == <<open, held, feed, cursor, pages, feeds>>

ViewTypeOK ==
    /\ open \in BOOLEAN /\ feed \in BOOLEAN
    /\ held \in Seq(DOMAIN rows)
    /\ cursor \in 0 .. Len(rows)
    /\ pages \in Seq(Seq(DOMAIN rows))
    /\ feeds \in 0 .. MaxFeeds

ViewInit ==
    /\ open = FALSE /\ held = <<>> /\ feed = FALSE /\ cursor = 0 /\ pages = <<>> /\ feeds = 0

\* cursorOf: the newest event the browser holds.
CursorOf(events) == IF events = <<>> THEN 0 ELSE Last(events)

\* Page: rendered with the first events; the atom keeps what it is seeded with.
LoadsPage ==
    /\ ~open
    /\ open' = TRUE
    /\ held' = EventsAfter(ThisRun, 0, FirstPage)
    /\ UNCHANGED <<feed, cursor, pages, feeds>>

\* Mutant of FeedOpens: the server resumes after the newest event it has.
FeedOpensAtEnd ==
    /\ open /\ ~feed /\ feeds < MaxFeeds
    /\ feed' = TRUE /\ cursor' = Len(rows) /\ feeds' = feeds + 1
    /\ UNCHANGED <<open, held, pages>>

\* liveAtom, connection: the cursor is read when the connection opens.
FeedOpens ==
    /\ open /\ ~feed /\ feeds < MaxFeeds
    /\ feed' = TRUE /\ cursor' = CursorOf(held) /\ feeds' = feeds + 1
    /\ UNCHANGED <<open, held, pages>>

\* feed, nextPage: a page that is not empty is sent, and the cursor moves.
FeedPolls ==
    LET page == EventsAfter(ThisRun, cursor, PageSize)
    IN  /\ feed /\ page # <<>>
        /\ cursor' = Last(page)
        /\ pages' = Append(pages, page)
        /\ UNCHANGED <<open, held, feed, feeds>>

\* append: what the browser has already is left out.
PageArrives ==
    /\ feed /\ pages # <<>>
    /\ held' = held \o SelectSeq(Head(pages), LAMBDA id : id > CursorOf(held))
    /\ pages' = Tail(pages)
    /\ UNCHANGED <<open, feed, cursor, feeds>>

\* The request fails, or the server ends it after its lifetime.  The last
\* connection the bound allows stays.
FeedEnds ==
    /\ feed /\ feeds < MaxFeeds
    /\ feed' = FALSE /\ pages' = <<>>
    /\ UNCHANGED <<open, held, cursor, feeds>>

Views == LoadsPage \/ FeedOpens \/ FeedPolls \/ PageArrives

-----------------------------------------------------------------------------

=============================================================================
