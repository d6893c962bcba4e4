------------------------------- MODULE History -------------------------------
(***************************************************************************)
(* Paging through the history: list_history returns the newest rows first, *)
(* and the cursor of a page names its last row.  Between two pages other   *)
(* clients create analyses.  created_at is read from the clock, so several *)
(* rows may carry the same instant; the random id decides between them.    *)
(* A cursor carries a time of UTC without its zone.  SQLite stores times    *)
(* without a zone too; PostgreSQL reads it in the zone of its session.      *)
(***************************************************************************)
EXTENDS Integers, Sequences, FiniteSets

CONSTANTS
    Ids,       \* the ids uuid4 may return, ordered as the database orders them
    Zones,     \* how far the zone of a database session may be ahead of UTC; 0 on SQLite
    PageLimit, \* the page size a client asks for
    LastTime,  \* bound on the clock
    MaxPages   \* bound on the pages a client reads

ASSUME HistoryAssumption ==
    /\ Ids \subseteq Nat /\ IsFiniteSet(Ids)
    /\ Zones \subseteq Int
    /\ PageLimit \in Nat \ {0}
    /\ LastTime \in Nat
    /\ MaxPages \in Nat

VARIABLES
    zone,     \* the zone of the database session
    created,  \* created_at of each row, Absent for an id without a row
    now,
    cursor,   \* next_cursor of the last page: Start before the first, End after the last
    listed,   \* the ids the client has received, in order
    initial,  \* the rows there were when the client asked for the first page
    pages     \* the pages read

historyVars == <<zone, created, now, cursor, listed, initial, pages>>

Absent == -1
Rows == {i \in Ids : created[i] # Absent}
Start == <<LastTime + 1, 0>>
End == <<-1, 0>>

\* created_at DESC, id DESC.
Newer(i, j) == created[i] > created[j] \/ (created[i] = created[j] /\ i > j)

\* created_at.replace(tzinfo=None): the instant for which the database takes it.
CursorTime == cursor[1] - zone

\* Slip: the row the cursor names is listed again.
BeyondOrAt(i) ==
    \/ cursor = Start
    \/ created[i] < CursorTime
    \/ created[i] = CursorTime /\ i <= cursor[2]

\* The WHERE clause of a page that has a cursor.
Beyond(i) ==
    \/ cursor = Start
    \/ created[i] < CursorTime
    \/ created[i] = CursorTime /\ i < cursor[2]

Selected == {i \in Rows : Beyond(i)}
Rank(i) == Cardinality({j \in Selected : Newer(j, i)})

\* The first limit rows of the selection, newest first.
PageSize == IF Cardinality(Selected) > PageLimit THEN PageLimit ELSE Cardinality(Selected)
Page == [r \in 1 .. PageSize |-> CHOOSE i \in Selected : Rank(i) = r - 1]
-----------------------------------------------------------------------------
HistoryInit ==
    /\ zone \in Zones
    /\ created = [i \in Ids |-> Absent]
    /\ now = 0
    /\ cursor = Start
    /\ listed = <<>>
    /\ initial = {}
    /\ pages = 0

\* create_queued commits a row with the current time.
CreateQueued(i) ==
    /\ i \notin Rows
    /\ created' = [created EXCEPT ![i] = now]
    /\ UNCHANGED <<zone, now, cursor, listed, initial, pages>>

Tick ==
    /\ now < LastTime
    /\ now' = now + 1
    /\ UNCHANGED <<zone, created, cursor, listed, initial, pages>>

\* Slip: the cursor names the row that was read beyond the page.
NextCursorBeyond ==
    IF \E i \in Selected : Rank(i) = PageLimit
    THEN LET beyond == CHOOSE i \in Selected : Rank(i) = PageLimit
         IN  <<created[beyond], beyond>>
    ELSE End

\* One row beyond the page tells whether there is a next one.
NextCursor ==
    IF Cardinality(Selected) > PageLimit
    THEN LET last == Page[PageSize] IN <<created[last], last>>
    ELSE End

ListHistory ==
    /\ cursor # End
    /\ pages < MaxPages
    /\ pages' = pages + 1
    /\ listed' = listed \o Page
    /\ cursor' = NextCursor
    /\ initial' = IF cursor = Start THEN Rows ELSE initial
    /\ UNCHANGED <<zone, created, now>>

HistoryNext ==
    \/ \E i \in Ids : CreateQueued(i)
    \/ Tick \/ ListHistory

HistorySpec == HistoryInit /\ [][HistoryNext]_historyVars
-----------------------------------------------------------------------------
\* The values the state can take.
TypeOK ==
    /\ zone \in Zones
    /\ created \in [Ids -> -1 .. LastTime]
    /\ now \in 0 .. LastTime
    /\ listed \in Seq(Ids)
    /\ initial \subseteq Ids
    /\ cursor \in {Start, End} \cup ((0 .. LastTime) \X Ids)
    /\ pages \in 0 .. MaxPages

\* "comparing the same UTC instant retains the `(created_at DESC, id DESC)` ordering on both
\* SQLite and PostgreSQL" (list_history): the pages follow each other in that order, in a
\* session of any zone.  PostgreSQL takes the time without a zone for another instant: west
\* of UTC rows of an earlier page come again.
OrderRetained == \A a, b \in DOMAIN listed : a < b => Newer(listed[a], listed[b])

\* A client that follows the cursors never receives an analysis twice, and receives them
\* in the order of the whole history, whatever is created between the pages
\* (decode_cursor, list_history), unless the session is west of UTC (see OrderRetained).
PagesInOrder ==
    /\ TypeOK
    /\ zone >= 0 => OrderRetained

\* Once the last page is read, no analysis that existed at the first is missing
\* (encode_cursor, list_history).  East of UTC PostgreSQL skips rows.
NothingMissed ==
    zone <= 0 /\ cursor = End => initial \subseteq {listed[a] : a \in DOMAIN listed}
=============================================================================
