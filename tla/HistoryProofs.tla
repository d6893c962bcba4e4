----------------------------- MODULE HistoryProofs -----------------------------
(***************************************************************************)
(* The pages of the history for every set of ids, page size, clock and     *)
(* zone.  The order of the rows decides between any two of them, so a page *)
(* is the first part of the selection, and its last row, which the cursor  *)
(* names, separates what is listed from what is not.                       *)
(***************************************************************************)
EXTENDS History, FiniteSetTheorems, TLAPS

\* Every row that is listed is in the table.
ListedRows == \A a \in DOMAIN listed : listed[a] \in Rows

\* Between two pages the cursor names the last row that is listed.
CursorNamesLast ==
    /\ cursor = Start => listed = <<>> /\ initial = {}
    /\ cursor \notin {Start, End} =>
          /\ listed # <<>>
          /\ cursor = <<created[listed[Len(listed)]], listed[Len(listed)]>>

Sorted == zone >= 0 => \A a, b \in DOMAIN listed : a < b => Newer(listed[a], listed[b])

\* A row of the first page's table is listed or the cursor is still ahead of it.
StillAhead ==
    zone <= 0 =>
        \A i \in initial : \/ \E a \in DOMAIN listed : listed[a] = i
                           \/ cursor # End /\ Beyond(i)

IInv ==
    /\ TypeOK
    /\ ListedRows
    /\ CursorNamesLast
    /\ initial \subseteq Rows
    /\ Sorted
    /\ StillAhead

-----------------------------------------------------------------------------
\* The order of the history decides between any two rows.
LEMMA NewerOrders ==
    ASSUME TypeOK
    PROVE  /\ \A i \in Rows : i \in Ids /\ i \in Nat /\ created[i] \in 0 .. LastTime
           /\ \A i \in Rows : ~Newer(i, i)
           /\ \A i, j, k \in Rows : Newer(i, j) /\ Newer(j, k) => Newer(i, k)
           /\ \A i, j \in Rows : i # j => Newer(i, j) \/ Newer(j, i)
<1>1. \A i \in Rows : i \in Ids /\ i \in Nat /\ created[i] \in 0 .. LastTime
    BY HistoryAssumption DEF HistoryAssumption, TypeOK, Rows, Absent
<1>2. LastTime \in Nat
    BY HistoryAssumption DEF HistoryAssumption
<1> QED
    BY <1>1, <1>2 DEF Newer

\* A selection is finite, and of two of its rows the newer has the smaller rank.
LEMMA NewerRanksLower ==
    ASSUME TypeOK
    PROVE  /\ IsFiniteSet(Selected) /\ Cardinality(Selected) \in Nat
           /\ \A i \in Selected : Rank(i) \in 0 .. Cardinality(Selected) - 1
           /\ \A i, j \in Selected : Newer(i, j) => Rank(i) < Rank(j)
<1> DEFINE Ahead(i) == {j \in Selected : Newer(j, i)}
<1>1. IsFiniteSet(Selected) /\ Cardinality(Selected) \in Nat
    <2>1. Selected \in SUBSET Ids /\ IsFiniteSet(Ids)
        BY HistoryAssumption DEF HistoryAssumption, Selected, Rows
    <2> QED
        BY <2>1, FS_Subset, FS_CardinalityType
<1>2. ASSUME NEW i \in Selected
      PROVE  /\ IsFiniteSet(Ahead(i)) /\ Rank(i) = Cardinality(Ahead(i))
             /\ Rank(i) \in 0 .. Cardinality(Selected) - 1
    <2>1. Ahead(i) \in SUBSET (Selected \ {i})
        BY NewerOrders DEF Selected
    <2>2. IsFiniteSet(Selected \ {i}) /\ Cardinality(Selected \ {i}) = Cardinality(Selected) - 1
        BY <1>1, FS_RemoveElement
    <2>3. IsFiniteSet(Ahead(i)) /\ Cardinality(Ahead(i)) <= Cardinality(Selected) - 1
        BY <2>1, <2>2, FS_Subset
    <2>4. Cardinality(Ahead(i)) \in Nat
        BY <2>3, FS_CardinalityType
    <2> QED
        BY <1>1, <2>3, <2>4 DEF Rank
<1>3. ASSUME NEW i \in Selected, NEW j \in Selected, Newer(i, j)
      PROVE  Rank(i) < Rank(j)
    <2>1. Ahead(i) \in SUBSET Ahead(j) /\ i \in Ahead(j) /\ i \notin Ahead(i)
        BY <1>3, NewerOrders DEF Selected
    <2>2. IsFiniteSet(Ahead(j)) /\ Rank(i) = Cardinality(Ahead(i)) /\ Rank(j) = Cardinality(Ahead(j))
          /\ Rank(i) \in Int /\ Rank(j) \in Int
        BY <1>1, <1>2
    <2>3. Cardinality(Ahead(i)) <= Cardinality(Ahead(j))
          /\ Cardinality(Ahead(i)) # Cardinality(Ahead(j))
        BY <2>1, <2>2, FS_Subset
    <2> QED
        BY <2>2, <2>3
<1> QED
    BY <1>1, <1>2, <1>3

\* Every rank below the size of the selection is that of exactly one row.
LEMMA RanksAreTaken ==
    ASSUME TypeOK
    PROVE  /\ \A i, j \in Selected : Rank(i) = Rank(j) => i = j
           /\ \A r \in 0 .. Cardinality(Selected) - 1 : \E i \in Selected : Rank(i) = r
<1> DEFINE n == Cardinality(Selected)
           rank == [i \in Selected |-> Rank(i)]
           P == 0 .. n - 1
<1>1. IsFiniteSet(Selected) /\ n \in Nat
    BY NewerRanksLower
<1>2. \A i, j \in Selected : Rank(i) = Rank(j) => i = j
    <2> SUFFICES ASSUME NEW i \in Selected, NEW j \in Selected, Rank(i) = Rank(j), i # j
                 PROVE  FALSE
        OBVIOUS
    <2>1. Newer(i, j) \/ Newer(j, i)
        BY NewerOrders DEF Selected
    <2> QED
        BY <1>1, <2>1, NewerRanksLower
<1>3. IsFiniteSet(P) /\ Cardinality(P) = n
    BY <1>1, FS_Interval
<1>4. rank \in [Selected -> P]
    BY NewerRanksLower
<1> HIDE DEF P
<1>5. rank \in Injection(Selected, P)
    BY <1>2, <1>4 DEF Injection, IsInjective
<1>6. rank \in Surjection(Selected, P)
    BY <1>1, <1>3, <1>5, FS_Injection
<1>7. \A r \in P : \E i \in Selected : rank[i] = r
    BY <1>6 DEF Surjection
<1>8. \A r \in P : \E i \in Selected : Rank(i) = r
    BY <1>7
<1> QED
    BY <1>2, <1>8 DEF P

\* A page: the rows of the selection in their order, from the newest on, as many as the
\* limit allows.
LEMMA PageOfSelection ==
    ASSUME TypeOK
    PROVE  /\ PageSize \in Nat /\ Page \in Seq(Selected) /\ Len(Page) = PageSize
           /\ PageSize <= Cardinality(Selected)
           /\ \A r \in 1 .. PageSize : Page[r] \in Selected /\ Rank(Page[r]) = r - 1
           /\ \A a, b \in 1 .. PageSize : a < b => Newer(Page[a], Page[b])
           /\ Cardinality(Selected) > PageLimit => PageSize = PageLimit
           /\ Cardinality(Selected) <= PageLimit => PageSize = Cardinality(Selected)
<1> DEFINE n == Cardinality(Selected)
<1>1. n \in Nat /\ PageLimit \in Nat
    BY NewerRanksLower, HistoryAssumption DEF HistoryAssumption
<1>2. PageSize \in Nat /\ PageSize <= n
      /\ (n > PageLimit => PageSize = PageLimit) /\ (n <= PageLimit => PageSize = n)
    BY <1>1 DEF PageSize
<1> HIDE DEF n
<1>3. ASSUME NEW r \in 1 .. PageSize
      PROVE  Page[r] \in Selected /\ Rank(Page[r]) = r - 1
    <2>1. r - 1 \in 0 .. n - 1
        BY <1>1, <1>2
    <2>2. \E i \in Selected : Rank(i) = r - 1
        BY <2>1, RanksAreTaken DEF n
    <2>3. Page[r] = CHOOSE i \in Selected : Rank(i) = r - 1
        BY DEF Page
    <2> QED
        BY <2>2, <2>3
<1>4. Page \in Seq(Selected) /\ Len(Page) = PageSize
    <2>1. DOMAIN Page = 1 .. PageSize
        BY DEF Page
    <2>2. Page = [r \in 1 .. PageSize |-> Page[r]]
        BY DEF Page
    <2>3. Page \in [1 .. PageSize -> Selected]
        BY <1>3, <2>2
    <2> QED
        BY <1>2, <2>1, <2>3
<1>5. ASSUME NEW a \in 1 .. PageSize, NEW b \in 1 .. PageSize, a < b
      PROVE  Newer(Page[a], Page[b])
    <2>1. /\ Page[a] \in Selected /\ Rank(Page[a]) = a - 1
          /\ Page[b] \in Selected /\ Rank(Page[b]) = b - 1
        BY <1>3
    <2>2. Page[a] # Page[b]
        BY <1>2, <1>5, <2>1
    <2>3. Newer(Page[a], Page[b]) \/ Newer(Page[b], Page[a])
        BY <2>1, <2>2, NewerOrders DEF Selected
    <2>4. Newer(Page[b], Page[a]) => b - 1 < a - 1
        BY <2>1, NewerRanksLower, Zenon
    <2> QED
        BY <1>2, <1>5, <2>3, <2>4
<1> QED
    BY <1>2, <1>3, <1>4, <1>5 DEF n

\* A selected row is on the page, or the last row of the page is newer than it.
LEMMA OnPageOrAfter ==
    ASSUME TypeOK, NEW i \in Selected
    PROVE  \/ \E r \in 1 .. PageSize : Page[r] = i
           \/ Cardinality(Selected) > PageLimit /\ Newer(Page[PageSize], i)
<1> DEFINE n == Cardinality(Selected)
           k == Rank(i)
<1>1. n \in Nat /\ PageLimit \in Nat \ {0} /\ k \in 0 .. n - 1 /\ PageSize \in Nat
    BY NewerRanksLower, PageOfSelection, HistoryAssumption DEF HistoryAssumption
<1>2. CASE k < PageSize
    <2>1. k + 1 \in 1 .. PageSize
        BY <1>1, <1>2
    <2>2. Page[k + 1] \in Selected /\ Rank(Page[k + 1]) = k
        BY <1>1, <2>1, PageOfSelection
    <2> QED
        BY <2>1, <2>2, RanksAreTaken
<1>3. CASE k >= PageSize
    <2>1. n > PageLimit /\ PageSize = PageLimit /\ PageSize \in 1 .. PageSize
        BY <1>1, <1>3, PageOfSelection
    <2>2. Page[PageSize] \in Selected /\ Rank(Page[PageSize]) = PageSize - 1
        BY <2>1, PageOfSelection
    <2>3. Rank(Page[PageSize]) < k
        BY <1>1, <1>3, <2>2
    <2>4. Page[PageSize] # i /\ ~(k < Rank(Page[PageSize]))
        BY <1>1, <2>2, <2>3
    <2>5. Newer(Page[PageSize], i)
        BY <2>2, <2>4, NewerOrders, NewerRanksLower DEF Selected
    <2> QED
        BY <2>1, <2>5
<1> QED
    BY <1>1, <1>2, <1>3

-----------------------------------------------------------------------------
\* The three kinds of cursors are different.
LEMMA CursorKinds ==
    ASSUME TypeOK
    PROVE  /\ Start # End
           /\ \A i \in Rows : <<created[i], i>> \notin {Start, End}
<1>1. LastTime \in Nat
    BY HistoryAssumption DEF HistoryAssumption
<1>2. \A i \in Rows : created[i] \in 0 .. LastTime
    BY NewerOrders
<1> QED
    BY <1>1, <1>2 DEF Start, End

\* Before the first page.
LEMMA InitiallyIInv == HistoryInit => IInv
<1> SUFFICES ASSUME HistoryInit PROVE IInv
    OBVIOUS
<1>1. LastTime \in Nat /\ MaxPages \in Nat /\ Start # End
    BY HistoryAssumption DEF HistoryAssumption, Start, End
<1>2. TypeOK
    BY <1>1 DEF HistoryInit, TypeOK, Absent
<1>3. ListedRows /\ Sorted /\ CursorNamesLast
    BY <1>1 DEF HistoryInit, ListedRows, Sorted, CursorNamesLast
<1>4. initial \subseteq Rows /\ StillAhead
    BY DEF HistoryInit, StillAhead
<1> QED
    BY <1>2, <1>3, <1>4 DEF IInv

\* A new row changes neither the times of the rows that are listed nor the cursor.
LEMMA CreateKeeps ==
    ASSUME IInv, NEW i \in Ids, CreateQueued(i)
    PROVE  IInv'
<1>1. /\ created' = [created EXCEPT ![i] = now] /\ i \notin Rows
      /\ UNCHANGED <<zone, now, cursor, listed, initial, pages>>
    BY DEF CreateQueued
<1>2. LastTime \in Nat /\ created \in [Ids -> -1 .. LastTime] /\ now \in 0 .. LastTime
    BY HistoryAssumption DEF HistoryAssumption, IInv, TypeOK
<1>3. Rows \subseteq Rows' /\ \A j \in Rows : created'[j] = created[j]
    BY <1>1, <1>2 DEF Rows, Absent
<1>4. TypeOK'
    BY <1>1, <1>2 DEF IInv, TypeOK, Start, End
<1>5. listed \in Seq(Ids) /\ DOMAIN listed = 1 .. Len(listed) /\ Len(listed) \in Nat
    BY DEF IInv, TypeOK
<1>6. ListedRows' /\ (initial \subseteq Rows)'
    BY <1>1, <1>3 DEF IInv, ListedRows
<1>7. CursorNamesLast'
    <2>1. listed # <<>> => listed[Len(listed)] \in Rows
        BY <1>5 DEF IInv, ListedRows
    <2> QED
        BY <1>1, <1>3, <2>1 DEF IInv, CursorNamesLast, Start, End
<1>8. Sorted'
    BY <1>1, <1>3 DEF IInv, ListedRows, Sorted, Newer
<1>9. StillAhead'
    BY <1>1, <1>3 DEF IInv, StillAhead, Beyond, CursorTime, Start, End
<1> QED
    BY <1>4, <1>6, <1>7, <1>8, <1>9 DEF IInv

\* What a page adds to the list: rows of the table, after those listed before.
LEMMA PageExtends ==
    ASSUME IInv, ListHistory
    PROVE  /\ listed \in Seq(Ids) /\ Len(listed) \in Nat /\ listed' \in Seq(Ids)
           /\ Len(listed') = Len(listed) + PageSize
           /\ \A a \in 1 .. Len(listed) : listed'[a] = listed[a]
           /\ \A r \in 1 .. PageSize : listed'[Len(listed) + r] = Page[r]
<1>1. listed' = listed \o Page /\ listed \in Seq(Ids)
    BY DEF ListHistory, IInv, TypeOK
<1>2. Page \in Seq(Ids) /\ Len(Page) = PageSize /\ PageSize \in Nat
    <2>1. Selected \subseteq Ids
        BY DEF Selected, Rows
    <2> QED
        BY <2>1, PageOfSelection DEF IInv
<1> QED
    BY <1>1, <1>2

\* The cursor names the last row of the page exactly when there are rows beyond it.
LEMMA CursorAfterPage ==
    ASSUME IInv, ListHistory
    PROVE  \/ /\ Cardinality(Selected) > PageLimit
              /\ PageSize \in 1 .. PageSize /\ Page[PageSize] \in Rows
              /\ cursor' = <<created[Page[PageSize]], Page[PageSize]>>
              /\ cursor' \notin {Start, End}
           \/ cursor' = End /\ ~(Cardinality(Selected) > PageLimit)
<1>1. cursor' = NextCursor /\ TypeOK
    BY DEF ListHistory, IInv
<1>2. CASE Cardinality(Selected) > PageLimit
    <2>1. PageSize = PageLimit /\ PageLimit \in Nat \ {0}
        BY <1>1, <1>2, PageOfSelection, HistoryAssumption DEF HistoryAssumption
    <2>2. PageSize \in 1 .. PageSize /\ Page[PageSize] \in Rows
        BY <1>1, <2>1, PageOfSelection DEF Selected
    <2>3. cursor' = <<created[Page[PageSize]], Page[PageSize]>>
        BY <1>1, <1>2 DEF NextCursor
    <2> QED
        BY <1>1, <1>2, <2>2, <2>3, CursorKinds
<1>3. CASE ~(Cardinality(Selected) > PageLimit)
    BY <1>1, <1>3 DEF NextCursor
<1> QED
    BY <1>2, <1>3

\* Every row of a page comes after every row listed before, unless the session is west of
\* UTC.
LEMMA PageComesAfter ==
    ASSUME IInv, cursor # End, zone >= 0, NEW a \in DOMAIN listed, NEW i \in Selected
    PROVE  Newer(listed[a], i)
<1> DEFINE n == Len(listed)
           last == listed[n]
<1>1. TypeOK /\ n \in Nat /\ DOMAIN listed = 1 .. n /\ a \in 1 .. n
    BY DEF IInv, TypeOK
<1>2. listed[a] \in Rows /\ last \in Rows /\ i \in Rows
    BY <1>1 DEF IInv, ListedRows, Selected
<1>3. cursor = <<created[last], last>> /\ cursor # Start
    BY <1>1 DEF IInv, CursorNamesLast
<1>4. a = n \/ Newer(listed[a], last)
    BY <1>1 DEF IInv, Sorted
<1>5. Newer(last, i)
    <2>1. \/ created[i] < created[last] - zone
          \/ created[i] = created[last] - zone /\ i < last
        BY <1>3 DEF Selected, Beyond, CursorTime
    <2>2. /\ created[i] \in Int /\ created[last] \in Int /\ zone \in Int
          /\ i \in Int /\ last \in Int
        <3>1. zone \in Int
            BY <1>1, HistoryAssumption DEF HistoryAssumption, TypeOK
        <3> QED
            BY <1>1, <1>2, <3>1, NewerOrders
    <2> QED
        BY <2>1, <2>2 DEF Newer
<1> QED
    BY <1>1, <1>2, <1>4, <1>5, NewerOrders

\* A row that is older than the row the next cursor names is selected by it, unless the
\* session is east of UTC.
LEMMA OlderStaysAhead ==
    ASSUME TypeOK, zone <= 0, created' = created, zone' = zone,
           NEW last \in Rows, cursor' = <<created[last], last>>,
           NEW i \in Rows, Newer(last, i)
    PROVE  Beyond(i)'
<1>1. /\ created[i] \in Int /\ created[last] \in Int /\ zone \in Int
      /\ i \in Int /\ last \in Int
    <2>1. zone \in Int
        BY HistoryAssumption DEF HistoryAssumption, TypeOK
    <2> QED
        BY <2>1, NewerOrders
<1>2. \/ created[i] < created[last] - zone
      \/ created[i] = created[last] - zone /\ i < last
    BY <1>1 DEF Newer
<1> QED
    BY <1>2 DEF Beyond, CursorTime

\* A page keeps the order of what is listed and loses nothing of what is still ahead.
LEMMA ListKeeps ==
    ASSUME IInv, ListHistory
    PROVE  IInv'
<1> DEFINE n == Len(listed)
<1>1. /\ cursor # End /\ pages < MaxPages /\ pages' = pages + 1
      /\ initial' = IF cursor = Start THEN Rows ELSE initial
      /\ zone' = zone /\ created' = created /\ now' = now
    BY DEF ListHistory
<1>2. TypeOK /\ Rows' = Rows
    BY <1>1 DEF IInv, Rows
<1>3. /\ n \in Nat /\ listed' \in Seq(Ids) /\ Len(listed') = n + PageSize
      /\ PageSize \in Nat
      /\ \A a \in 1 .. n : listed'[a] = listed[a]
      /\ \A r \in 1 .. PageSize : listed'[n + r] = Page[r]
      /\ DOMAIN listed = 1 .. n /\ DOMAIN listed' = 1 .. n + PageSize
    BY <1>2, PageExtends, PageOfSelection
<1> HIDE DEF n
<1>4. \A r \in 1 .. PageSize : Page[r] \in Selected /\ Page[r] \in Rows
    BY <1>2, PageOfSelection DEF Selected
<1>5. ASSUME NEW a \in 1 .. n + PageSize, a \notin 1 .. n
      PROVE  a - n \in 1 .. PageSize /\ listed'[a] = Page[a - n]
    <2>1. a - n \in 1 .. PageSize /\ n + (a - n) = a
        BY <1>3, <1>5
    <2> QED
        BY <1>3, <2>1
<1>6. TypeOK'
    <2>1. \A i \in Rows : <<created[i], i>> \in (0 .. LastTime) \X Ids
        BY <1>2, NewerOrders
    <2>2. cursor' \in {Start, End} \cup ((0 .. LastTime) \X Ids)
        <3>1. cursor' = End \/ \E i \in Rows : cursor' = <<created[i], i>>
            BY CursorAfterPage
        <3> QED
            BY <2>1, <3>1
    <2>3. pages' \in 0 .. MaxPages
        BY <1>1, <1>2, HistoryAssumption DEF HistoryAssumption, TypeOK
    <2>4. initial' \subseteq Ids
        <3>1. Rows \subseteq Ids /\ initial \subseteq Ids
            BY <1>2 DEF TypeOK, Rows
        <3> QED
            BY <1>1, <3>1
    <2> QED
        BY <1>1, <1>2, <1>3, <2>2, <2>3, <2>4 DEF TypeOK, Start, End
<1>7. ListedRows'
    BY <1>2, <1>3, <1>4, <1>5 DEF IInv, ListedRows
<1>8. CursorNamesLast'
    <2>1. Start' = Start /\ End' = End /\ Start # End
        BY <1>2, CursorKinds DEF Start, End
    <2>2. CASE cursor' = End
        BY <2>1, <2>2 DEF CursorNamesLast
    <2>3. CASE cursor' # End
        <3>1. /\ PageSize \in 1 .. PageSize
              /\ cursor' = <<created[Page[PageSize]], Page[PageSize]>>
              /\ cursor' \notin {Start, End}
            BY <2>3, CursorAfterPage
        <3>2. Len(listed') = n + PageSize /\ listed'[n + PageSize] = Page[PageSize]
              /\ listed' # <<>>
            BY <1>3, <3>1
        <3> QED
            BY <1>1, <2>1, <3>1, <3>2 DEF CursorNamesLast
    <2> QED
        BY <2>2, <2>3
<1>9. Sorted'
    <2> SUFFICES ASSUME zone >= 0, NEW a \in 1 .. n + PageSize, NEW b \in 1 .. n + PageSize,
                        a < b
                 PROVE  Newer(listed'[a], listed'[b])
        BY <1>1, <1>3 DEF Sorted, Newer
    <2>1. CASE a \in 1 .. n /\ b \in 1 .. n
        BY <1>3, <2>1 DEF IInv, Sorted
    <2>2. CASE a \in 1 .. n /\ b \notin 1 .. n
        <3>1. listed'[a] = listed[a] /\ listed'[b] = Page[b - n] /\ Page[b - n] \in Selected
            BY <1>3, <1>4, <1>5, <2>2
        <3> QED
            BY <1>1, <1>3, <2>2, <3>1, PageComesAfter
    <2>3. CASE a \notin 1 .. n
        <3>1. b \notin 1 .. n
            BY <1>3, <2>3
        <3>2. /\ a - n \in 1 .. PageSize /\ listed'[a] = Page[a - n]
              /\ b - n \in 1 .. PageSize /\ listed'[b] = Page[b - n]
            BY <1>5, <2>3, <3>1
        <3>3. a - n < b - n
            BY <1>3
        <3> QED
            BY <1>2, <3>2, <3>3, PageOfSelection
    <2> QED
        BY <2>1, <2>2, <2>3
<1>10. (initial \subseteq Rows)'
    BY <1>1, <1>2 DEF IInv
<1>11. StillAhead'
    <2> SUFFICES ASSUME zone <= 0, NEW i \in initial'
                 PROVE  \/ \E a \in DOMAIN listed' : listed'[a] = i
                        \/ cursor' # End /\ Beyond(i)'
        BY <1>1 DEF StillAhead, End
    <2>1. i \in Rows
        BY <1>2, <1>10
    <2>2. i \in Selected \/ \E a \in DOMAIN listed : listed[a] = i
        BY <1>1, <2>1 DEF IInv, StillAhead, Selected, Beyond
    <2>3. CASE \E a \in DOMAIN listed : listed[a] = i
        <3>1. PICK a \in 1 .. n : listed[a] = i
            BY <1>3, <2>3
        <3>2. a \in DOMAIN listed' /\ listed'[a] = i
            BY <1>3, <3>1
        <3> QED
            BY <3>2
    <2>4. CASE i \in Selected
        <3>1. CASE \E r \in 1 .. PageSize : Page[r] = i
            <4>1. PICK r \in 1 .. PageSize : Page[r] = i
                BY <3>1
            <4>2. n + r \in DOMAIN listed' /\ listed'[n + r] = i
                BY <1>3, <4>1
            <4> QED
                BY <4>2
        <3>2. CASE Cardinality(Selected) > PageLimit /\ Newer(Page[PageSize], i)
            <4>1. /\ Page[PageSize] \in Rows
                  /\ cursor' = <<created[Page[PageSize]], Page[PageSize]>>
                  /\ cursor' # End
                BY <3>2, CursorAfterPage
            <4>2. Beyond(i)'
                BY <1>1, <1>2, <2>1, <3>2, <4>1, OlderStaysAhead
            <4> QED
                BY <4>1, <4>2
        <3> QED
            BY <1>2, <2>4, <3>1, <3>2, OnPageOrAfter
    <2> QED
        BY <2>2, <2>3, <2>4
<1> QED
    BY <1>6, <1>7, <1>8, <1>9, <1>10, <1>11 DEF IInv

\* Every step preserves the invariant.
LEMMA StaysIInv == IInv /\ [HistoryNext]_historyVars => IInv'
<1> SUFFICES ASSUME IInv, [HistoryNext]_historyVars PROVE IInv'
    OBVIOUS
<1>1. ASSUME NEW i \in Ids, CreateQueued(i) PROVE IInv'
    BY <1>1, CreateKeeps
<1>2. CASE Tick
    <2>1. now' \in 0 .. LastTime
        BY <1>2, HistoryAssumption DEF HistoryAssumption, Tick, IInv, TypeOK
    <2> QED
        BY <1>2, <2>1 DEF Tick, IInv, TypeOK, ListedRows, CursorNamesLast, Sorted, StillAhead,
                          Rows, Newer, Beyond, CursorTime, Start, End
<1>3. CASE ListHistory
    BY <1>3, ListKeeps
<1>4. CASE UNCHANGED historyVars
    BY <1>4 DEF historyVars, IInv, TypeOK, ListedRows, CursorNamesLast, Sorted, StillAhead,
                Rows, Newer, Beyond, CursorTime, Start, End
<1> QED
    BY <1>1, <1>2, <1>3, <1>4 DEF HistoryNext

LEMMA Inductive == HistorySpec => []IInv
BY InitiallyIInv, StaysIInv, PTL DEF HistorySpec

\* A client that follows the cursors never receives an analysis twice, and receives them
\* in the order of the whole history, for every page size and however many rows carry the
\* same instant (decode_cursor, list_history).
THEOREM PagesAlwaysInOrder == HistorySpec => []PagesInOrder
<1>1. IInv => PagesInOrder
    BY DEF IInv, Sorted, PagesInOrder, OrderRetained
<1> QED
    BY <1>1, Inductive, PTL

\* Once the last page is read, no analysis that existed at the first is missing
\* (encode_cursor, list_history).
THEOREM NothingIsEverMissed == HistorySpec => []NothingMissed
<1>1. IInv => NothingMissed
    BY DEF IInv, StillAhead, NothingMissed
<1> QED
    BY <1>1, Inductive, PTL

-----------------------------------------------------------------------------
\* The state keeps its types.
THEOREM TypeCorrect == HistorySpec => []TypeOK
<1>1. IInv => TypeOK
    BY DEF IInv
<1> QED
    BY <1>1, Inductive, PTL

\* While there is a next page, every page so far was a full one.
FullPages == cursor # End => Len(listed) = PageLimit * pages

\* Nothing is listed twice, so no more is listed than there is.
LEMMA ListedAtMost ==
    ASSUME IInv, zone >= 0
    PROVE  IsFiniteSet(Rows) /\ Len(listed) <= Cardinality(Rows)
<1> DEFINE P == 1 .. Len(listed)
<1>1. TypeOK /\ Len(listed) \in Nat /\ DOMAIN listed = P
    BY DEF IInv, TypeOK
<1>2. IsFiniteSet(Rows)
    <2>1. Rows \in SUBSET Ids /\ IsFiniteSet(Ids)
        BY HistoryAssumption DEF HistoryAssumption, Rows
    <2> QED
        BY <2>1, FS_Subset
<1>3. IsFiniteSet(P) /\ Cardinality(P) = Len(listed)
    <2> DEFINE n == Len(listed)
    <2>1. n \in Nat
        BY <1>1
    <2> HIDE DEF n
    <2>2. IsFiniteSet(1 .. n) /\ Cardinality(1 .. n) = n
        BY <2>1, FS_Interval
    <2> QED
        BY <2>2 DEF n
<1>4. \A a, b \in P : a < b => listed[a] # listed[b]
    <2>1. \A a, b \in P : a < b => Newer(listed[a], listed[b])
        BY <1>1 DEF IInv, Sorted
    <2>2. \A a \in P : listed[a] \in Rows /\ ~Newer(listed[a], listed[a])
        BY <1>1, NewerOrders DEF IInv, ListedRows
    <2> QED
        BY <2>1, <2>2
<1>5. \A a, b \in P : listed[a] = listed[b] => a = b
    BY <1>1, <1>4
<1>6. [a \in P |-> listed[a]] \in [P -> Rows]
    BY <1>1 DEF IInv, ListedRows
<1> HIDE DEF P
<1>7. [a \in P |-> listed[a]] \in Injection(P, Rows)
    BY <1>5, <1>6 DEF Injection, IsInjective
<1> QED
    BY <1>2, <1>3, <1>7, FS_Injection

LEMMA PagesAreFull ==
    ASSUME IInv, FullPages, [HistoryNext]_historyVars
    PROVE  FullPages'
<1>1. CASE ListHistory
    <2>1. Start' = Start /\ End' = End
        BY DEF Start, End
    <2>2. CASE cursor' # End
        <3>1. PageSize = PageLimit
            BY <2>2, CursorAfterPage, PageOfSelection, <1>1 DEF IInv
        <3>2. Len(listed') = PageLimit * pages + PageLimit /\ pages' = pages + 1
            BY <1>1, <3>1, PageExtends DEF FullPages, ListHistory
        <3>3. PageLimit * (pages + 1) = PageLimit * pages + PageLimit
            BY HistoryAssumption DEF HistoryAssumption, IInv, TypeOK
        <3> QED
            BY <2>1, <3>2, <3>3 DEF FullPages
    <2> QED
        BY <2>1, <2>2 DEF FullPages
<1>2. CASE ~ListHistory
    <2>1. UNCHANGED <<cursor, listed, pages>>
        BY <1>2 DEF HistoryNext, CreateQueued, Tick, historyVars
    <2> QED
        BY <2>1 DEF FullPages, End
<1> QED
    BY <1>1, <1>2

\* Following the cursors comes to an end: while there is a next page, all pages so far were
\* full of different rows, so that there are at most as many as the rows fill
\* (list_history reads limit + 1 rows).
THEOREM PagesNeverRepeat ==
    HistorySpec => [](zone >= 0 /\ cursor # End => PageLimit * pages <= Cardinality(Rows))
<1>1. HistoryInit => FullPages
    BY HistoryAssumption DEF HistoryAssumption, HistoryInit, FullPages
<1>2. IInv /\ FullPages => (zone >= 0 /\ cursor # End => PageLimit * pages <= Cardinality(Rows))
    BY ListedAtMost DEF FullPages
<1>3. IInv /\ FullPages /\ [HistoryNext]_historyVars => FullPages'
    BY PagesAreFull
<1> QED
    BY <1>1, <1>2, <1>3, Inductive, PTL DEF HistorySpec
=============================================================================
