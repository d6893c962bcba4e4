-------------------------------- MODULE Ranking --------------------------------
(***************************************************************************)
(* The ranking of the corpus for one query.  Similarities are in hundredths *)
(* and may be negative; the corpus is a function from row numbers to       *)
(* similarities.                                                           *)
(***************************************************************************)
EXTENDS Integers, Sequences, FiniteSets

AbsoluteMin == 38
RelativeToBest == 70

\* Equal similarities are ordered by row number.
Better(scores, i, j) == scores[i] > scores[j] \/ (scores[i] = scores[j] /\ i < j)

\* The members of s that come before x.
Before(s, order, x) == {y \in s : <<y, x>> \in order}

\* The members of s from first to last: the k-th has k - 1 members before it.
InOrder(s, order) ==
    [k \in 1 .. Cardinality(s) |-> CHOOSE x \in s : Cardinality(Before(s, order, x)) = k - 1]

\* lexsort: every row is better than the rows after it.
BestFirst(scores) == {p \in (DOMAIN scores) \X (DOMAIN scores) : Better(scores, p[1], p[2])}
Ranked(scores) == InOrder(DOMAIN scores, BestFirst(scores))

FirstOf(order, k) == SubSeq(order, 1, IF k < Len(order) THEN k ELSE Len(order))

\* _rank_indices.
RankIndices(scores, topK) == FirstOf(Ranked(scores), topK)

\* Slip: the threshold is relative to the last row that is kept.
ReachesFromLast(scores, ranked, i) ==
    scores[i] >= AbsoluteMin /\ 100 * scores[i] >= RelativeToBest * scores[ranked[Len(ranked)]]

\* Row i reaches the larger of the absolute and the relative threshold.
Reaches(scores, ranked, i) ==
    scores[i] >= AbsoluteMin /\ 100 * scores[i] >= RelativeToBest * scores[ranked[1]]

\* The places of a ranking whose rows reach the thresholds.
Kept(scores, ranked) == {a \in DOMAIN ranked : Reaches(scores, ranked, ranked[a])}
Ascending(places) == {p \in places \X places : p[1] < p[2]}

\* _filter_ranked_indices, on a corpus that is never empty.
FilterRankedIndices(scores, topK) ==
    LET ranked == RankIndices(scores, topK)
        places == InOrder(Kept(scores, ranked), Ascending(Kept(scores, ranked)))
    IN  [k \in DOMAIN places |-> ranked[places[k]]]

\* A corpus gives no more than it has.
Within(topK, scores) == IF topK < Len(scores) THEN topK ELSE Len(scores)

\* Companies are not held against a threshold: a query always gets its topK analogues.
CompanyAnalogues(scores, topK) == RankIndices(scores, Within(topK, scores))

HistoricalFailures(scores, topK) == FilterRankedIndices(scores, Within(topK, scores))
-----------------------------------------------------------------------------
\* The rows to return, without ranking: those within reach of the best of the whole corpus
\* that have fewer than topK rows ahead of them.
Reference(scores, topK) ==
    {i \in DOMAIN scores :
        /\ scores[i] >= AbsoluteMin
        /\ \A j \in DOMAIN scores : 100 * scores[i] >= RelativeToBest * scores[j]
        /\ Cardinality({j \in DOMAIN scores : Better(scores, j, i)}) < topK}

\* Cutting the ranking at topK before the thresholds are applied loses nothing and lets
\* nothing in (RetrievalService.historical_failures).
CutBeforeFilter(scores, topK) ==
    LET found == HistoricalFailures(scores, topK)
    IN  /\ {found[a] : a \in DOMAIN found} = Reference(scores, topK)
        /\ Len(found) = Cardinality(Reference(scores, topK))

\* A larger top_k extends the evidence and changes none of the ranks already given.
LargerTopKExtends(scores, topK) ==
    LET fewer == HistoricalFailures(scores, topK)
    IN  FirstOf(HistoricalFailures(scores, topK + 1), Len(fewer)) = fewer

\* The analogues are the best rows of the corpus, best first, as many as were asked for or
\* all there are (RetrievalService.company_analogues).
BestAnalogues(scores, topK) ==
    LET found == CompanyAnalogues(scores, topK)
    IN  /\ Len(found) = Within(topK, scores)
        /\ \A a \in DOMAIN found : \A i \in DOMAIN scores :
               Better(scores, i, found[a]) => \E b \in 1 .. a - 1 : found[b] = i
=============================================================================
