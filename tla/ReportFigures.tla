----------------------------- MODULE ReportFigures -----------------------------
(***************************************************************************)
(* The figures of a report for every input they may be computed from: the  *)
(* score of an assumption whose evidence grows one component at a time,    *)
(* the financial stress test with the IDX benchmark, and the ranking of a  *)
(* corpus.  No figure depends on another, so a behaviour varies the        *)
(* evidence, the inputs or the similarities and keeps the rest.            *)
(***************************************************************************)
EXTENDS EvidenceScore, FinancialStressTest, Ranking

CONSTANTS
    Steps,           \* the points a component may be given, in hundredths
    Inputs,          \* the financial inputs of the requests
    Tables,          \* the rows of the IDX tables whose ratio is gross_margin
    Corpora,         \* the similarities of a query to the rows of a corpus
    LowRunwayMonths, \* FINANCIAL_LOW_RUNWAY_MONTHS
    MaxTopK          \* RETRIEVAL_MAX_TOP_K

ASSUME ReportFiguresAssumption ==
    /\ \A k \in Components : Steps[k] \subseteq 0 .. Limit(k)
    /\ Inputs \subseteq FinancialInputs
    /\ Tables \subseteq Seq(IdxRow)
    /\ Corpora \subseteq Seq(Int) \ {<<>>}
    /\ LowRunwayMonths \in Nat
    /\ MaxTopK \in Nat

VARIABLES
    breakdown,    \* the points of an assumption
    inputs,       \* the financial inputs
    similarities  \* the similarities of a corpus

vars == <<breakdown, inputs, similarities>>

NoInputs ==
    [orders |-> 0, revenue |-> 0, variable |-> 0, promo |-> 0, delivery |-> 0,
     fixed |-> 0, driver |-> 0, cash |-> 0]
NoMatch == <<0>>

Init ==
    /\ breakdown = [k \in Components |-> 0]
    /\ \/ inputs \in Inputs /\ similarities = NoMatch
       \/ inputs = NoInputs /\ similarities \in Corpora

MoreEvidence(k) ==
    /\ inputs = NoInputs /\ similarities = NoMatch
    /\ \E x \in Steps[k] :
          /\ x > breakdown[k]
          /\ breakdown' = [breakdown EXCEPT ![k] = x]
    /\ UNCHANGED <<inputs, similarities>>

Next == \E k \in Components : MoreEvidence(k)

Spec == Init /\ [][Next]_vars
-----------------------------------------------------------------------------
\* More evidence never makes the assessment of a supported assumption worse.
SupportGrows == [][MoreEvidenceNeverHurts(breakdown', breakdown)]_vars

\* Rounding lowers no assessment, and lifts one over a threshold by 0.05 points at most.
RoundingStaysLocal == RoundingIsLocal(breakdown)

\* The break-even volume is the least one without a loss.
BreakEvenCorrect == BreakEvenIsLeast(inputs)

\* The warnings of a loss and of a short runway agree with the exact figures.
WarningsCorrect == LossesAgree(inputs, LowRunwayMonths) /\ LowRunwayIsExact(inputs, LowRunwayMonths)

\* Figures that are rounded one by one, to cents and to doubles, do not contradict each
\* other beyond that rounding.
MoneyCorrect == MoneyAgrees(inputs, LowRunwayMonths)

\* Where there is a position against the IDX companies, also for a net revenue that is not
\* positive, it agrees with the percentages shown with it.
IdxCorrect == \A rows \in Tables : IdxAgrees(inputs, rows)

\* The docstring of benchmark_against_idx: "A non-positive net revenue also has no
\* meaningful gross-margin analogue."
NoAnalogueWithoutNetRevenue ==
    NetRevenue(inputs) <= 0 => \A rows \in Tables : IdxBenchmarks(inputs, rows) = {}

\* Failures and analogues are the best rows of the corpus, for every number of them: cutting
\* before the thresholds neither loses nor admits a row, and asking for more only extends.
RankingCorrect ==
    \A topK \in 1 .. MaxTopK :
        /\ CutBeforeFilter(similarities, topK)
        /\ LargerTopKExtends(similarities, topK)
        /\ BestAnalogues(similarities, topK)
=============================================================================
