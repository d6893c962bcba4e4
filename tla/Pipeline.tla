------------------------------- MODULE Pipeline -------------------------------
(***************************************************************************)
(* One AnalysisPipeline: the stages of run, the calls each makes to the    *)
(* provider, the validation of every answer, and the two budgets.          *)
(*                                                                         *)
(* Texts are left out; of an answer there is left what the pipeline        *)
(* compares: which assumption it is about, what it cites, how it judges.   *)
(* Company analogues never enter a decision of the pipeline; their ids are *)
(* here because an answer may cite them.  The retries and timeouts below   *)
(* complete_json are in LLMClient, the cache is in LLMCache.               *)
(***************************************************************************)
EXTENDS Integers, FiniteSets

CONSTANTS
    MinAssumptions, MaxAssumptions,  \* the schema of AssumptionExtraction
    Cases,       \* ids of historical failures
    Analogues,   \* ids of company analogues
    CallBudget,  \* Settings.llm_calls_per_analysis
    CostBudget,  \* Settings.llm_max_cost_usd_per_analysis
    MaxPrice     \* bound: what one call costs at most

ASSUME PipelineAssumption ==
    /\ MinAssumptions \in Nat \ {0} /\ MaxAssumptions \in Nat
    /\ MinAssumptions <= MaxAssumptions
    /\ Cases \cap Analogues = {}
    /\ CallBudget \in Nat /\ CostBudget \in Nat /\ MaxPrice \in Nat

VARIABLES
    pc,         \* the stage of run, and how it ended
    n,          \* how many assumptions were extracted: A1 .. An
    at,         \* the assumption of the current iteration
    packet,     \* the historical failures retrieved for each assumption
    evaluated,  \* the result of _evaluate
    reviewed,   \* the result of _review
    final,      \* the assessment in the report
    calls, cost,
    code        \* the code of the PipelineError

answers == <<packet, evaluated, reviewed, final>>
vars == <<pc, n, at, packet, evaluated, reviewed, final, calls, cost, code>>

Ids == 1 .. MaxAssumptions
References == Cases \cup Analogues
Supports == {"Well Supported", "Partially Supported"}
Assessments == Supports \cup {"Contradicted", "Insufficient Evidence"}
Directions == {"supports", "contradicts", "mixed", "neutral"}

\* The score is below 5, from 5 on, or from 8 on with the two component thresholds
\* (module EvidenceScore).
Strengths == {"weak", "medium", "strong"}

Evaluation(a, refs) == [assessment |-> a, refs |-> refs]
Unsupported == Evaluation("Insufficient Evidence", {})
None == Evaluation("none", {})
Evaluations == [assessment : Assessments, refs : SUBSET References] \cup {None}

Looping == {"evaluate", "review", "score"}
Ended == {"published", "failed"}

Init ==
    /\ pc = "extract"
    /\ n = 0
    /\ at = 1
    /\ packet = [i \in Ids |-> {}]
    /\ evaluated = [i \in Ids |-> None]
    /\ reviewed = [i \in Ids |-> None]
    /\ final = [i \in Ids |-> "none"]
    /\ calls = 0
    /\ cost = 0
    /\ code = "none"
-----------------------------------------------------------------------------
Fail(c) ==
    /\ pc' = "failed"
    /\ code' = c
    /\ UNCHANGED <<n, at, answers>>

Goto(stage) ==
    /\ pc' = stage
    /\ at' = 1
    /\ UNCHANGED code

\* The next iteration of the loop over the assumptions, or the stage after it.
Advance(stage) ==
    IF at < n THEN at' = at + 1 /\ UNCHANGED <<pc, code>> ELSE Goto(stage)

\* Whether run is about to ask the provider: an assumption without historical failures is
\* not evaluated, an evaluation without support is not reviewed.
Asking ==
    \/ pc \in {"extract", "queries", "score"}
    \/ pc = "evaluate" /\ packet[at] # {}
    \/ pc = "review" /\ evaluated[at].assessment # "Insufficient Evidence"

\* Slip: an answer from the cache, which costs nothing, is not counted.
SpendUncached ==
    /\ Asking
    /\ calls < CallBudget
    /\ \E price \in 0 .. MaxPrice :
          /\ cost' = cost + price
          /\ calls' = IF price = 0 THEN calls ELSE calls + 1

\* _complete: the budget of calls is checked before the call, an answer counts as a call
\* whether it is cached or not, and its cost is known afterwards.
Spend ==
    /\ Asking
    /\ calls < CallBudget
    /\ calls' = calls + 1
    /\ \E price \in 0 .. MaxPrice : cost' = cost + price

\* Slip: the cost is compared before it is added.
AffordedBefore == Spend /\ cost <= CostBudget

Afforded == Spend /\ cost' <= CostBudget

\* Slip: the last call of the budget is refused.
CallsExhaustedEarly ==
    /\ Asking
    /\ calls + 1 >= CallBudget
    /\ Fail("LLM_BUDGET_EXCEEDED")
    /\ UNCHANGED <<calls, cost>>

CallsExhausted ==
    /\ Asking
    /\ calls >= CallBudget
    /\ Fail("LLM_BUDGET_EXCEEDED")
    /\ UNCHANGED <<calls, cost>>

CostExceeded ==
    /\ Spend
    /\ cost' > CostBudget
    /\ Fail("LLM_BUDGET_EXCEEDED")

\* Any LLMError, also an answer that does not have the schema: not counted as a call.
ProviderFails ==
    /\ Asking
    /\ calls < CallBudget
    /\ Fail("LLM_ERROR")
    /\ UNCHANGED <<calls, cost>>
-----------------------------------------------------------------------------
\* The schema admits any ids that differ; _extract wants A1 .. An.
Extract ==
    /\ pc = "extract"
    /\ Afforded
    /\ \E ids \in SUBSET Ids :
          /\ Cardinality(ids) \in MinAssumptions .. MaxAssumptions
          /\ \/ /\ ids = 1 .. Cardinality(ids)
                /\ n' = Cardinality(ids)
                /\ Goto("queries")
                /\ UNCHANGED answers
             \/ /\ ids # 1 .. Cardinality(ids)
                /\ Fail("INVALID_ASSUMPTIONS")

BuildQueries ==
    /\ pc = "queries"
    /\ Afforded
    /\ \/ Goto("retrieve") /\ UNCHANGED <<n, answers>>
       \/ Fail("INVALID_RETRIEVAL_QUERY")

Retrieve ==
    /\ pc = "retrieve"
    /\ \/ /\ \E found \in [1 .. n -> SUBSET Cases] :
                packet' = [i \in Ids |-> IF i <= n THEN found[i] ELSE {}]
          /\ Goto("financials")
          /\ UNCHANGED <<n, evaluated, reviewed, final>>
       \/ Fail("RETRIEVAL_FAILED")
    /\ UNCHANGED <<calls, cost>>

\* An input whose figures are not finite raises an exception (module FinancialStressTest).
CalculateFinancials ==
    /\ pc = "financials"
    /\ \/ Goto("evaluate") /\ UNCHANGED <<n, answers>>
       \/ Fail("ANALYSIS_FAILED")
    /\ UNCHANGED <<calls, cost>>
-----------------------------------------------------------------------------
\* Slip: the references are compared with what was retrieved for any assumption.
ValidForAnyPacket(answer) ==
    /\ answer.refs \subseteq UNION {packet[i] : i \in 1 .. n}
    /\ answer.assessment # "Insufficient Evidence" => answer.refs # {}

\* _validate_evaluation, for the assumption that is being evaluated.
ValidEvaluation(answer) ==
    /\ answer.refs \subseteq packet[at]
    /\ answer.assessment # "Insufficient Evidence" => answer.refs # {}

\* _enforce_historical_evidence_policy: the assessment is replaced, the references stay.
Policy(answer) ==
    IF answer.assessment \in Supports
    THEN [answer EXCEPT !.assessment = "Insufficient Evidence"]
    ELSE answer

Evaluate ==
    /\ pc = "evaluate"
    /\ Afforded
    /\ \E about \in 1 .. n, a \in Assessments, refs \in SUBSET References :
          LET answer == Evaluation(a, refs) IN
          \/ /\ about = at /\ ValidEvaluation(answer)
             /\ evaluated' = [evaluated EXCEPT ![at] = Policy(answer)]
             /\ Advance("review")
             /\ UNCHANGED <<n, packet, reviewed, final>>
          \/ /\ ~(about = at /\ ValidEvaluation(answer))
             /\ Fail("INVALID_EVIDENCE_REFERENCE")

SkipEvaluation ==
    /\ pc = "evaluate" /\ ~Asking
    /\ evaluated' = [evaluated EXCEPT ![at] = Unsupported]
    /\ Advance("review")
    /\ UNCHANGED <<n, packet, reviewed, final, calls, cost>>
-----------------------------------------------------------------------------
\* Slip: a review may keep an evaluation and cite nothing for it.
ValidReviewUncited(disposition, refs) == refs \subseteq evaluated[at].refs

\* _validate_review: what is kept keeps a reference.
ValidReview(disposition, refs) ==
    /\ refs \subseteq evaluated[at].refs
    /\ disposition = "keep" /\ evaluated[at].assessment # "Insufficient Evidence" => refs # {}
    /\ disposition = "weaken" /\ evaluated[at].assessment = "Well Supported" => refs # {}

Weakened(a) == IF a = "Well Supported" THEN "Partially Supported" ELSE "Insufficient Evidence"

\* _apply_review.
Applied(disposition, refs) ==
    CASE disposition = "keep" -> Evaluation(evaluated[at].assessment, refs)
      [] disposition = "weaken" -> Evaluation(Weakened(evaluated[at].assessment), refs)
      [] disposition = "discard" -> Unsupported

Review ==
    /\ pc = "review"
    /\ Afforded
    /\ \E about \in 1 .. n, disposition \in {"keep", "weaken", "discard"},
          refs \in SUBSET References :
          \/ /\ about = at /\ ValidReview(disposition, refs)
             /\ reviewed' = [reviewed EXCEPT ![at] = Applied(disposition, refs)]
             /\ Advance("score")
             /\ UNCHANGED <<n, packet, evaluated, final>>
          \/ /\ ~(about = at /\ ValidReview(disposition, refs))
             /\ Fail("INVALID_EVIDENCE_REFERENCE")

SkipReview ==
    /\ pc = "review" /\ ~Asking
    /\ reviewed' = [reviewed EXCEPT ![at] = evaluated[at]]
    /\ Advance("score")
    /\ UNCHANGED <<n, packet, evaluated, final, calls, cost>>
-----------------------------------------------------------------------------
\* _assessment_from_evidence_score.
Assessment(direction, strength) ==
    CASE strength = "weak" \/ direction = "neutral" -> "Insufficient Evidence"
      [] strength # "weak" /\ direction = "contradicts" -> "Contradicted"
      [] strength # "weak" /\ direction = "mixed" -> "Partially Supported"
      [] strength = "medium" /\ direction = "supports" -> "Partially Supported"
      [] strength = "strong" /\ direction = "supports" -> "Well Supported"

\* _score_evidence_strength asks for every assumption, with or without evidence; the
\* assessment of the report is computed from the answer alone (_build_result).
Score ==
    /\ pc = "score"
    /\ Afforded
    /\ \E direction \in Directions, strength \in Strengths :
          final' = [final EXCEPT ![at] = Assessment(direction, strength)]
    /\ Advance("build")
    /\ UNCHANGED <<n, packet, evaluated, reviewed>>

Build ==
    /\ pc = "build"
    /\ Goto("published")
    /\ UNCHANGED <<n, answers, calls, cost>>

Next ==
    \/ CallsExhausted \/ CostExceeded \/ ProviderFails
    \/ Extract \/ BuildQueries \/ Retrieve \/ CalculateFinancials
    \/ Evaluate \/ SkipEvaluation \/ Review \/ SkipReview \/ Score \/ Build

Spec == Init /\ [][Next]_vars
-----------------------------------------------------------------------------
\* The values the state can take.
TypeOK ==
    /\ pc \in Looping \cup Ended \cup {"extract", "queries", "retrieve", "financials", "build"}
    /\ n \in {0} \cup MinAssumptions .. MaxAssumptions
    /\ at \in Ids
    /\ packet \in [Ids -> SUBSET Cases]
    /\ evaluated \in [Ids -> Evaluations]
    /\ reviewed \in [Ids -> Evaluations]
    /\ final \in [Ids -> Assessments \cup {"none"}]
    /\ calls \in 0 .. CallBudget
    /\ cost \in 0 .. CostBudget + MaxPrice
    /\ code \in {"none", "LLM_BUDGET_EXCEEDED", "LLM_ERROR", "INVALID_ASSUMPTIONS",
                 "INVALID_RETRIEVAL_QUERY", "RETRIEVAL_FAILED", "ANALYSIS_FAILED",
                 "INVALID_EVIDENCE_REFERENCE"}

\* What the sources list of the report shows (_map_evidence).
Sources == UNION {packet[i] : i \in 1 .. n}

\* Whatever the provider answers, a published assumption cites only what was retrieved for
\* it, so every citation resolves to a source of the report, and a review adds none.
CitationsResolve ==
    pc = "published" => \A i \in 1 .. n :
        /\ reviewed[i].refs \subseteq evaluated[i].refs
        /\ evaluated[i].refs \subseteq packet[i] /\ packet[i] \subseteq Sources

\* Historical failures never make an evaluation supportive (the docstring of
\* _enforce_historical_evidence_policy), and a contradiction that survives its review still
\* cites a case.
HistoryOnlyContradicts ==
    \A i \in Ids :
        /\ reviewed[i].assessment \notin Supports
        /\ reviewed[i].assessment = "Contradicted" => reviewed[i].refs # {}

\* A published report made two calls for the decision, one for each assumption that has
\* historical failures, one for each evaluation that is not "Insufficient Evidence" and one
\* to score each assumption; answers from the cache count like the others.
CallsAccountedFor ==
    pc = "published" =>
        calls = 2 + n
              + Cardinality({i \in 1 .. n : packet[i] # {}})
              + Cardinality({i \in 1 .. n : evaluated[i].assessment # "Insufficient Evidence"})

\* A budget of two calls and three per extracted assumption is never exhausted: an analysis
\* that fails with LLM_BUDGET_EXCEEDED has then spent more than the cost budget.
CallBudgetSuffices ==
    CallBudget >= 2 + 3 * n /\ code = "LLM_BUDGET_EXCEEDED" => cost > CostBudget

\* A report is published only within both budgets, and an analysis overspends by the last
\* call at most.
BudgetsHold ==
    /\ calls <= CallBudget
    /\ cost <= CostBudget + MaxPrice
    /\ pc \notin Ended => cost <= CostBudget
    /\ pc = "published" => cost <= CostBudget

\* README: if retrieval finds no evidence, the result is "Insufficient Evidence".
NoEvidenceIsInsufficient ==
    pc = "published" => \A i \in 1 .. n :
        packet[i] = {} => final[i] = "Insufficient Evidence"
=============================================================================
