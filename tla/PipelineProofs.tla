----------------------------- MODULE PipelineProofs -----------------------------
(***************************************************************************)
(* What a report cites, how many calls it made and what it cost, for any   *)
(* number of assumptions, cases and analogues and any budgets.             *)
(***************************************************************************)
EXTENDS Pipeline, FiniteSetTheorems, TLAPS

\* Where the pipeline is in its loops, and which answers are still missing.
Staged ==
    /\ pc = "extract" => n = 0
    /\ pc \notin {"extract", "failed"} => n \in MinAssumptions .. MaxAssumptions
    /\ pc \in Looping => at <= n
    /\ pc # "failed" => code = "none"
    /\ pc \in {"extract", "queries", "retrieve"} => \A i \in Ids : evaluated[i] = None
    /\ pc \in {"extract", "queries", "retrieve", "financials", "evaluate"} =>
          \A i \in Ids : reviewed[i] = None

\* What the answers that were accepted cite, and how they judge.
Cited ==
    \A i \in Ids :
        /\ evaluated[i].refs \subseteq packet[i]
        /\ reviewed[i].refs \subseteq evaluated[i].refs
        /\ evaluated[i].assessment \notin Supports
        /\ evaluated[i].assessment = "Contradicted" => evaluated[i].refs # {}
        /\ reviewed[i].assessment \notin Supports
        /\ reviewed[i].assessment = "Contradicted" => reviewed[i].refs # {}

\* The assumptions the provider is asked to evaluate, and those it is asked to review.
WithEvidence == {i \in Ids : packet[i] # {}}
WithFinding == {i \in Ids : evaluated[i].assessment # "Insufficient Evidence"}

\* How many members of S the loop has passed when it is at k + 1.
Passed(S, k) == Cardinality(S \cap 1 .. k)

\* The calls made so far, by the stage.
Counted ==
    /\ pc = "extract" => calls = 0
    /\ pc = "queries" => calls = 1
    /\ pc \in {"retrieve", "financials"} => calls = 2
    /\ pc = "evaluate" => calls = 2 + Passed(WithEvidence, at - 1)
    /\ pc = "review" => calls = 2 + Passed(WithEvidence, n) + Passed(WithFinding, at - 1)
    /\ pc = "score" => calls = 2 + Passed(WithEvidence, n) + Passed(WithFinding, n) + at - 1
    /\ pc \in {"build", "published"} =>
          calls = 2 + Passed(WithEvidence, n) + Passed(WithFinding, n) + n

\* Whoever ran out of calls had a budget below 2 + 3 * n.
Exhausted == code = "LLM_BUDGET_EXCEEDED" => cost > CostBudget \/ CallBudget < 2 + 3 * n

IInv == TypeOK /\ Staged /\ Cited /\ Counted /\ Exhausted /\ BudgetsHold
-----------------------------------------------------------------------------
LEMMA NoneFields ==
    /\ None.assessment = "none" /\ None.refs = {}
    /\ Unsupported.assessment = "Insufficient Evidence" /\ Unsupported.refs = {}
    /\ \A a, r : Evaluation(a, r).assessment = a /\ Evaluation(a, r).refs = r
BY DEF None, Unsupported, Evaluation

LEMMA OneMore ==
    ASSUME NEW S, NEW U, NEW x
    PROVE  S \cap (U \cup {x}) = IF x \in S THEN (S \cap U) \cup {x} ELSE S \cap U
OBVIOUS

\* What the loop has passed grows by the assumption it leaves, if that is in the set.
LEMMA PassedGrows ==
    ASSUME NEW S, NEW k \in Nat
    PROVE  /\ Passed(S, k) \in 0 .. k
           /\ Passed(S, k + 1) = IF k + 1 \in S THEN Passed(S, k) + 1 ELSE Passed(S, k)
           /\ Passed(S, 0) = 0
<1>1. IsFiniteSet(1 .. k) /\ Cardinality(1 .. k) = k
  BY FS_Interval
<1>2. S \cap 1 .. k \in SUBSET (1 .. k)
  OBVIOUS
<1>3. IsFiniteSet(S \cap 1 .. k) /\ Passed(S, k) <= k
  BY <1>1, <1>2, FS_Subset DEF Passed
<1>4. Passed(S, k) \in Nat
  BY <1>3, FS_CardinalityType DEF Passed
<1>5. 1 .. (k + 1) = (1 .. k) \cup {k + 1} /\ k + 1 \notin 1 .. k
  OBVIOUS
<1>6. ASSUME k + 1 \in S PROVE Passed(S, k + 1) = Passed(S, k) + 1
  <2>1. S \cap 1 .. (k + 1) = (S \cap 1 .. k) \cup {k + 1} /\ k + 1 \notin S \cap 1 .. k
    <3>1. S \cap ((1 .. k) \cup {k + 1}) = (S \cap 1 .. k) \cup {k + 1}
      BY <1>6, OneMore, Zenon
    <3> QED
      BY <1>5, <3>1, Zenon
  <2> QED
    BY <1>3, <2>1, FS_AddElement DEF Passed
<1>7. ASSUME k + 1 \notin S PROVE Passed(S, k + 1) = Passed(S, k)
  <2>1. S \cap 1 .. (k + 1) = S \cap 1 .. k
    <3>1. S \cap ((1 .. k) \cup {k + 1}) = S \cap 1 .. k
      BY <1>7, OneMore, Zenon
    <3> QED
      BY <1>5, <3>1, Zenon
  <2> QED
    BY <2>1 DEF Passed
<1>8. Passed(S, 0) = 0
  <2>1. S \cap 1 .. 0 = {}
    OBVIOUS
  <2> QED
    BY <2>1, FS_EmptySet DEF Passed
<1> QED
  BY <1>3, <1>4, <1>6, <1>7, <1>8
-----------------------------------------------------------------------------
\* The ways a step ends an analysis: which stage it can leave, and why.
Failing ==
    /\ pc \notin Ended /\ pc' = "failed"
    /\ UNCHANGED <<n, at, answers>>
    /\ code' \in {"LLM_BUDGET_EXCEEDED", "LLM_ERROR", "INVALID_ASSUMPTIONS",
                  "INVALID_RETRIEVAL_QUERY", "RETRIEVAL_FAILED", "ANALYSIS_FAILED",
                  "INVALID_EVIDENCE_REFERENCE"}
    /\ \/ UNCHANGED <<calls, cost>>
       \/ calls < CallBudget /\ calls' = calls + 1 /\ \E price \in 0 .. MaxPrice : cost' = cost + price
    /\ code' = "LLM_BUDGET_EXCEEDED" => cost' > CostBudget \/ (Asking /\ calls >= CallBudget)

\* The ways it goes on.
Going ==
    \/ Extract \/ BuildQueries \/ Retrieve \/ CalculateFinancials
    \/ Evaluate \/ SkipEvaluation \/ Review \/ SkipReview \/ Score \/ Build

LEMMA Moves ==
    ASSUME Next
    PROVE  Failing \/ (Going /\ pc' # "failed")
<1> USE DEF Failing, Fail, Spend, Afforded, Asking, Ended
<1>1. CASE CallsExhausted
  BY <1>1 DEF CallsExhausted
<1>2. CASE CostExceeded
  BY <1>2 DEF CostExceeded
<1>3. CASE ProviderFails
  BY <1>3 DEF ProviderFails
<1>4. CASE Extract
  BY <1>4 DEF Extract, Goto, Going
<1>5. CASE BuildQueries
  BY <1>5 DEF BuildQueries, Goto, Going
<1>6. CASE Retrieve
  BY <1>6 DEF Retrieve, Goto, Going
<1>7. CASE CalculateFinancials
  BY <1>7 DEF CalculateFinancials, Goto, Going
<1>8. CASE Evaluate
  BY <1>8 DEF Evaluate, Advance, Goto, Going
<1>9. CASE Review
  BY <1>9 DEF Review, Advance, Goto, Going
<1>10. CASE SkipEvaluation \/ SkipReview \/ Score \/ Build
  BY <1>10 DEF SkipEvaluation, SkipReview, Score, Build, Advance, Goto, Going
<1> QED
  BY <1>1, <1>2, <1>3, <1>4, <1>5, <1>6, <1>7, <1>8, <1>9, <1>10 DEF Next
-----------------------------------------------------------------------------
LEMMA FailingKeeps ==
    ASSUME IInv, Failing
    PROVE  IInv'
<1> USE PipelineAssumption DEF Failing, Ended, answers
<1>1. TypeOK'
  BY DEF IInv, TypeOK, BudgetsHold
<1>2. Staged' /\ Counted'
  BY DEF IInv, Staged, Counted, Looping
<1>3. Cited'
  BY DEF IInv, Cited
<1>4. Exhausted'
  <2> SUFFICES ASSUME code' = "LLM_BUDGET_EXCEEDED", Asking, calls >= CallBudget
               PROVE  CallBudget < 2 + 3 * n
    BY DEF Exhausted
  <2>1. Passed(WithEvidence, n) \in 0 .. n /\ Passed(WithFinding, n) \in 0 .. n
    BY PassedGrows DEF IInv, TypeOK
  <2>2. pc \in Looping =>
           /\ at - 1 \in 0 .. n - 1
           /\ Passed(WithEvidence, at - 1) \in 0 .. at - 1
           /\ Passed(WithFinding, at - 1) \in 0 .. at - 1
    BY PassedGrows DEF IInv, TypeOK, Staged, Ids
  <2>3. calls \in Nat /\ n \in Nat /\ at \in Nat /\ CallBudget \in Nat
    BY DEF IInv, TypeOK, Ids
  <2>4. CASE pc \in {"extract", "queries"}
    BY <2>3, <2>4 DEF IInv, Staged, Counted
  <2>5. CASE pc = "evaluate"
    BY <2>1, <2>2, <2>3, <2>5 DEF IInv, Staged, Counted, Looping
  <2>6. CASE pc = "review"
    BY <2>1, <2>2, <2>3, <2>6 DEF IInv, Staged, Counted, Looping
  <2>7. CASE pc = "score"
    BY <2>1, <2>2, <2>3, <2>7 DEF IInv, Staged, Counted, Looping
  <2> QED
    BY <2>4, <2>5, <2>6, <2>7 DEF Asking
<1>5. BudgetsHold'
  BY DEF IInv, TypeOK, BudgetsHold
<1> QED
  BY <1>1, <1>2, <1>3, <1>4, <1>5 DEF IInv
-----------------------------------------------------------------------------
\* A step that goes on stays within the budgets.
LEMMA PaidFor ==
    ASSUME IInv, pc \notin Ended, pc' # "failed", code' = code,
           Afforded \/ UNCHANGED <<calls, cost>>
    PROVE  /\ calls' \in 0 .. CallBudget /\ cost' \in 0 .. CostBudget + MaxPrice
           /\ Exhausted' /\ BudgetsHold'
<1> USE PipelineAssumption DEF IInv, TypeOK, BudgetsHold
<1>1. calls' \in 0 .. CallBudget /\ cost' \in 0 .. CostBudget
  BY DEF Afforded, Spend
<1> QED
  BY <1>1 DEF Exhausted, Staged, Ended

\* The stages before the loops.
LEMMA OpeningStep ==
    ASSUME IInv, pc' # "failed",
           Extract \/ BuildQueries \/ Retrieve \/ CalculateFinancials
    PROVE  IInv'
<1> USE PipelineAssumption DEF Goto, Fail, Ids
<1>1. /\ pc \in {"extract", "queries", "retrieve", "financials"}
      /\ code' = code /\ at' = 1
      /\ Afforded \/ UNCHANGED <<calls, cost>>
      /\ UNCHANGED <<evaluated, reviewed, final>>
  BY DEF Extract, BuildQueries, Retrieve, CalculateFinancials, answers
<1>2. /\ calls' \in 0 .. CallBudget /\ cost' \in 0 .. CostBudget + MaxPrice
      /\ Exhausted' /\ BudgetsHold'
  BY <1>1, PaidFor DEF Ended
<1>3. CASE Extract
  <2>1. /\ pc = "extract" /\ pc' = "queries" /\ UNCHANGED packet
        /\ calls' = calls + 1
    BY <1>3 DEF Extract, answers, Afforded, Spend
  <2>2. n' \in MinAssumptions .. MaxAssumptions
    BY <1>3 DEF Extract
  <2> QED
    BY <1>1, <1>2, <2>1, <2>2 DEF IInv, TypeOK, Staged, Cited, Counted, Looping
<1>4. CASE BuildQueries
  <2>1. /\ pc = "queries" /\ pc' = "retrieve" /\ UNCHANGED <<n, packet>>
        /\ calls' = calls + 1
    BY <1>4 DEF BuildQueries, answers, Afforded, Spend
  <2> QED
    BY <1>1, <1>2, <2>1 DEF IInv, TypeOK, Staged, Cited, Counted, Looping
<1>5. CASE Retrieve
  <2>1. pc = "retrieve" /\ pc' = "financials" /\ UNCHANGED <<n, calls, cost>>
    BY <1>5 DEF Retrieve
  <2>2. packet' \in [Ids -> SUBSET Cases]
    <3>1. n \in Nat
      BY DEF IInv, TypeOK
    <3>2. PICK found \in [1 .. n -> SUBSET Cases] :
             packet' = [i \in Ids |-> IF i <= n THEN found[i] ELSE {}]
      BY <1>5 DEF Retrieve
    <3> QED
      BY <3>1, <3>2
  <2>3. Cited'
    BY <1>1, <2>1, NoneFields DEF IInv, Staged, Cited, Supports
  <2> QED
    BY <1>1, <1>2, <2>1, <2>2, <2>3 DEF IInv, TypeOK, Staged, Counted, Looping
<1>6. CASE CalculateFinancials
  <2>1. /\ pc = "financials" /\ pc' = "evaluate" /\ UNCHANGED <<n, packet, calls, cost>>
    BY <1>6 DEF CalculateFinancials, answers
  <2>2. Passed(WithEvidence', at' - 1) = 0
    <3>1. at' - 1 = 0
      BY <1>1
    <3> QED
      BY <3>1, PassedGrows
  <2>3. n' >= 1
    BY <2>1 DEF IInv, TypeOK, Staged
  <2> QED
    BY <1>1, <1>2, <2>1, <2>2, <2>3 DEF IInv, TypeOK, Staged, Cited, Counted, Looping
<1> QED
  BY <1>3, <1>4, <1>5, <1>6
-----------------------------------------------------------------------------
\* An iteration leaves a loop at its next assumption, or opens the stage after it.
LEMMA Iteration ==
    ASSUME IInv, NEW stage, pc \in Looping, Advance(stage)
    PROVE  /\ code' = code
           /\ \/ at < n /\ at' = at + 1 /\ pc' = pc
              \/ at = n /\ at' = 1 /\ pc' = stage
           /\ n \in MinAssumptions .. MaxAssumptions /\ at \in 1 .. n
           /\ pc' = pc \/ pc' = stage
BY PipelineAssumption DEF IInv, TypeOK, Staged, Advance, Goto, Looping, Ids

LEMMA EvaluationTyped ==
    ASSUME NEW a \in Assessments, NEW refs \in SUBSET References
    PROVE  Evaluation(a, refs) \in Evaluations
BY DEF Evaluation, Evaluations

\* What the validation demands of an answer and the policy makes of it.
LEMMA EvaluationFields ==
    ASSUME NEW a, NEW refs
    PROVE  /\ Evaluation(a, refs).assessment = a
           /\ Evaluation(a, refs).refs = refs
           /\ a \in Supports => Policy(Evaluation(a, refs)) = Evaluation("Insufficient Evidence", refs)
           /\ a \notin Supports => Policy(Evaluation(a, refs)) = Evaluation(a, refs)
           /\ ValidEvaluation(Evaluation(a, refs)) <=>
                 refs \subseteq packet[at] /\ (a # "Insufficient Evidence" => refs # {})
<1>1. Evaluation(a, refs).assessment = a /\ Evaluation(a, refs).refs = refs
  BY DEF Evaluation
<1>2. ValidEvaluation(Evaluation(a, refs)) <=>
         refs \subseteq packet[at] /\ (a # "Insufficient Evidence" => refs # {})
  BY <1>1 DEF ValidEvaluation
<1>3. ASSUME a \in Supports
      PROVE  Policy(Evaluation(a, refs)) = Evaluation("Insufficient Evidence", refs)
  BY <1>3 DEF Policy, Evaluation
<1>4. ASSUME a \notin Supports PROVE Policy(Evaluation(a, refs)) = Evaluation(a, refs)
  BY <1>4 DEF Policy, Evaluation
<1> QED
  BY <1>1, <1>2, <1>3, <1>4

LEMMA EvaluateStep ==
    ASSUME IInv, pc' # "failed", Evaluate \/ SkipEvaluation
    PROVE  IInv'
<1> USE PipelineAssumption
<1>1. pc = "evaluate" /\ Advance("review") /\ UNCHANGED <<n, packet, reviewed, final>>
  BY DEF Evaluate, SkipEvaluation, Fail
<1>2. /\ code' = code
      /\ \/ at < n /\ at' = at + 1 /\ pc' = pc
         \/ at = n /\ at' = 1 /\ pc' = "review"
      /\ n \in MinAssumptions .. MaxAssumptions /\ at \in 1 .. n
  BY <1>1, Iteration DEF Looping
<1>3. Afforded \/ UNCHANGED <<calls, cost>>
  BY DEF Evaluate, SkipEvaluation
<1>4. /\ calls' \in 0 .. CallBudget /\ cost' \in 0 .. CostBudget + MaxPrice
      /\ Exhausted' /\ BudgetsHold'
  BY <1>1, <1>2, <1>3, PaidFor DEF Ended
<1>5. PICK e \in Evaluations :
         /\ evaluated' = [evaluated EXCEPT ![at] = e]
         /\ e.refs \subseteq packet[at]
         /\ e.assessment \notin Supports
         /\ e.assessment = "Contradicted" => e.refs # {}
  <2>1. CASE Evaluate
    <3>1. PICK a \in Assessments, refs \in SUBSET References :
             /\ ValidEvaluation(Evaluation(a, refs))
             /\ evaluated' = [evaluated EXCEPT ![at] = Policy(Evaluation(a, refs))]
      BY <2>1 DEF Evaluate, Fail
    <3>2. refs \subseteq packet[at] /\ (a # "Insufficient Evidence" => refs # {})
      BY <3>1, EvaluationFields, Zenon
    <3>3. PICK b \in Assessments : /\ Policy(Evaluation(a, refs)) = Evaluation(b, refs)
                                   /\ b \notin Supports
                                   /\ b = "Contradicted" => a = b
      <4>1. CASE a \in Supports
        <5>1. Policy(Evaluation(a, refs)) = Evaluation("Insufficient Evidence", refs)
          BY <4>1, EvaluationFields
        <5>2. "Insufficient Evidence" \in Assessments \ Supports
          BY DEF Assessments, Supports
        <5> QED
          BY <5>1, <5>2
      <4>2. CASE a \notin Supports
        BY <4>2, EvaluationFields
      <4> QED
        BY <4>1, <4>2
    <3>4. /\ Evaluation(b, refs) \in Evaluations
          /\ Evaluation(b, refs).assessment = b /\ Evaluation(b, refs).refs = refs
      BY EvaluationTyped, EvaluationFields
    <3>5. b = "Contradicted" => refs # {}
      BY <3>2, <3>3
    <3> QED
      BY <3>1, <3>2, <3>3, <3>4, <3>5
  <2>2. CASE SkipEvaluation
    <3>1. Unsupported \in Evaluations
      BY DEF Unsupported, Evaluation, Evaluations, Assessments
    <3>2. /\ Unsupported.refs \subseteq packet[at] /\ Unsupported.assessment \notin Supports
          /\ Unsupported.assessment # "Contradicted"
      BY DEF Unsupported, Evaluation, Supports
    <3>3. evaluated' = [evaluated EXCEPT ![at] = Unsupported]
      BY <2>2 DEF SkipEvaluation
    <3> QED
      BY <3>1, <3>2, <3>3, Zenon
  <2> QED
    BY <2>1, <2>2
<1>6. TypeOK'
  BY <1>1, <1>2, <1>4, <1>5 DEF IInv, TypeOK, Ids, Looping, Ended
<1>7. Staged'
  BY <1>1, <1>2 DEF IInv, Staged, Looping, TypeOK
<1>8. Cited'
  <2>1. \A i \in Ids : reviewed[i] = None
    BY <1>1 DEF IInv, Staged
  <2>2. \A i \in Ids : evaluated'[i] = IF i = at THEN e ELSE evaluated[i]
    BY <1>5 DEF IInv, TypeOK
  <2>3. \A i \in Ids :
           /\ evaluated'[i].refs \subseteq packet[i]
           /\ evaluated'[i].assessment \notin Supports
           /\ evaluated'[i].assessment = "Contradicted" => evaluated'[i].refs # {}
    <3> TAKE i \in Ids
    <3>1. CASE i = at
      BY <1>5, <2>2, <3>1
    <3>2. CASE i # at
      BY <2>2, <3>2 DEF IInv, Cited
    <3> QED
      BY <3>1, <3>2
  <2>4. None.refs = {} /\ None.assessment \notin Supports \cup {"Contradicted"}
    BY NoneFields DEF Supports
  <2> QED
    BY <1>1, <2>1, <2>3, <2>4 DEF Cited
<1>9. Counted'
  <2>1. WithEvidence' = WithEvidence
    BY <1>1 DEF WithEvidence
  <2>2. calls' = IF at \in WithEvidence THEN calls + 1 ELSE calls
    BY <1>1, <1>2 DEF Evaluate, SkipEvaluation, Afforded, Spend, Asking, WithEvidence, Ids
  <2>3. calls = 2 + Passed(WithEvidence, at - 1)
    BY <1>1 DEF IInv, Counted
  <2>4. at - 1 \in Nat /\ (at - 1) + 1 = at
    BY <1>2
  <2>5. /\ Passed(WithEvidence, at - 1) \in Nat
        /\ Passed(WithEvidence, at) = IF at \in WithEvidence
                                      THEN Passed(WithEvidence, at - 1) + 1
                                      ELSE Passed(WithEvidence, at - 1)
    BY <2>4, PassedGrows
  <2>6. calls' = 2 + Passed(WithEvidence, at)
    BY <2>2, <2>3, <2>5
  <2>7. CASE at < n /\ at' = at + 1 /\ pc' = pc
    BY <1>1, <1>2, <2>1, <2>6, <2>7 DEF Counted
  <2>8. CASE at = n /\ at' = 1 /\ pc' = "review"
    <3>1. Passed(WithFinding', at' - 1) = 0
      BY <2>8, PassedGrows
    <3> QED
      BY <1>1, <2>1, <2>5, <2>6, <2>8, <3>1 DEF Counted
  <2> QED
    BY <1>2, <2>7, <2>8
<1> QED
  BY <1>4, <1>6, <1>7, <1>8, <1>9 DEF IInv
-----------------------------------------------------------------------------
\* What an evaluation that is typed consists of.
LEMMA EvaluatedFields ==
    ASSUME NEW e \in Evaluations
    PROVE  /\ e.assessment \in Assessments \cup {"none"}
           /\ e.refs \in SUBSET References
           /\ e.assessment = "none" => e = None
BY NoneFields DEF Evaluations, Assessments, Supports

LEMMA ReviewStep ==
    ASSUME IInv, pc' # "failed", Review \/ SkipReview
    PROVE  IInv'
<1> USE PipelineAssumption
<1>1. pc = "review" /\ Advance("score") /\ UNCHANGED <<n, packet, evaluated, final>>
  BY DEF Review, SkipReview, Fail
<1>2. /\ code' = code
      /\ \/ at < n /\ at' = at + 1 /\ pc' = pc
         \/ at = n /\ at' = 1 /\ pc' = "score"
      /\ n \in MinAssumptions .. MaxAssumptions /\ at \in 1 .. n
  BY <1>1, Iteration DEF Looping
<1>3. Afforded \/ UNCHANGED <<calls, cost>>
  BY DEF Review, SkipReview
<1>4. /\ calls' \in 0 .. CallBudget /\ cost' \in 0 .. CostBudget + MaxPrice
      /\ Exhausted' /\ BudgetsHold'
  BY <1>1, <1>2, <1>3, PaidFor DEF Ended
<1>5. at \in Ids /\ evaluated[at] \in Evaluations
  BY <1>2 DEF IInv, TypeOK, Ids
<1>6. /\ evaluated[at].assessment \notin Supports
      /\ evaluated[at].assessment = "Contradicted" => evaluated[at].refs # {}
  BY <1>5 DEF IInv, Cited
<1>7. PICK r \in Evaluations :
         /\ reviewed' = [reviewed EXCEPT ![at] = r]
         /\ r.refs \subseteq evaluated[at].refs
         /\ r.assessment \notin Supports
         /\ r.assessment = "Contradicted" => r.refs # {}
  <2> DEFINE a == evaluated[at].assessment
  <2>1. CASE SkipReview
    BY <1>5, <1>6, <2>1 DEF SkipReview
  <2>2. CASE Review
    <3>1. PICK disposition \in {"keep", "weaken", "discard"}, refs \in SUBSET References :
             /\ ValidReview(disposition, refs)
             /\ reviewed' = [reviewed EXCEPT ![at] = Applied(disposition, refs)]
      BY <2>2 DEF Review, Fail
    <3>2. refs \subseteq evaluated[at].refs
      BY <3>1 DEF ValidReview
    <3>3. CASE disposition = "keep"
      <4>1. Applied(disposition, refs) = Evaluation(a, refs)
        BY <3>3 DEF Applied
      <4>2. a = "Contradicted" => refs # {}
        BY <3>1, <3>3 DEF ValidReview
      <4>3. Evaluation(a, refs) \in Evaluations
        <5>1. CASE a = "none"
          <6>1. refs = {}
            BY <1>5, <3>2, <5>1, EvaluatedFields, NoneFields
          <6> QED
            BY <5>1, <6>1 DEF None, Evaluations
        <5>2. CASE a # "none"
          BY <1>5, <5>2, EvaluatedFields, EvaluationTyped
        <5> QED
          BY <5>1, <5>2
      <4>4. Evaluation(a, refs).assessment = a /\ Evaluation(a, refs).refs = refs
        BY NoneFields
      <4> QED
        BY <1>6, <3>1, <3>2, <4>1, <4>2, <4>3, <4>4
    <3>4. CASE disposition = "weaken"
      <4>1. Applied(disposition, refs) = Evaluation("Insufficient Evidence", refs)
        <5>1. Weakened(a) = "Insufficient Evidence"
          BY <1>6 DEF Weakened, Supports
        <5> QED
          BY <3>4, <5>1 DEF Applied
      <4>2. Evaluation("Insufficient Evidence", refs) \in Evaluations
        BY EvaluationTyped DEF Assessments
      <4>3. /\ Evaluation("Insufficient Evidence", refs).assessment = "Insufficient Evidence"
            /\ Evaluation("Insufficient Evidence", refs).refs = refs
        BY NoneFields
      <4>4. "Insufficient Evidence" \notin Supports
        BY DEF Supports
      <4> QED
        BY <3>1, <3>2, <4>1, <4>2, <4>3, <4>4
    <3>5. CASE disposition = "discard"
      <4>1. Applied(disposition, refs) = Unsupported
        BY <3>5 DEF Applied
      <4>2. Unsupported \in Evaluations
        BY EvaluationTyped DEF Unsupported, Assessments
      <4>3. Unsupported.assessment \notin Supports
        BY NoneFields DEF Supports
      <4> QED
        BY <3>1, <4>1, <4>2, <4>3, NoneFields
    <3> QED
      BY <3>3, <3>4, <3>5
  <2> QED
    BY <2>1, <2>2
<1>8. TypeOK'
  BY <1>1, <1>2, <1>4, <1>7 DEF IInv, TypeOK, Ids, Looping, Ended
<1>9. Staged'
  BY <1>1, <1>2 DEF IInv, Staged, Looping, TypeOK
<1>10. Cited'
  <2>1. \A i \in Ids : reviewed'[i] = IF i = at THEN r ELSE reviewed[i]
    BY <1>7 DEF IInv, TypeOK
  <2>2. \A i \in Ids :
           /\ reviewed'[i].refs \subseteq evaluated[i].refs
           /\ reviewed'[i].assessment \notin Supports
           /\ reviewed'[i].assessment = "Contradicted" => reviewed'[i].refs # {}
    <3> TAKE i \in Ids
    <3>1. CASE i = at
      BY <1>7, <2>1, <3>1
    <3>2. CASE i # at
      BY <2>1, <3>2 DEF IInv, Cited
    <3> QED
      BY <3>1, <3>2
  <2> QED
    BY <1>1, <2>2 DEF IInv, Cited
<1>11. Counted'
  <2>1. WithEvidence' = WithEvidence /\ WithFinding' = WithFinding
    BY <1>1 DEF WithEvidence, WithFinding
  <2>2. calls' = IF at \in WithFinding THEN calls + 1 ELSE calls
    BY <1>1, <1>5 DEF Review, SkipReview, Afforded, Spend, Asking, WithFinding
  <2>3. calls = 2 + Passed(WithEvidence, n) + Passed(WithFinding, at - 1)
    BY <1>1 DEF IInv, Counted
  <2>4. at - 1 \in Nat /\ (at - 1) + 1 = at /\ n \in Nat
    BY <1>2
  <2>5. /\ Passed(WithEvidence, n) \in Nat /\ Passed(WithFinding, at - 1) \in Nat
        /\ Passed(WithFinding, at) = IF at \in WithFinding
                                     THEN Passed(WithFinding, at - 1) + 1
                                     ELSE Passed(WithFinding, at - 1)
    BY <2>4, PassedGrows
  <2>6. calls' = 2 + Passed(WithEvidence, n) + Passed(WithFinding, at)
    BY <2>2, <2>3, <2>5
  <2>7. CASE at < n /\ at' = at + 1 /\ pc' = pc
    BY <1>1, <1>2, <2>1, <2>6, <2>7 DEF Counted
  <2>8. CASE at = n /\ at' = 1 /\ pc' = "score"
    BY <1>1, <2>1, <2>5, <2>6, <2>8 DEF Counted
  <2> QED
    BY <1>2, <2>7, <2>8
<1> QED
  BY <1>4, <1>8, <1>9, <1>10, <1>11 DEF IInv
-----------------------------------------------------------------------------
LEMMA ClosingStep ==
    ASSUME IInv, pc' # "failed", Score \/ Build
    PROVE  IInv'
<1> USE PipelineAssumption
<1>1. /\ pc \in {"score", "build"} /\ UNCHANGED <<n, packet, evaluated, reviewed>>
      /\ Afforded \/ UNCHANGED <<calls, cost>>
  BY DEF Score, Build, answers
<1>2. WithEvidence' = WithEvidence /\ WithFinding' = WithFinding
  BY <1>1 DEF WithEvidence, WithFinding
<1>3. CASE Score
  <2>1. pc = "score" /\ Advance("build") /\ Afforded
    BY <1>3 DEF Score
  <2>2. /\ code' = code
        /\ \/ at < n /\ at' = at + 1 /\ pc' = pc
           \/ at = n /\ at' = 1 /\ pc' = "build"
        /\ n \in MinAssumptions .. MaxAssumptions /\ at \in 1 .. n
    BY <2>1, Iteration DEF Looping
  <2>3. /\ calls' \in 0 .. CallBudget /\ cost' \in 0 .. CostBudget + MaxPrice
        /\ Exhausted' /\ BudgetsHold'
    BY <2>1, <2>2, PaidFor DEF Ended
  <2>4. final' \in [Ids -> Assessments \cup {"none"}]
    <3>1. PICK direction \in Directions, strength \in Strengths :
             final' = [final EXCEPT ![at] = Assessment(direction, strength)]
      BY <1>3 DEF Score
    <3>2. Assessment(direction, strength) \in Assessments
      BY DEF Assessment, Assessments, Supports, Directions, Strengths
    <3> QED
      BY <3>1, <3>2 DEF IInv, TypeOK
  <2>5. TypeOK'
    BY <1>1, <2>1, <2>2, <2>3, <2>4 DEF IInv, TypeOK, Ids, Looping, Ended
  <2>6. Staged' /\ Cited'
    BY <1>1, <2>1, <2>2 DEF IInv, Staged, Cited, Looping, TypeOK
  <2>7. Counted'
    <3>1. calls' = calls + 1
      BY <2>1 DEF Afforded, Spend
    <3>2. /\ Passed(WithEvidence, n) \in Nat /\ Passed(WithFinding, n) \in Nat
      BY <2>2, PassedGrows
    <3> QED
      BY <1>1, <1>2, <2>1, <2>2, <3>1, <3>2 DEF IInv, Counted
  <2> QED
    BY <2>3, <2>5, <2>6, <2>7 DEF IInv
<1>4. CASE Build
  <2>1. /\ pc = "build" /\ pc' = "published" /\ at' = 1 /\ code' = code
        /\ UNCHANGED <<final, calls, cost>>
    BY <1>4 DEF Build, Goto, answers
  <2>2. Exhausted' /\ BudgetsHold'
    BY <2>1, PaidFor DEF Ended
  <2>3. TypeOK'
    BY <1>1, <2>1 DEF IInv, TypeOK, Ids, Looping, Ended
  <2>4. Staged' /\ Cited' /\ Counted'
    BY <1>1, <1>2, <2>1 DEF IInv, Staged, Cited, Counted, Looping
  <2> QED
    BY <2>2, <2>3, <2>4 DEF IInv
<1> QED
  BY <1>3, <1>4

LEMMA Invariance == Spec => []IInv
<1>1. ASSUME Init PROVE IInv
  <2> USE <1>1, PipelineAssumption DEF Init
  <2>1. TypeOK
    BY DEF TypeOK, Ids, Evaluations
  <2>2. Staged /\ Counted /\ Exhausted
    BY DEF Staged, Counted, Exhausted, Looping
  <2>3. Cited
    BY NoneFields DEF Cited, Supports
  <2>4. BudgetsHold
    BY DEF BudgetsHold
  <2> QED
    BY <2>1, <2>2, <2>3, <2>4 DEF IInv
<1>2. IInv /\ [Next]_vars => IInv'
  <2>1. ASSUME IInv, Next PROVE IInv'
    BY <2>1, Moves, FailingKeeps, OpeningStep, EvaluateStep, ReviewStep, ClosingStep DEF Going
  <2>2. ASSUME IInv, UNCHANGED vars PROVE IInv'
    <3>1. WithEvidence' = WithEvidence /\ WithFinding' = WithFinding
      BY <2>2 DEF vars, WithEvidence, WithFinding
    <3>2. TypeOK' /\ Staged' /\ Cited' /\ Exhausted' /\ BudgetsHold'
      BY <2>2 DEF vars, IInv, TypeOK, Staged, Cited, Exhausted, BudgetsHold
    <3>3. Counted'
      BY <2>2, <3>1 DEF vars, IInv, Counted
    <3> QED
      BY <3>2, <3>3 DEF IInv
  <2> QED
    BY <2>1, <2>2
<1> QED
  BY <1>1, <1>2, PTL DEF Spec
-----------------------------------------------------------------------------
\* Every state of the pipeline is well typed.
THEOREM TypeCorrect == Spec => []TypeOK
<1>1. IInv => TypeOK
  BY DEF IInv
<1> QED
  BY <1>1, Invariance, PTL

\* Whatever the provider answers, a report cites only what was retrieved for the assumption.
THEOREM CitationsAlwaysResolve == Spec => []CitationsResolve
<1>1. ASSUME IInv PROVE CitationsResolve
  <2> SUFFICES ASSUME pc = "published", NEW i \in 1 .. n
               PROVE  /\ reviewed[i].refs \subseteq evaluated[i].refs
                      /\ evaluated[i].refs \subseteq packet[i] /\ packet[i] \subseteq Sources
    BY DEF CitationsResolve
  <2>1. i \in Ids
    BY <1>1, PipelineAssumption DEF IInv, TypeOK, Ids
  <2>2. packet[i] \subseteq Sources
    BY DEF Sources
  <2> QED
    BY <1>1, <2>1, <2>2 DEF IInv, Cited
<1> QED
  BY <1>1, Invariance, PTL

\* Historical failures never support an assumption, and contradict it only with a citation.
THEOREM HistoryNeverSupports == Spec => []HistoryOnlyContradicts
<1>1. IInv => HistoryOnlyContradicts
  BY DEF IInv, Cited, HistoryOnlyContradicts
<1> QED
  BY <1>1, Invariance, PTL

\* No analysis makes more calls, or publishes at a higher cost, than its budgets allow.
THEOREM BudgetsAlwaysHold == Spec => []BudgetsHold
<1>1. IInv => BudgetsHold
  BY DEF IInv
<1> QED
  BY <1>1, Invariance, PTL

\* The calls of a published report are those its evidence and its findings ask for.
THEOREM CallsAreCounted == Spec => []CallsAccountedFor
<1>1. ASSUME IInv PROVE CallsAccountedFor
  <2> DEFINE Evaluating == {i \in 1 .. n : packet[i] # {}}
             Reviewing == {i \in 1 .. n : evaluated[i].assessment # "Insufficient Evidence"}
  <2>1. n \in Nat /\ 1 .. n \subseteq Ids
    BY <1>1, PipelineAssumption DEF IInv, TypeOK, Ids
  <2>2. Evaluating = WithEvidence \cap 1 .. n
    BY <2>1, Zenon DEF WithEvidence
  <2>3. Reviewing = WithFinding \cap 1 .. n
    BY <2>1, Zenon DEF WithFinding
  <2>4. /\ Passed(WithEvidence, n) \in Nat /\ Passed(WithFinding, n) \in Nat
    BY <2>1, PassedGrows
  <2>5. pc = "published" => calls = 2 + Passed(WithEvidence, n) + Passed(WithFinding, n) + n
    BY <1>1 DEF IInv, Counted
  <2> HIDE DEF Evaluating, Reviewing
  <2>6. pc = "published" => calls = 2 + n + Cardinality(Evaluating) + Cardinality(Reviewing)
    BY <2>1, <2>2, <2>3, <2>4, <2>5 DEF Passed
  <2> QED
    BY <2>6, Zenon DEF CallsAccountedFor, Evaluating, Reviewing
<1> QED
  BY <1>1, Invariance, PTL

\* Two calls and three for each assumption are always enough.
THEOREM CallsSuffice == Spec => []CallBudgetSuffices
<1>1. IInv => CallBudgetSuffices
  BY PipelineAssumption DEF IInv, TypeOK, Exhausted, CallBudgetSuffices
<1> QED
  BY <1>1, Invariance, PTL
=============================================================================
