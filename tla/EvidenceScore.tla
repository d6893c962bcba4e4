---------------------------- MODULE EvidenceScore ----------------------------
(***************************************************************************)
(* The evidence-strength score of an assumption and the assessment that    *)
(* follows from it.  Components are hundredths of a point; the score is in *)
(* tenths, as round(..., 1) leaves it.  A sum halfway between two tenths   *)
(* has no exact binary representation, so it may be rounded either way.    *)
(***************************************************************************)
EXTENDS Integers

Components == {"directness", "decision_specificity", "observed_evidence",
               "comparability", "coverage", "source_quality"}
Limit(component) ==
    CASE component \in {"directness", "decision_specificity", "observed_evidence"} -> 200
      [] component \in {"comparability", "coverage"} -> 150
      [] component = "source_quality" -> 100

\* EvidenceStrengthBreakdownLLM.
Breakdowns == {b \in [Components -> 0 .. 200] : \A k \in Components : b[k] <= Limit(k)}

Directions == {"supports", "contradicts", "mixed", "neutral"}

Points(b) == b["directness"] + b["decision_specificity"] + b["observed_evidence"]
           + b["comparability"] + b["coverage"] + b["source_quality"]

\* Slip: the score is rounded up.
ScoresRoundedUp(b) == {t \in 0 .. 100 : 10 * t >= Points(b) /\ 10 * t < Points(b) + 10}

\* What _calculate_evidence_strength_score may return.
Scores(b) == {t \in 0 .. 100 : 10 * t - 5 <= Points(b) /\ Points(b) <= 10 * t + 5}

\* Slip: a threshold is compared the wrong way round.
ThresholdsSwapped(b) == b["decision_specificity"] >= 150 /\ b["observed_evidence"] <= 150

Thresholds(b) == b["decision_specificity"] >= 150 /\ b["observed_evidence"] >= 150

\* _assessment_from_evidence_score.
Assessment(score, direction, b) ==
    IF score < 50 \/ direction = "neutral" THEN "Insufficient Evidence"
    ELSE IF direction = "contradicts" THEN "Contradicted"
    ELSE IF direction = "supports" /\ score >= 80 /\ Thresholds(b) THEN "Well Supported"
    ELSE "Partially Supported"

\* How far an assessment backs the assumption.
Support(a) == IF a = "Well Supported" THEN 2 ELSE IF a = "Partially Supported" THEN 1 ELSE 0

AtLeast(b, c) == \A k \in Components : b[k] >= c[k]

\* Evidence that is better in some component and worse in none is never assessed as less
\* supportive, even where the two sums are rounded in different directions.
MoreEvidenceNeverHurts(b, c) ==
    AtLeast(b, c) /\ b # c =>
        \A s \in Scores(b), t \in Scores(c) :
            Support(Assessment(s, "supports", b)) >= Support(Assessment(t, "supports", c))

\* Rounding never pushes an assumption below 5.0 or 8.0 that has reached it, and lifts one
\* over them by 0.05 points at most (_calculate_evidence_strength_score).
RoundingIsLocal(b) ==
    \A s \in Scores(b) :
        LET against == Assessment(s, "contradicts", b)
            for == Assessment(s, "supports", b)
        IN  /\ Points(b) >= 500 => against = "Contradicted" /\ Support(for) >= 1
            /\ Points(b) < 495 => against = "Insufficient Evidence" /\ Support(for) = 0
            /\ Points(b) >= 800 /\ Thresholds(b) => for = "Well Supported"
            /\ Points(b) < 795 => for # "Well Supported"
=============================================================================
