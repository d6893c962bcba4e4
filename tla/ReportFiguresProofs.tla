-------------------------- MODULE ReportFiguresProofs --------------------------
(***************************************************************************)
(* The figures of a report for every breakdown, every request, every table *)
(* and every corpus, not only for the grids TLC evaluates.  The last part  *)
(* states them of the behaviours of ReportFigures.                         *)
(***************************************************************************)
EXTENDS ReportFigures, FiniteSetTheorems, WellFoundedInduction, TLAPS

\* A breakdown has six components, all of them natural numbers.
LEMMA ComponentsAreNatural ==
    ASSUME NEW b \in Breakdowns
    PROVE  /\ b["directness"] \in Nat /\ b["decision_specificity"] \in Nat
           /\ b["observed_evidence"] \in Nat /\ b["comparability"] \in Nat
           /\ b["coverage"] \in Nat /\ b["source_quality"] \in Nat
           /\ Points(b) \in Nat
<1>1. \A k \in Components : b[k] \in Nat
    <2>1. b \in [Components -> 0 .. 200]
        BY Zenon DEF Breakdowns
    <2> QED
        BY <2>1
<1>2. /\ b["directness"] \in Nat /\ b["decision_specificity"] \in Nat
      /\ b["observed_evidence"] \in Nat /\ b["comparability"] \in Nat
      /\ b["coverage"] \in Nat /\ b["source_quality"] \in Nat
    BY <1>1, Zenon DEF Components
<1> QED
    BY <1>2 DEF Points

\* Six summands none of which shrinks and one of which grows have a greater sum.
LEMMA SumGrows ==
    ASSUME NEW p1 \in Nat, NEW p2 \in Nat, NEW p3 \in Nat,
           NEW p4 \in Nat, NEW p5 \in Nat, NEW p6 \in Nat,
           NEW q1 \in Nat, NEW q2 \in Nat, NEW q3 \in Nat,
           NEW q4 \in Nat, NEW q5 \in Nat, NEW q6 \in Nat,
           p1 >= q1, p2 >= q2, p3 >= q3, p4 >= q4, p5 >= q5, p6 >= q6,
           p1 # q1 \/ p2 # q2 \/ p3 # q3 \/ p4 # q4 \/ p5 # q5 \/ p6 # q6
    PROVE  p1 + p2 + p3 + p4 + p5 + p6 > q1 + q2 + q3 + q4 + q5 + q6
BY SMT

\* A breakdown that is better in some component and worse in none has more points.
LEMMA BetterHasMorePoints ==
    ASSUME NEW b \in Breakdowns, NEW c \in Breakdowns, AtLeast(b, c), b # c
    PROVE  Points(b) > Points(c)
<1>1. PICK k \in Components : b[k] # c[k]
    BY DEF Breakdowns
<1>2. /\ b["directness"] >= c["directness"]
      /\ b["decision_specificity"] >= c["decision_specificity"]
      /\ b["observed_evidence"] >= c["observed_evidence"]
      /\ b["comparability"] >= c["comparability"]
      /\ b["coverage"] >= c["coverage"]
      /\ b["source_quality"] >= c["source_quality"]
    BY Zenon DEF AtLeast, Components
<1>3. \/ b["directness"] # c["directness"]
      \/ b["decision_specificity"] # c["decision_specificity"]
      \/ b["observed_evidence"] # c["observed_evidence"]
      \/ b["comparability"] # c["comparability"]
      \/ b["coverage"] # c["coverage"]
      \/ b["source_quality"] # c["source_quality"]
    BY <1>1, Zenon DEF Components
<1>4. /\ b["directness"] \in Nat /\ b["decision_specificity"] \in Nat
      /\ b["observed_evidence"] \in Nat /\ b["comparability"] \in Nat
      /\ b["coverage"] \in Nat /\ b["source_quality"] \in Nat
    BY ComponentsAreNatural
<1>5. /\ c["directness"] \in Nat /\ c["decision_specificity"] \in Nat
      /\ c["observed_evidence"] \in Nat /\ c["comparability"] \in Nat
      /\ c["coverage"] \in Nat /\ c["source_quality"] \in Nat
    BY ComponentsAreNatural
<1>6. b["directness"] + b["decision_specificity"] + b["observed_evidence"]
        + b["comparability"] + b["coverage"] + b["source_quality"]
      > c["directness"] + c["decision_specificity"] + c["observed_evidence"]
        + c["comparability"] + c["coverage"] + c["source_quality"]
    BY <1>2, <1>3, <1>4, <1>5, SumGrows, ZenonT(60)
<1> QED
    BY <1>6, Zenon DEF Points

\* The rounding of two sums keeps their order.
LEMMA RoundingKeepsOrder ==
    ASSUME NEW b \in Breakdowns, NEW c \in Breakdowns, Points(b) > Points(c),
           NEW s \in Scores(b), NEW t \in Scores(c)
    PROVE  s >= t
BY ComponentsAreNatural DEF Scores

\* The levels of support the assessments stand for.
LEMMA SupportLevels ==
    /\ Support("Insufficient Evidence") = 0
    /\ Support("Partially Supported") = 1
    /\ Support("Well Supported") = 2
BY DEF Support

\* No assessment backs an assumption less than insufficient evidence does, and none more
\* than full support.
LEMMA SupportRange ==
    ASSUME NEW a
    PROVE  Support(a) \in 0 .. 2
BY DEF Support

\* More evidence never makes an assessment less supportive: rounding to tenths and the two
\* component thresholds of _assessment_from_evidence_score are monotone together.
THEOREM EvidenceIsMonotone ==
    ASSUME NEW b \in Breakdowns, NEW c \in Breakdowns
    PROVE  MoreEvidenceNeverHurts(b, c)
<1> SUFFICES ASSUME AtLeast(b, c), b # c, NEW s \in Scores(b), NEW t \in Scores(c)
             PROVE  Support(Assessment(s, "supports", b))
                        >= Support(Assessment(t, "supports", c))
    BY DEF MoreEvidenceNeverHurts
<1>1. s \in 0 .. 100 /\ t \in 0 .. 100 /\ s >= t
    BY BetterHasMorePoints, RoundingKeepsOrder DEF Scores
<1>2. Thresholds(c) => Thresholds(b)
    <2>1. /\ b["decision_specificity"] >= c["decision_specificity"]
          /\ b["observed_evidence"] >= c["observed_evidence"]
        BY DEF AtLeast, Components
    <2> QED
        BY <2>1, ComponentsAreNatural DEF Thresholds
<1>3. ASSUME NEW r \in 0 .. 100, NEW d \in Breakdowns
      PROVE  /\ r < 50 => Assessment(r, "supports", d) = "Insufficient Evidence"
             /\ r >= 50 /\ ~(r >= 80 /\ Thresholds(d)) =>
                   Assessment(r, "supports", d) = "Partially Supported"
             /\ r >= 80 /\ Thresholds(d) =>
                   Assessment(r, "supports", d) = "Well Supported"
    <2>1. Thresholds(d) \in BOOLEAN
        BY Zenon DEF Thresholds
    <2> QED
        BY <2>1 DEF Assessment
<1>4. CASE t < 50
    <2>1. Assessment(t, "supports", c) = "Insufficient Evidence"
        BY <1>1, <1>3, <1>4
    <2>2. Support(Assessment(t, "supports", c)) = 0
        BY <2>1, SupportLevels
    <2>3. Support(Assessment(s, "supports", b)) \in 0 .. 2
        BY SupportRange
    <2> QED
        BY <2>2, <2>3
<1>5. CASE t >= 50 /\ ~(t >= 80 /\ Thresholds(c))
    <2>1. Assessment(t, "supports", c) = "Partially Supported"
        BY <1>1, <1>3, <1>5
    <2>2. s >= 50
        BY <1>1, <1>5
    <2>3. \/ Assessment(s, "supports", b) = "Partially Supported"
          \/ Assessment(s, "supports", b) = "Well Supported"
        BY <1>1, <1>3, <2>2
    <2>4. Support(Assessment(t, "supports", c)) = 1
        BY <2>1, SupportLevels
    <2>5. \/ Support(Assessment(s, "supports", b)) = 1
          \/ Support(Assessment(s, "supports", b)) = 2
        BY <2>3, SupportLevels, Zenon
    <2> QED
        BY <2>4, <2>5
<1>6. CASE t >= 80 /\ Thresholds(c)
    <2>1. Assessment(t, "supports", c) = "Well Supported"
        BY <1>1, <1>3, <1>6
    <2>2. s >= 80 /\ Thresholds(b)
        BY <1>1, <1>2, <1>6
    <2>3. Assessment(s, "supports", b) = "Well Supported"
        BY <1>1, <1>3, <2>2
    <2>4. /\ Support(Assessment(t, "supports", c)) = 2
          /\ Support(Assessment(s, "supports", b)) = 2
        BY <2>1, <2>3, SupportLevels
    <2> QED
        BY <2>4
<1> QED
    BY <1>1, <1>4, <1>5, <1>6

\* Rounding lifts a breakdown over a threshold by 0.05 points at most and drops none.
THEOREM RoundingIsHarmless ==
    ASSUME NEW b \in Breakdowns
    PROVE  RoundingIsLocal(b)
<1> SUFFICES ASSUME NEW s \in Scores(b)
             PROVE  /\ Points(b) >= 500 =>
                          /\ Assessment(s, "contradicts", b) = "Contradicted"
                          /\ Support(Assessment(s, "supports", b)) >= 1
                    /\ Points(b) < 495 =>
                          /\ Assessment(s, "contradicts", b) = "Insufficient Evidence"
                          /\ Support(Assessment(s, "supports", b)) = 0
                    /\ Points(b) >= 800 /\ Thresholds(b) =>
                          Assessment(s, "supports", b) = "Well Supported"
                    /\ Points(b) < 795 => Assessment(s, "supports", b) # "Well Supported"
    BY DEF RoundingIsLocal
<1>1. Points(b) \in Nat /\ s \in 0 .. 100
      /\ 10 * s - 5 <= Points(b) /\ Points(b) <= 10 * s + 5
    BY ComponentsAreNatural DEF Scores
<1>2. /\ Points(b) >= 500 => s >= 50
      /\ Points(b) < 495 => s < 50
      /\ Points(b) >= 800 => s >= 80
      /\ Points(b) < 795 => s < 80
    BY <1>1
<1>3. /\ s >= 50 => Support(Assessment(s, "supports", b)) >= 1
      /\ s < 50 => Support(Assessment(s, "supports", b)) = 0
    BY <1>1 DEF Assessment, Support
<1>4. /\ s >= 50 => Assessment(s, "contradicts", b) = "Contradicted"
      /\ s < 50 => Assessment(s, "contradicts", b) = "Insufficient Evidence"
    BY <1>1 DEF Assessment
<1>5. /\ s >= 80 /\ Thresholds(b) => Assessment(s, "supports", b) = "Well Supported"
      /\ s < 80 => Assessment(s, "supports", b) # "Well Supported"
    BY <1>1 DEF Assessment
<1>6. ASSUME Points(b) >= 500
      PROVE  /\ Assessment(s, "contradicts", b) = "Contradicted"
             /\ Support(Assessment(s, "supports", b)) >= 1
    BY <1>2, <1>3, <1>4, <1>6, Zenon
<1>7. ASSUME Points(b) < 495
      PROVE  /\ Assessment(s, "contradicts", b) = "Insufficient Evidence"
             /\ Support(Assessment(s, "supports", b)) = 0
    BY <1>2, <1>3, <1>4, <1>7, Zenon
<1>8. ASSUME Points(b) >= 800, Thresholds(b)
      PROVE  Assessment(s, "supports", b) = "Well Supported"
    BY <1>2, <1>5, <1>8, Zenon
<1>9. ASSUME Points(b) < 795 PROVE Assessment(s, "supports", b) # "Well Supported"
    BY <1>2, <1>5, <1>9, Zenon
<1> QED
    BY <1>6, <1>7, <1>8, <1>9, Zenon
-----------------------------------------------------------------------------
(***************************************************************************)
(* Arithmetic.                                                             *)
(***************************************************************************)

\* Division with remainder.
LEMMA DivMod ==
    ASSUME NEW a \in Int, NEW b \in Nat \ {0}
    PROVE  /\ a \div b \in Int /\ a % b \in 0 .. b - 1
           /\ a = b * (a \div b) + (a % b)
BY SMT

LEMMA TimesMonotone ==
    ASSUME NEW b \in Nat, NEW x \in Int, NEW y \in Int, x <= y
    PROVE  b * x <= b * y
BY SMT

LEMMA Half ==
    ASSUME NEW b \in Nat \ {0}
    PROVE  b \div 2 \in 0 .. b - 1 /\ 2 * (b \div 2) <= b /\ b <= 2 * (b \div 2) + 1
BY SMT

\* HalfUp stays on the side of c on which the exact quotient a / b is.
LEMMA HalfUpSide ==
    ASSUME NEW a \in Int, NEW b \in Nat \ {0}, NEW c \in Int
    PROVE  /\ HalfUp(a, b) \in Int
           /\ a >= b * c => HalfUp(a, b) >= c
           /\ a <= b * c => HalfUp(a, b) <= c
<1> DEFINE h == b \div 2
           s == a + h
           q == s \div b
           r == s % b
<1>1. h \in 0 .. b - 1
    BY Half
<1>2. q \in Int /\ r \in 0 .. b - 1 /\ s = b * q + r
    <2>1. s \in Int
        BY <1>1
    <2> HIDE DEF s
    <2> QED
        BY <2>1, DivMod
<1> HIDE DEF h, q, r
<1>3. ASSUME a >= b * c, q < c PROVE FALSE
    <2>1. b * (q + 1) <= b * c
        BY <1>2, <1>3, TimesMonotone
    <2>2. b * (q + 1) = b * q + b
        BY <1>2, SMT
    <2> QED
        BY <1>1, <1>2, <1>3, <2>1, <2>2
<1>4. ASSUME a <= b * c, q > c PROVE FALSE
    <2>1. b * (c + 1) <= b * q
        BY <1>2, <1>4, TimesMonotone
    <2>2. b * (c + 1) = b * c + b
        BY SMT
    <2> QED
        BY <1>1, <1>2, <1>4, <2>1, <2>2
<1>5. HalfUp(a, b) = q
    BY DEF HalfUp, q, h
<1> QED
    BY <1>2, <1>3, <1>4, <1>5
\* The ceiling of a quotient is the least integer that reaches it.
LEMMA CeilingIsLeast ==
    ASSUME NEW a \in Nat, NEW b \in Nat \ {0}
    PROVE  /\ Ceiling(a, b) \in Nat
           /\ b * Ceiling(a, b) >= a
           /\ b * (Ceiling(a, b) - 1) < a
           /\ Ceiling(a, b) = 0 <=> a = 0
<1> DEFINE q == a \div b
           r == a % b
<1>1. q \in Int /\ r \in 0 .. b - 1 /\ a = b * q + r
    BY DivMod
<1>2. Ceiling(a, b) = IF r = 0 THEN q ELSE q + 1
    BY DEF Ceiling
<1> HIDE DEF q, r
<1>3. /\ b * (q + 1) = b * q + b
      /\ b * (q - 1) = b * q - b
    BY <1>1, SMT
<1>4. b * Ceiling(a, b) >= a /\ b * (Ceiling(a, b) - 1) < a /\ Ceiling(a, b) \in Int
    BY <1>1, <1>2, <1>3
<1>5. ASSUME Ceiling(a, b) < 0 PROVE FALSE
    <2>1. b * Ceiling(a, b) <= b * (-1)
        BY <1>4, <1>5, TimesMonotone
    <2> QED
        BY <1>4, <2>1
<1>6. ASSUME a = 0, Ceiling(a, b) > 0 PROVE FALSE
    <2>1. b * 0 <= b * (Ceiling(a, b) - 1)
        BY <1>4, <1>6, TimesMonotone
    <2> QED
        BY <1>4, <1>6, <2>1
<1>7. Ceiling(a, b) = 0 => a = 0
    BY <1>4
<1> QED
    BY <1>4, <1>5, <1>6, <1>7

\* Rounding half up for negative amounts too.
LEMMA RoundedSide ==
    ASSUME NEW a \in Int, NEW b \in Nat \ {0}, NEW c \in Int
    PROVE  /\ Rounded(a, b) \in Int
           /\ a >= b * c => Rounded(a, b) >= c
           /\ a <= b * c => Rounded(a, b) <= c
           /\ Rounded(-a, b) = -Rounded(a, b)
<1>1. b * (-c) = -(b * c)
    BY SMT
<1>2. /\ HalfUp(a, b) \in Int
      /\ a >= b * c => HalfUp(a, b) >= c
      /\ a <= b * c => HalfUp(a, b) <= c
    BY HalfUpSide
<1>3. /\ HalfUp(-a, b) \in Int
      /\ -a >= b * (-c) => HalfUp(-a, b) >= -c
      /\ -a <= b * (-c) => HalfUp(-a, b) <= -c
    BY HalfUpSide
<1>4. HalfUp(0, b) = 0
    <2>1. b * 0 = 0
        BY SMT
    <2> QED
        BY <2>1, HalfUpSide
<1> QED
    BY <1>1, <1>2, <1>3, <1>4 DEF Rounded

\* A reported percentage stays on the side of c on which the exact one is.
LEMMA PercentSide ==
    ASSUME NEW part \in Int, NEW whole \in Nat \ {0}, NEW c \in Int
    PROVE  /\ Percent(part, whole) \in Int
           /\ part * 1000000 >= whole * c => Percent(part, whole) >= c
           /\ part * 1000000 <= whole * c => Percent(part, whole) <= c
<1> DEFINE M(a) == ((a * 1000) \div whole) * 1000
                       + HalfUp(((a * 1000) % whole) * 1000, whole)
<1>1. ASSUME NEW a \in Nat, NEW d \in Int
      PROVE  /\ M(a) \in Int
             /\ a * 1000000 >= whole * d => M(a) >= d
             /\ a * 1000000 <= whole * d => M(a) <= d
    <2> DEFINE s == a * 1000
               q == s \div whole
               r == s % whole
               H == HalfUp(r * 1000, whole)
    <2>1. q \in Int /\ r \in 0 .. whole - 1 /\ s = whole * q + r
        <3>1. s \in Int
            OBVIOUS
        <3> HIDE DEF s
        <3> QED
            BY <3>1, DivMod
    <2>2. M(a) = q * 1000 + H
        OBVIOUS
    <2> HIDE DEF q, r
    <2>3. /\ H \in Int
          /\ r * 1000 >= whole * (d - q * 1000) => H >= d - q * 1000
          /\ r * 1000 <= whole * (d - q * 1000) => H <= d - q * 1000
        BY <2>1, HalfUpSide
    <2> HIDE DEF H
    <2>4. whole * (d - q * 1000) = whole * d - (whole * q) * 1000
        BY <2>1, SMT
    <2>5. a * 1000000 = (whole * q) * 1000 + r * 1000
        BY <2>1
    <2> HIDE DEF M
    <2> QED
        BY <2>1, <2>2, <2>3, <2>4, <2>5
<1>2. Percent(part, whole) = IF part < 0 THEN -M(-part) ELSE M(part)
    BY DEF Percent
<1> HIDE DEF M
<1>3. whole * (-c) = -(whole * c)
    BY SMT
<1>4. CASE part < 0
    <2>1. /\ M(-part) \in Int
          /\ (-part) * 1000000 >= whole * (-c) => M(-part) >= -c
          /\ (-part) * 1000000 <= whole * (-c) => M(-part) <= -c
        BY <1>1, <1>4
    <2> QED
        BY <1>2, <1>3, <1>4, <2>1
<1>5. CASE part >= 0
    BY <1>1, <1>2, <1>5
<1> QED
    BY <1>4, <1>5
-----------------------------------------------------------------------------
(***************************************************************************)
(* Rounding to doubles.                                                    *)
(***************************************************************************)

\* Rounding to an integer stays on the side of c on which the exact quotient is, is half a
\* unit off at most, and keeps the order.
LEMMA HalfEvenSide ==
    ASSUME NEW a \in Int, NEW b \in Nat \ {0}, NEW c \in Int
    PROVE  /\ HalfEven(a, b) \in Int
           /\ a >= b * c => HalfEven(a, b) >= c
           /\ a <= b * c => HalfEven(a, b) <= c
<1> DEFINE q == a \div b
           r == a % b
<1>1. q \in Int /\ r \in 0 .. b - 1 /\ a = b * q + r
    BY DivMod
<1>2. /\ HalfEven(a, b) = q \/ HalfEven(a, b) = q + 1
      /\ r = 0 => HalfEven(a, b) = q
    BY DEF HalfEven
<1> HIDE DEF q, r
<1>3. ASSUME a >= b * c, q < c PROVE FALSE
    <2>1. b * (q + 1) <= b * c
        BY <1>1, <1>3, TimesMonotone
    <2>2. b * (q + 1) = b * q + b
        BY <1>1, SMT
    <2> QED
        BY <1>1, <1>3, <2>1, <2>2
<1>4. ASSUME a <= b * c, q > c \/ (q = c /\ r > 0) PROVE FALSE
    <2>1. b * c <= b * q
        BY <1>1, <1>4, TimesMonotone
    <2>2. CASE q > c
        <3>1. b * (c + 1) <= b * q
            BY <1>1, <2>2, TimesMonotone
        <3>2. b * (c + 1) = b * c + b
            BY SMT
        <3> QED
            BY <1>1, <1>4, <3>1, <3>2
    <2>3. CASE q = c /\ r > 0
        BY <1>1, <1>4, <2>3
    <2> QED
        BY <1>4, <2>2, <2>3
<1>5. a <= b * c => HalfEven(a, b) <= c
    <2>1. CASE r = 0
        BY <1>1, <1>2, <1>4, <2>1
    <2>2. CASE r > 0
        BY <1>1, <1>2, <1>4, <2>2
    <2> QED
        BY <1>1, <2>1, <2>2
<1> QED
    BY <1>1, <1>2, <1>3, <1>5

LEMMA HalfEvenIsClose ==
    ASSUME NEW a \in Int, NEW b \in Nat \ {0}
    PROVE  2 * Abs(b * HalfEven(a, b) - a) <= b
<1> DEFINE q == a \div b
           r == a % b
<1>1. q \in Int /\ r \in 0 .. b - 1 /\ a = b * q + r
    BY DivMod
<1>2. \/ HalfEven(a, b) = q /\ 2 * r <= b
      \/ HalfEven(a, b) = q + 1 /\ 2 * r >= b
    BY <1>1 DEF HalfEven
<1> HIDE DEF q, r
<1>3. b * (q + 1) = b * q + b /\ b * q \in Int
    BY <1>1, SMT
<1>4. CASE HalfEven(a, b) = q /\ 2 * r <= b
    <2>1. b * HalfEven(a, b) - a = -r
        BY <1>1, <1>3, <1>4
    <2> QED
        BY <1>1, <1>4, <2>1 DEF Abs
<1>5. CASE HalfEven(a, b) = q + 1 /\ 2 * r >= b
    <2>1. b * HalfEven(a, b) - a = b - r
        BY <1>1, <1>3, <1>5
    <2> QED
        BY <1>1, <1>5, <2>1 DEF Abs
<1> QED
    BY <1>2, <1>4, <1>5

LEMMA HalfEvenKeepsOrder ==
    ASSUME NEW x \in Int, NEW y \in Int, x <= y, NEW b \in Nat \ {0}
    PROVE  HalfEven(x, b) <= HalfEven(y, b)
<1> DEFINE p == x \div b
           r == x % b
           q == y \div b
           s == y % b
<1>1. /\ p \in Int /\ r \in 0 .. b - 1 /\ x = b * p + r
      /\ q \in Int /\ s \in 0 .. b - 1 /\ y = b * q + s
    BY DivMod
<1>2. /\ HalfEven(x, b) = IF 2 * r > b \/ (2 * r = b /\ p % 2 = 1) THEN p + 1 ELSE p
      /\ HalfEven(y, b) = IF 2 * s > b \/ (2 * s = b /\ q % 2 = 1) THEN q + 1 ELSE q
    BY DEF HalfEven
<1> HIDE DEF p, q, r, s
<1>3. CASE p = q
    <2>1. r <= s
        BY <1>1, <1>3
    <2> QED
        BY <1>1, <1>2, <1>3, <2>1
<1>4. CASE p < q
    BY <1>1, <1>2, <1>4
<1>5. ASSUME p > q PROVE FALSE
    <2>1. b * (q + 1) <= b * p
        BY <1>1, <1>5, TimesMonotone
    <2>2. b * (q + 1) = b * q + b
        BY <1>1, SMT
    <2> QED
        BY <1>1, <2>1, <2>2
<1> QED
    BY <1>1, <1>3, <1>4, <1>5

\* The set of natural numbers below a bound has a greatest member.
LEMMA GreatestBelow ==
    ASSUME NEW S \in SUBSET Nat, S # {}, NEW n \in Nat, \A s \in S : s <= n
    PROVE  \E g \in S : \A h \in S : h <= g
<1> DEFINE Above(g) == {h \in S : h > g}
           Aboves == {Above(g) : g \in S}
<1>1. IsFiniteSet(S)
    BY FS_BoundedSetOfNaturals
<1>2. Aboves \subseteq FiniteSubsetsOf(S) /\ Aboves # {}
    <2>1. \A T \in SUBSET S : IsFiniteSet(T)
        BY <1>1, FS_Subset
    <2> QED
        BY <2>1 DEF FiniteSubsetsOf
<1>3. IsWellFoundedOn(StrictSubsetOrdering(S), FiniteSubsetsOf(S))
    BY <1>1, FS_StrictSubsetOrderingWellFounded
<1> HIDE DEF Aboves
<1>4. PICK T \in Aboves : \A U \in Aboves : <<U, T>> \notin StrictSubsetOrdering(S)
    BY <1>2, <1>3, WFMin
<1> USE DEF Aboves
<1>5. PICK g \in S : T = Above(g)
    OBVIOUS
<1>6. ASSUME NEW h \in S, h > g PROVE FALSE
    <2>1. \A x \in S : x \in Nat
        OBVIOUS
    <2>2. ~(h > h) /\ \A x \in S : x > h => x > g
        BY <1>6, <2>1
    <2>3. h \in Above(g) /\ h \notin Above(h) /\ Above(h) \subseteq Above(g)
        BY <1>6, <2>2
    <2>4. <<Above(h), Above(g)>> \in StrictSubsetOrdering(S)
        BY <2>3 DEF StrictSubsetOrdering
    <2> QED
        BY <2>4, <1>4, <1>5
<1> QED
    BY <1>6

LEMMA LimitIsPositive ==
    ASSUME NEW unit \in Nat \ {0}
    PROVE  ExactBelow(unit) \in Nat \ {0}
BY DoublesAssumption, SMT DEF ExactBelow, DoublesAssumption

\* g is how far doubles are apart at x.
SpacedBy(x, unit, g) ==
    /\ g \in Spacings /\ g \in Nat \ {0}
    /\ ExactBelow(unit) * g <= x
    /\ \A h \in Spacings : h > g => x < ExactBelow(unit) * h

LEMMA SpacingExists ==
    ASSUME NEW unit \in Nat \ {0}, NEW x \in Nat, x >= ExactBelow(unit)
    PROVE  SpacedBy(x, unit, Spacing(x, unit))
<1> DEFINE l == ExactBelow(unit)
           S == {g \in Spacings : l * g <= x}
<1>1. l \in Nat \ {0} /\ Spacings \subseteq Nat \ {0} /\ 1 \in Spacings
    BY LimitIsPositive, DoublesAssumption DEF DoublesAssumption
<1> HIDE DEF l
<1>2. S \in SUBSET Nat /\ 1 \in S
    <2>1. l * 1 <= x
        BY <1>1 DEF l
    <2> QED
        BY <1>1, <2>1
<1>3. \A g \in S : g <= x
    <2> SUFFICES ASSUME NEW g \in S PROVE g <= x
        OBVIOUS
    <2>1. g * 1 <= g * l /\ g * l = l * g /\ l * g \in Nat
        BY <1>1, <1>2, TimesMonotone, SMT
    <2> QED
        BY <1>1, <1>2, <2>1
<1>4. PICK g \in S : \A h \in S : h <= g
    <2> HIDE DEF S
    <2> QED
        BY <1>2, <1>3, GreatestBelow
<1>5. \A h \in Spacings : h > g => x < l * h
    <2> SUFFICES ASSUME NEW h \in Spacings, h > g PROVE x < l * h
        OBVIOUS
    <2>1. h \notin S /\ l * h \in Int
        BY <1>1, <1>2, <1>4
    <2> QED
        BY <2>1
<1>6. g \in Spacings /\ l * g <= x
    OBVIOUS
<1>7. /\ Spacing(x, unit) \in Spacings
      /\ l * Spacing(x, unit) <= x
      /\ \A h \in Spacings : h > Spacing(x, unit) => x < l * h
    BY <1>5, <1>6 DEF Spacing, l
<1> QED
    BY <1>1, <1>7 DEF SpacedBy, l

\* A number of the size at which doubles are apart becomes a double.
LEMMA MagnitudeOf ==
    ASSUME NEW unit \in Nat \ {0}, NEW x \in Nat
    PROVE  /\ x < ExactBelow(unit) => Magnitude(x, unit) = x
           /\ x >= ExactBelow(unit) =>
                 LET g == Spacing(x, unit)
                 IN  Magnitude(x, unit) = (unit * g) * HalfEven(x, unit * g)
BY LimitIsPositive DEF Magnitude

\* What a double is worth, for a number that is not below the limit.
LEMMA MagnitudeAbove ==
    ASSUME NEW unit \in Nat \ {0}, NEW x \in Nat, x >= ExactBelow(unit),
           NEW g, SpacedBy(x, unit, g), g = Spacing(x, unit)
    PROVE  /\ unit * g \in Nat \ {0}
           /\ HalfEven(x, unit * g) \in Int
           /\ HalfEven(x, unit * g) >= Significand
           /\ Magnitude(x, unit) \in Nat
           /\ Magnitude(x, unit) >= ExactBelow(unit) * g
           /\ 2 * Significand * Abs(Magnitude(x, unit) - x) <= Magnitude(x, unit)
<1> DEFINE step == unit * g
           n == HalfEven(x, step)
           y == Magnitude(x, unit)
           l == ExactBelow(unit) * g
<1>1. g \in Nat \ {0} /\ l <= x /\ Significand \in Nat \ {0}
    BY DoublesAssumption DEF SpacedBy, DoublesAssumption
<1>2. step \in Nat \ {0} /\ l = step * Significand
    BY <1>1, SMT DEF ExactBelow
<1>3. y = step * n
    BY MagnitudeOf
<1> HIDE DEF step, y, l
<1>4. n \in Int /\ n >= Significand
    BY <1>1, <1>2, HalfEvenSide
<1>5. 2 * Abs(step * n - x) <= step
    BY <1>2, HalfEvenIsClose
<1> HIDE DEF n
<1>6. step * Significand <= step * n /\ step * n \in Int /\ step * Significand \in Nat
    BY <1>1, <1>2, <1>4, TimesMonotone, SMT
<1>7. y \in Nat /\ y >= l
    BY <1>2, <1>3, <1>6
<1>8. 2 * Significand * Abs(y - x) <= y
    <2> DEFINE d == Abs(y - x)
    <2>1. d \in Nat /\ 2 * d <= step
        BY <1>3, <1>5, <1>7 DEF Abs
    <2> HIDE DEF d
    <2>2. Significand * (2 * d) <= Significand * step
        BY <1>1, <1>2, <2>1, TimesMonotone
    <2>3. 2 * Significand * d = Significand * (2 * d) /\ Significand * step = step * Significand
        BY <1>1, <1>2, <2>1, SMT
    <2>4. Significand * (2 * d) \in Nat
        BY <1>1, <2>1
    <2> QED
        BY <1>3, <1>6, <2>2, <2>3, <2>4 DEF d
<1> QED
    BY <1>2, <1>4, <1>7, <1>8 DEF step, n, y, l

\* Doubles keep the order of natural numbers.
LEMMA MagnitudeKeepsOrder ==
    ASSUME NEW unit \in Nat \ {0}, NEW x \in Nat, NEW y \in Nat, x <= y
    PROVE  /\ Magnitude(x, unit) \in Nat
           /\ Magnitude(x, unit) <= Magnitude(y, unit)
<1> DEFINE l == ExactBelow(unit)
           g == Spacing(x, unit)
           h == Spacing(y, unit)
           mx == Magnitude(x, unit)
           my == Magnitude(y, unit)
<1>0. l \in Nat \ {0} /\ Significand \in Nat \ {0}
    BY LimitIsPositive, DoublesAssumption DEF DoublesAssumption
<1>1. x < l => mx = x
    BY MagnitudeOf
<1>2. y < l => my = y
    BY MagnitudeOf
<1>3. ASSUME x >= l
      PROVE  /\ SpacedBy(x, unit, g) /\ mx \in Nat
             /\ unit * g \in Nat \ {0} /\ HalfEven(x, unit * g) \in Int
             /\ mx = (unit * g) * HalfEven(x, unit * g)
    BY <1>3, SpacingExists, MagnitudeOf, MagnitudeAbove
<1>4. ASSUME y >= l
      PROVE  /\ SpacedBy(y, unit, h) /\ my \in Nat
             /\ unit * h \in Nat \ {0} /\ HalfEven(y, unit * h) \in Int
             /\ my = (unit * h) * HalfEven(y, unit * h)
             /\ my >= l * h
    BY <1>4, SpacingExists, MagnitudeOf, MagnitudeAbove
<1>5. mx \in Nat
    BY <1>0, <1>1, <1>3
<1>6. CASE y < l
    BY <1>0, <1>1, <1>2, <1>6
<1>7. CASE x < l /\ y >= l
    <2>1. h \in Nat \ {0}
        BY <1>4, <1>7 DEF SpacedBy
    <2> HIDE DEF h
    <2>2. l * 1 <= l * h /\ l * h \in Nat
        BY <1>0, <2>1, TimesMonotone
    <2> QED
        BY <1>0, <1>1, <1>4, <1>7, <2>2
<1>8. CASE x >= l /\ y >= l
    <2>1. /\ g \in Spacings /\ g \in Nat \ {0} /\ h \in Spacings /\ h \in Nat \ {0}
          /\ l * g <= x
          /\ h > g => x < l * h
          /\ g > h => y < l * g
        BY <1>3, <1>4, <1>8 DEF SpacedBy
    <2>2. CASE g = h
        <3>1. HalfEven(x, unit * g) <= HalfEven(y, unit * g)
            BY <1>3, <1>8, HalfEvenKeepsOrder
        <3> DEFINE step == unit * g
                   m == HalfEven(x, step)
                   n == HalfEven(y, step)
        <3>2. mx = step * m /\ my = step * n /\ m <= n /\ m \in Int /\ n \in Int /\ step \in Nat
            BY <1>3, <1>4, <1>8, <2>2, <3>1
        <3> HIDE DEF step, m, n, mx, my
        <3> QED
            BY <1>5, <3>2, TimesMonotone DEF mx, my
    <2>3. CASE g < h
        <3> DEFINE step == unit * g
                   k == h \div g
                   m == HalfEven(x, step)
        <3>1. h % g = 0
            BY <2>1, <2>3, DoublesAssumption DEF DoublesAssumption
        <3>2. k \in Int /\ h = g * k
            <4> HIDE DEF g, h
            <4>1. k \in Int /\ h = g * k + (h % g)
                BY <2>1, DivMod
            <4>2. g * k \in Int
                BY <2>1, <4>1
            <4> QED
                BY <3>1, <4>1, <4>2
        <3>3. step \in Nat \ {0} /\ m \in Int /\ mx = step * m
            BY <1>3, <1>8
        <3> HIDE DEF k, mx, m
        <3>4. l * h = step * (Significand * k) /\ Significand * k \in Int /\ l * h \in Int
            BY <1>0, <2>1, <3>2, SMT DEF ExactBelow
        <3>5. m <= Significand * k
            <4>1. x <= step * (Significand * k)
                BY <2>1, <2>3, <3>4
            <4> HIDE DEF step
            <4> QED
                BY <3>3, <3>4, <4>1, HalfEvenSide DEF m
        <3>6. step * m <= step * (Significand * k) /\ step * m \in Int
            <4> HIDE DEF step
            <4> QED
                BY <3>3, <3>4, <3>5, TimesMonotone
        <3>7. my \in Nat /\ my >= l * h
            BY <1>4, <1>8
        <3> HIDE DEF step, my, l, g, h
        <3> QED
            BY <1>5, <3>3, <3>4, <3>6, <3>7 DEF mx, my
    <2>4. CASE g > h
        BY <1>0, <2>1, <2>4
    <2> QED
        BY <2>1, <2>2, <2>3, <2>4
<1> QED
    BY <1>0, <1>5, <1>6, <1>7, <1>8

\* What doubles promise: they keep the order and the sign, and what they are off is in
\* proportion to what they are worth, or nothing below the limit.
Faithful(x, unit) ==
    /\ Double(x, unit) \in Int
    /\ x >= 0 => Double(x, unit) >= 0
    /\ x <= 0 => Double(x, unit) <= 0
    /\ x > 0 => Double(x, unit) > 0
    /\ Double(-x, unit) = -Double(x, unit)
    /\ 2 * Significand * Abs(Double(x, unit) - x) <= Inexact(Double(x, unit), unit)
    /\ Abs(x) < ExactBelow(unit) => Double(x, unit) = x

LEMMA MagnitudeIsFaithful ==
    ASSUME NEW unit \in Nat \ {0}, NEW x \in Nat
    PROVE  /\ Magnitude(x, unit) \in Nat
           /\ x < ExactBelow(unit) => Magnitude(x, unit) = x
           /\ 2 * Significand * Abs(Magnitude(x, unit) - x) <= Inexact(Magnitude(x, unit), unit)
           /\ x > 0 => Magnitude(x, unit) > 0
<1> DEFINE l == ExactBelow(unit)
           m == Magnitude(x, unit)
<1>1. l \in Nat \ {0} /\ Significand \in Nat \ {0} /\ m \in Nat
    BY LimitIsPositive, MagnitudeKeepsOrder, DoublesAssumption DEF DoublesAssumption
<1>2. CASE x < l
    <2>1. m = x
        BY <1>2, MagnitudeOf
    <2>2. Abs(m - x) = 0 /\ Inexact(m, unit) \in Nat /\ 2 * Significand * 0 = 0
        BY <1>1, <1>2, <2>1, SMT DEF Abs, Inexact
    <2> QED
        BY <1>1, <1>2, <2>1, <2>2
<1>3. CASE x >= l
    <2> DEFINE g == Spacing(x, unit)
    <2>1. SpacedBy(x, unit, g)
        BY <1>3, SpacingExists
    <2>2. m >= l * g /\ 2 * Significand * Abs(m - x) <= m /\ g \in Nat \ {0}
        BY <1>3, <2>1, MagnitudeAbove DEF SpacedBy
    <2> HIDE DEF g, l, m
    <2>3. l * 1 <= l * g /\ l * g \in Nat
        BY <1>1, <2>2, TimesMonotone
    <2>4. m >= l
        BY <1>1, <2>2, <2>3
    <2>5. Inexact(m, unit) = m
        BY <1>1, <2>4 DEF Inexact, Abs, l
    <2> QED
        BY <1>1, <1>3, <2>2, <2>4, <2>5 DEF l, m
<1> QED
    BY <1>1, <1>2, <1>3

LEMMA DoubleIsFaithful ==
    ASSUME NEW unit \in Nat \ {0}, NEW x \in Int
    PROVE  Faithful(x, unit)
<1>1. Magnitude(0, unit) = 0
    BY LimitIsPositive, MagnitudeOf
<1>2. CASE x >= 0
    <2> DEFINE m == Magnitude(x, unit)
    <2>1. /\ m \in Nat /\ x \in Nat
          /\ x < ExactBelow(unit) => m = x
          /\ 2 * Significand * Abs(m - x) <= Inexact(m, unit)
          /\ x > 0 => m > 0
        BY <1>2, MagnitudeIsFaithful
    <2>2. Double(x, unit) = m
        BY <1>2 DEF Double
    <2>3. Double(-x, unit) = -m
        BY <1>1, <1>2, <2>1 DEF Double
    <2> HIDE DEF m
    <2>4. Abs(x) = x /\ (x = 0 => m = 0)
        BY <1>1, <2>1 DEF Abs, m
    <2> QED
        BY <1>2, <2>1, <2>2, <2>3, <2>4 DEF Faithful
<1>3. CASE x < 0
    <2> DEFINE y == -x
               m == Magnitude(y, unit)
    <2>0. y \in Nat /\ y > 0
        BY <1>3
    <2>1. /\ m \in Nat
          /\ y < ExactBelow(unit) => m = y
          /\ 2 * Significand * Abs(m - y) <= Inexact(m, unit)
          /\ m > 0
        BY <2>0, MagnitudeIsFaithful
    <2>2. Double(x, unit) = -m
        BY <1>3 DEF Double
    <2>3. Double(-x, unit) = m
        BY <1>3 DEF Double
    <2> HIDE DEF m
    <2>4. Abs(x) = y /\ Abs(-m - x) = Abs(m - y)
        BY <1>3, <2>1 DEF Abs
    <2>5. Inexact(-m, unit) = Inexact(m, unit)
        BY <2>1 DEF Inexact, Abs
    <2> QED
        BY <1>3, <2>0, <2>1, <2>2, <2>3, <2>4, <2>5 DEF Faithful
<1> QED
    BY <1>2, <1>3

LEMMA DoublesKeepOrder ==
    ASSUME NEW unit \in Nat \ {0}, NEW x \in Int, NEW y \in Int, x <= y
    PROVE  Double(x, unit) <= Double(y, unit)
<1>1. CASE x >= 0
    <2>1. x \in Nat /\ y \in Nat /\ ~(x < 0) /\ ~(y < 0)
        BY <1>1
    <2> QED
        BY <2>1, MagnitudeKeepsOrder DEF Double
<1>2. CASE y < 0
    <2>1. -y \in Nat /\ -x \in Nat /\ -y <= -x /\ x < 0
        BY <1>2
    <2>2. /\ Magnitude(-y, unit) <= Magnitude(-x, unit)
          /\ Magnitude(-y, unit) \in Nat /\ Magnitude(-x, unit) \in Nat
        BY <2>1, MagnitudeKeepsOrder
    <2> QED
        BY <1>2, <2>1, <2>2 DEF Double
<1>3. CASE x < 0 /\ y >= 0
    <2>1. Faithful(x, unit) /\ Faithful(y, unit)
        BY DoubleIsFaithful
    <2> QED
        BY <1>3, <2>1 DEF Faithful
<1> QED
    BY <1>1, <1>2, <1>3
-----------------------------------------------------------------------------
(***************************************************************************)
(* The financial stress test.                                              *)
(***************************************************************************)

\* The amounts the figures are computed from are integers, and some have a sign.
LEMMA AmountsAreIntegers ==
    ASSUME NEW in \in FinancialInputs
    PROVE  /\ in.orders \in Nat /\ in.revenue \in Nat /\ in.cash \in Nat
           /\ MarginPerOrder(in) \in Int /\ Fixed(in) \in Nat
           /\ MarginPerOrder(in) * in.orders \in Int
           /\ OperatingProfit(in) = MarginPerOrder(in) * in.orders - Fixed(in)
           /\ OperatingProfit(in) \in Int /\ MonthlyBurn(in) \in Nat
           /\ MonthlyBurn(in) = IF OperatingProfit(in) < 0 THEN -OperatingProfit(in) ELSE 0
<1>1. /\ in.orders \in Nat /\ in.revenue \in Nat /\ in.variable \in Nat /\ in.promo \in Nat
      /\ in.delivery \in Nat /\ in.fixed \in Nat /\ in.driver \in Nat /\ in.cash \in Nat
    BY DEF FinancialInputs
<1>2. MarginPerOrder(in) \in Int /\ Fixed(in) \in Nat
    BY <1>1 DEF MarginPerOrder, Fixed
<1>3. MarginPerOrder(in) * in.orders \in Int
    BY <1>1, <1>2
<1>4. OperatingProfit(in) = MarginPerOrder(in) * in.orders - Fixed(in)
    BY DEF OperatingProfit
<1>5. OperatingProfit(in) \in Int
    BY <1>2, <1>3, <1>4
<1> QED
    BY <1>1, <1>2, <1>3, <1>4, <1>5 DEF MonthlyBurn

\* A break-even volume is reported exactly with a margin above zero, and it is the least
\* volume whose margin covers the costs.
LEMMA BreakEvenVolume ==
    ASSUME NEW in \in FinancialInputs
    PROVE  /\ MarginPerOrder(in) <= 0 => BreakEvenOrders(in) = Null
           /\ MarginPerOrder(in) > 0 =>
                 /\ BreakEvenOrders(in) \in Nat
                 /\ MarginPerOrder(in) * BreakEvenOrders(in) >= Fixed(in)
                 /\ MarginPerOrder(in) * (BreakEvenOrders(in) - 1) < Fixed(in)
           /\ BreakEvenOrders(in) = Null <=> MarginPerOrder(in) <= 0
<1>1. MarginPerOrder(in) \in Int /\ Fixed(in) \in Nat
    BY AmountsAreIntegers
<1>2. CASE MarginPerOrder(in) > 0
    <2>1. MarginPerOrder(in) \in Nat \ {0}
        BY <1>1, <1>2
    <2>2. BreakEvenOrders(in) = Ceiling(Fixed(in), MarginPerOrder(in))
        BY <1>2 DEF BreakEvenOrders
    <2> QED
        BY <1>1, <1>2, <2>1, <2>2, CeilingIsLeast DEF Null
<1>3. CASE MarginPerOrder(in) <= 0
    <2>1. BreakEvenOrders(in) = Null
        BY <1>1, <1>3 DEF BreakEvenOrders
    <2> QED
        BY <1>1, <1>3, <2>1
<1> QED
    BY <1>1, <1>2, <1>3

\* With a margin of zero or less no volume covers more than the costs.
LEMMA NoMarginNoProfit ==
    ASSUME NEW m \in Int, m <= 0, NEW n \in Nat
    PROVE  m * n <= 0
BY SMT

\* The break-even volume is the least one without a loss, for all inputs.
THEOREM BreakEvenIsAlwaysLeast ==
    ASSUME NEW in \in FinancialInputs
    PROVE  BreakEvenIsLeast(in)
<1> DEFINE k == BreakEvenOrders(in)
           m == MarginPerOrder(in)
           f == Fixed(in)
           profit(n) == OperatingProfit([in EXCEPT !.orders = n])
<1>1. m \in Int /\ f \in Nat /\ in.orders \in Nat
    BY AmountsAreIntegers
<1>2. ASSUME NEW n \in Int
      PROVE  profit(n) = m * n - f
    BY DEF OperatingProfit, MarginPerOrder, Fixed, FinancialInputs
<1>3. BreakEvenIsLeast(in) <=>
         IF k = Null THEN \A n \in 0 .. in.orders : profit(n) <= 0
         ELSE profit(k) >= 0 /\ (k > 0 => profit(k - 1) < 0)
    BY DEF BreakEvenIsLeast
<1>4. /\ k = Null <=> m <= 0
      /\ m > 0 => k \in Nat /\ m * k >= f /\ m * (k - 1) < f
    BY BreakEvenVolume
<1> HIDE DEF k, m, f, profit
<1>5. CASE k = Null
    <2>1. \A n \in 0 .. in.orders : profit(n) <= 0
        <3> TAKE n \in 0 .. in.orders
        <3>1. m * n <= 0 /\ m * n \in Int
            BY <1>1, <1>4, <1>5, NoMarginNoProfit
        <3> QED
            BY <1>1, <1>2, <3>1
    <2> QED
        BY <1>3, <1>5, <2>1
<1>6. CASE k # Null
    <2>1. k \in Nat /\ m * k >= f /\ m * (k - 1) < f
        BY <1>1, <1>4, <1>6
    <2>2. m * k \in Int /\ m * (k - 1) \in Int
        BY <1>1, <2>1
    <2>3. profit(k) >= 0 /\ profit(k - 1) < 0
        BY <1>1, <1>2, <2>1, <2>2
    <2> QED
        BY <1>3, <1>6, <2>3
<1> QED
    BY <1>5, <1>6

\* What the warnings stand for.
LEMMA WarningsMean ==
    ASSUME NEW in, NEW low
    PROVE  /\ "NEGATIVE_OPERATING_PROFIT" \in Warnings(in, low) <=> OperatingProfit(in) < 0
           /\ "BREAK_EVEN_UNREACHABLE" \in Warnings(in, low) <=> BreakEvenOrders(in) = Null
           /\ "NEGATIVE_CONTRIBUTION_MARGIN" \in Warnings(in, low) <=> MarginPerOrder(in) < 0
           /\ "LOW_RUNWAY" \in Warnings(in, low) <=> LowRunway(in, low)
BY DEF Warnings, NegativeProfit

\* A loss is reported exactly below the break-even volume, for all inputs.
THEOREM LossesAlwaysAgree ==
    ASSUME NEW in \in FinancialInputs, NEW low \in Nat
    PROVE  LossesAgree(in, low)
<1> DEFINE k == BreakEvenOrders(in)
           m == MarginPerOrder(in)
           f == Fixed(in)
           n == in.orders
           loss == OperatingProfit(in) < 0
<1>1. m \in Int /\ f \in Nat /\ n \in Nat /\ m * n \in Int /\ (loss <=> m * n < f)
    BY AmountsAreIntegers
<1>2. LossesAgree(in, low) <=>
         (loss <=> IF k = Null THEN f > 0 \/ m * n < 0 ELSE n < k)
    BY WarningsMean DEF LossesAgree
<1>3. /\ k = Null <=> m <= 0
      /\ m > 0 => k \in Nat /\ m * k >= f /\ m * (k - 1) < f
    BY BreakEvenVolume
<1> HIDE DEF k, m, f, n, loss
<1>4. CASE k = Null
    <2>1. m * n <= 0
        BY <1>1, <1>3, <1>4, NoMarginNoProfit
    <2> QED
        BY <1>1, <1>2, <1>4, <2>1
<1>5. CASE k # Null
    <2>1. m \in Nat /\ k \in Nat /\ m * k >= f /\ m * (k - 1) < f
        BY <1>1, <1>3, <1>5
    <2>2. CASE n < k
        <3>1. m * n <= m * (k - 1) /\ m * (k - 1) \in Int
            BY <1>1, <2>1, <2>2, TimesMonotone
        <3> QED
            BY <1>1, <1>2, <1>5, <2>1, <2>2, <3>1
    <2>3. CASE n >= k
        <3>1. m * k <= m * n /\ m * k \in Int
            BY <1>1, <2>1, <2>3, TimesMonotone
        <3> QED
            BY <1>1, <1>2, <1>5, <2>1, <2>3, <3>1
    <2> QED
        BY <1>1, <2>1, <2>2, <2>3
<1> QED
    BY <1>4, <1>5

\* The warning of a short runway is decided on the exact runway, for all inputs.
THEOREM LowRunwayIsAlwaysExact ==
    ASSUME NEW in \in FinancialInputs, NEW low \in Nat
    PROVE  LowRunwayIsExact(in, low)
<1> DEFINE p == OperatingProfit(in)
           b == MonthlyBurn(in)
<1>1. in.cash \in Nat /\ p \in Int /\ b = IF p < 0 THEN -p ELSE 0
    BY AmountsAreIntegers
<1>2. LowRunwayIsExact(in, low) <=>
         (b > 0 /\ in.cash < low * b <=> in.cash + low * p < 0)
    BY WarningsMean DEF LowRunwayIsExact, LowRunway
<1> HIDE DEF p, b
<1>3. CASE p < 0
    <2>1. low * b = -(low * p) /\ low * p \in Int /\ b > 0
        BY <1>1, <1>3, SMT
    <2> QED
        BY <1>1, <1>2, <2>1
<1>4. CASE p >= 0
    <2>1. low * 0 <= low * p /\ low * p \in Int /\ ~(b > 0)
        BY <1>1, <1>4, TimesMonotone
    <2> QED
        BY <1>1, <1>2, <2>1
<1> QED
    BY <1>1, <1>3, <1>4

\* An amount in cents is at most half a cent off.
LEMMA CentsAreClose ==
    ASSUME NEW a \in Int
    PROVE  /\ Cents(a) \in Int
           /\ 100 * Cents(a) - a \in -50 .. 50
           /\ Cents(-a) = -Cents(a)
           /\ a >= 0 => Cents(a) >= 0
           /\ a <= 0 => Cents(a) <= 0
<1>1. /\ Cents(a) \in Int /\ Cents(-a) = -Cents(a)
      /\ a >= 0 => Cents(a) >= 0
      /\ a <= 0 => Cents(a) <= 0
    <2>1. 100 * 0 = 0 /\ 100 \in Nat \ {0} /\ 0 \in Int
        OBVIOUS
    <2>2. /\ Rounded(a, 100) \in Int
          /\ a >= 100 * 0 => Rounded(a, 100) >= 0
          /\ a <= 100 * 0 => Rounded(a, 100) <= 0
          /\ Rounded(-a, 100) = -Rounded(a, 100)
        BY <2>1, RoundedSide
    <2> QED
        BY <2>1, <2>2 DEF Cents
<1>2. 100 * Cents(a) - a \in -50 .. 50
    BY DEF Cents, Rounded, HalfUp
<1> QED
    BY <1>1, <1>2

\* Amounts keep their order in cents and as doubles.
LEMMA MoneyKeepsOrder ==
    ASSUME NEW x \in Int, NEW y \in Int, x <= y
    PROVE  /\ Cents(x) <= Cents(y)
           /\ MoneyFloat(x) <= MoneyFloat(y)
<1>1. Cents(x) \in Int /\ Cents(y) \in Int /\ Cents(x) <= Cents(y)
    BY CentsAreClose DEF Cents, Rounded, HalfUp
<1>2. 16 * Cents(x) \in Int /\ 16 * Cents(y) \in Int /\ 16 * Cents(x) <= 16 * Cents(y)
    BY <1>1
<1>3. MoneyFloat(x) <= MoneyFloat(y)
    BY <1>2, DoublesKeepOrder, 25 \in Nat \ {0} DEF MoneyFloat
<1> QED
    BY <1>1, <1>3

\* What is reported of an amount.
Reported(a) ==
    /\ Cents(a) \in Int /\ MoneyFloat(a) \in Int
    /\ 100 * Cents(a) - a \in -50 .. 50
    /\ Cents(a) >= 0 => MoneyFloat(a) >= 0
    /\ Cents(a) <= 0 => MoneyFloat(a) <= 0
    /\ Cents(a) > 0 => MoneyFloat(a) > 0
    /\ MoneyFloat(-a) = -MoneyFloat(a)
    /\ 2 * Significand * Abs(MoneyFloat(a) - 16 * Cents(a)) <= Inexact(MoneyFloat(a), 25)

LEMMA MoneyReported ==
    ASSUME NEW a \in Int
    PROVE  Reported(a)
<1>1. /\ Cents(a) \in Int /\ 100 * Cents(a) - a \in -50 .. 50
      /\ Cents(-a) = -Cents(a)
    BY CentsAreClose
<1> DEFINE x == 16 * Cents(a)
<1>2. x \in Int /\ 16 * Cents(-a) = -x
    BY <1>1
<1>3. MoneyFloat(a) = Double(x, 25) /\ MoneyFloat(-a) = Double(-x, 25)
    BY <1>2 DEF MoneyFloat
<1>4. /\ Cents(a) >= 0 => x >= 0
      /\ Cents(a) <= 0 => x <= 0
      /\ Cents(a) > 0 => x > 0
    BY <1>1
<1> HIDE DEF x
<1>5. Faithful(x, 25)
    BY <1>2, DoubleIsFaithful, 25 \in Nat \ {0}
<1> QED
    BY <1>1, <1>3, <1>4, <1>5 DEF Faithful, Reported, x

\* Two figures that are off in proportion, and a third that is exact.
LEMMA GapIsBounded ==
    ASSUME NEW s \in Nat, NEW x \in Int, NEW y \in Int, NEW u \in Int, NEW v \in Int,
           NEW z \in Int, NEW a \in Int, NEW b \in Int,
           Abs(u - v - z) <= 16,
           s * Abs(x - u) <= a, s * Abs(y - v) <= b
    PROVE  s * (Abs(x - y - z) - 16) <= a + b
<1> DEFINE d == Abs(x - u)
           e == Abs(y - v)
           gap == Abs(x - y - z) - 16
<1>1. d \in Int /\ e \in Int /\ gap \in Int /\ gap <= d + e
    BY DEF Abs
<1> HIDE DEF d, e, gap
<1>2. s * gap <= s * (d + e)
    BY <1>1, TimesMonotone
<1>3. s * (d + e) = s * d + s * e /\ s * d \in Int /\ s * e \in Int /\ s * gap \in Int
    BY <1>1, SMT
<1>4. s * d <= a /\ s * e <= b
    BY DEF d, e
<1> QED
    BY <1>2, <1>3, <1>4 DEF gap

\* Figures that are rounded one by one, to cents and to doubles, do not contradict each other
\* beyond that rounding, for all inputs.
THEOREM MoneyAlwaysAgrees ==
    ASSUME NEW in \in FinancialInputs, NEW low \in Nat
    PROVE  MoneyAgrees(in, low)
<1> DEFINE c == MarginPerOrder(in) * in.orders
           p == OperatingProfit(in)
           f == Fixed(in)
           b == MonthlyBurn(in)
           api == ApiResult(in)
           loss == "NEGATIVE_OPERATING_PROFIT" \in Warnings(in, low)
           s == 2 * Significand
           gap == api.contribution_margin - api.operating_profit - 16 * Cents(f)
<1>1. /\ c \in Int /\ f \in Nat /\ p \in Int /\ b \in Nat /\ p = c - f
      /\ b = IF p < 0 THEN -p ELSE 0
      /\ in.cash \in Nat
    BY AmountsAreIntegers
<1>2. /\ api.contribution_margin = MoneyFloat(c) /\ api.operating_profit = MoneyFloat(p)
      /\ api.monthly_burn = MoneyFloat(b)
      /\ api.runway_months =
            IF RunwayMonths(in) = Null THEN Null ELSE PercentageFloat(RunwayMonths(in))
    BY DEF ApiResult
<1>3. loss <=> p < 0
    BY WarningsMean
<1>4. MoneyAgrees(in, low) <=>
         /\ api.monthly_burn = IF api.operating_profit < 0 THEN -api.operating_profit ELSE 0
         /\ loss /\ api.monthly_burn = 0 => b < 50
         /\ loss <=> api.runway_months # Null
         /\ api.contribution_margin >= api.operating_profit
         /\ s * (Abs(gap) - 16) <=
               Inexact(api.contribution_margin, 25) + Inexact(api.operating_profit, 25)
    BY Zenon DEF MoneyAgrees
<1>5. gap = MoneyFloat(c) - MoneyFloat(p) - 16 * Cents(f)
    BY <1>2
<1>6. api.runway_months # Null <=> b > 0
    <2>1. CASE b > 0
        <3>1. RunwayMonths(in) = HalfUp(in.cash * 10000, b)
            BY <2>1 DEF RunwayMonths
        <3> DEFINE cash == in.cash * 10000
                   n == HalfUp(cash, b)
        <3>2. cash \in Nat /\ b * 0 = 0 /\ b \in Nat \ {0}
            BY <1>1, <2>1
        <3> HIDE DEF b, cash
        <3>3. n >= 0 /\ n \in Int
            BY <3>2, HalfUpSide
        <3> HIDE DEF n
        <3>4. Faithful(512 * n, 625)
            BY <3>3, DoubleIsFaithful, 625 \in Nat \ {0}
        <3>5. PercentageFloat(n) >= 0 /\ PercentageFloat(n) \in Int
            BY <3>3, <3>4 DEF Faithful, PercentageFloat
        <3>6. RunwayMonths(in) = n
            BY <3>1 DEF n, cash
        <3> HIDE DEF api
        <3> QED
            BY <1>2, <2>1, <3>3, <3>5, <3>6 DEF Null
    <2>2. CASE ~(b > 0)
        BY <1>2, <2>2 DEF RunwayMonths
    <2> QED
        BY <2>1, <2>2
<1> HIDE DEF c, p, f, b, api, loss, gap, s
<1>7. Reported(c) /\ Reported(p) /\ Reported(b) /\ Reported(f)
    BY <1>1, MoneyReported
<1>8. MoneyFloat(b) = IF MoneyFloat(p) < 0 THEN -MoneyFloat(p) ELSE 0
    <2>1. /\ 0 \in Int /\ Cents(0) = 0
          /\ p >= 0 => Cents(p) >= 0
          /\ p <= 0 => Cents(p) <= 0
        BY <1>1, CentsAreClose
    <2>2. CASE p < 0
        <3>1. b = -p /\ MoneyFloat(p) <= 0
            BY <1>1, <1>7, <2>1, <2>2 DEF Reported
        <3> QED
            BY <1>7, <3>1 DEF Reported
    <2>3. CASE p >= 0
        <3>1. b = 0 /\ MoneyFloat(p) >= 0
            BY <1>1, <1>7, <2>1, <2>3 DEF Reported
        <3>2. MoneyFloat(b) = 0
            BY <1>7, <2>1, <3>1 DEF Reported
        <3> QED
            BY <1>7, <3>1, <3>2 DEF Reported
    <2> QED
        BY <1>1, <2>2, <2>3
<1>9. MoneyFloat(b) = 0 => b < 50
    <2>0. /\ Cents(b) \in Int /\ 100 * Cents(b) - b \in -50 .. 50
          /\ Cents(b) > 0 => MoneyFloat(b) > 0
        BY <1>7 DEF Reported
    <2>1. MoneyFloat(b) = 0 => Cents(b) <= 0
        BY <2>0
    <2>2. Cents(b) <= 0 => b <= 50
        BY <1>1, <2>0
    <2>3. b = 50 => Cents(b) = 1
        BY DEF Cents, Rounded, HalfUp
    <2> QED
        BY <1>1, <2>1, <2>2, <2>3
<1>10. MoneyFloat(c) >= MoneyFloat(p)
    BY <1>1, <1>7, MoneyKeepsOrder DEF Reported
<1>11. s * (Abs(gap) - 16) <= Inexact(MoneyFloat(c), 25) + Inexact(MoneyFloat(p), 25)
    <2> DEFINE u == 16 * Cents(c)
               v == 16 * Cents(p)
               z == 16 * Cents(f)
               x == MoneyFloat(c)
               y == MoneyFloat(p)
               ex == Inexact(x, 25)
               ey == Inexact(y, 25)
    <2>1. Abs(u - v - z) <= 16
        BY <1>1, <1>7 DEF Reported, Abs
    <2>2. u \in Int /\ v \in Int /\ z \in Int /\ x \in Int /\ y \in Int
        BY <1>7 DEF Reported
    <2>3. s * Abs(x - u) <= ex /\ s * Abs(y - v) <= ey
        BY <1>7 DEF Reported, s
    <2>4. s \in Nat
        BY DoublesAssumption DEF DoublesAssumption, s
    <2>5. ex \in Int /\ ey \in Int
        BY <2>2 DEF Inexact, Abs
    <2>6. gap = x - y - z
        BY <1>5
    <2> HIDE DEF u, v, z, x, y, ex, ey
    <2>7. s * (Abs(x - y - z) - 16) <= ex + ey
        BY <2>1, <2>2, <2>3, <2>4, <2>5, GapIsBounded
    <2> QED
        BY <2>6, <2>7 DEF x, y, ex, ey
<1>12. loss <=> b > 0
    BY <1>1, <1>3
<1> QED
    BY <1>1, <1>2, <1>4, <1>6, <1>8, <1>9, <1>10, <1>11, <1>12

\* A quartile in units of 0.0001 is reported as an exact percentage.
LEMMA PercentOfRatio ==
    ASSUME NEW q \in Int
    PROVE  Percent(q, 10000) = 100 * q
<1> DEFINE c == 100 * q
<1>1. c \in Int /\ q * 1000000 = 10000 * c /\ 10000 \in Nat \ {0}
    BY SMT
<1> HIDE DEF c
<1>2. q * 1000000 >= 10000 * c /\ q * 1000000 <= 10000 * c
    BY <1>1, SMT
<1>3. Percent(q, 10000) \in Int /\ Percent(q, 10000) >= c /\ Percent(q, 10000) <= c
    BY <1>1, <1>2, PercentSide, SMT
<1> QED
    BY <1>1, <1>3, SMT DEF c

\* Four places printed of a double keep the order.
LEMMA PrintedKeepsOrder ==
    ASSUME NEW x \in Int, NEW y \in Int, x <= y
    PROVE  /\ Places(PercentageFloat(x)) \in Int /\ Places(PercentageFloat(y)) \in Int
           /\ Places(PercentageFloat(x)) <= Places(PercentageFloat(y))
<1> DEFINE u == PercentageFloat(x)
           v == PercentageFloat(y)
<1>1. u \in Int /\ v \in Int /\ u <= v
    <2> DEFINE a == 512 * x
               b == 512 * y
    <2>1. a \in Int /\ b \in Int /\ a <= b /\ 625 \in Nat \ {0}
        OBVIOUS
    <2>2. u = Double(a, 625) /\ v = Double(b, 625)
        BY DEF PercentageFloat
    <2> HIDE DEF a, b
    <2>3. Faithful(a, 625) /\ Faithful(b, 625) /\ Double(a, 625) <= Double(b, 625)
        BY <2>1, DoubleIsFaithful, DoublesKeepOrder
    <2> QED
        BY <2>2, <2>3 DEF Faithful
<1> HIDE DEF u, v
<1>2. ASSUME NEW z \in Int
      PROVE  /\ HalfEven(z, 512) \in Int
             /\ z >= 0 => HalfEven(z, 512) >= 0
    <2>1. 512 \in Nat \ {0} /\ 512 * 0 = 0
        OBVIOUS
    <2> QED
        BY <2>1, HalfEvenSide
<1>3. \A z \in Int : HalfEven(z, 512) \in Int /\ (z >= 0 => HalfEven(z, 512) >= 0)
    BY <1>2
<1>4. CASE u >= 0
    <2>1. HalfEven(u, 512) <= HalfEven(v, 512)
        BY <1>1, HalfEvenKeepsOrder, 512 \in Nat \ {0}
    <2> QED
        BY <1>1, <1>3, <1>4, <2>1 DEF Places, u, v
<1>5. CASE v < 0
    <2>1. -v \in Int /\ -u \in Int /\ -v <= -u /\ u < 0
        BY <1>1, <1>5
    <2>2. HalfEven(-v, 512) <= HalfEven(-u, 512)
        BY <2>1, HalfEvenKeepsOrder, 512 \in Nat \ {0}
    <2>3. HalfEven(-v, 512) \in Int /\ HalfEven(-u, 512) \in Int
        BY <1>3, <2>1
    <2> QED
        BY <1>5, <2>1, <2>2, <2>3 DEF Places, u, v
<1>6. CASE u < 0 /\ v >= 0
    <2>1. /\ HalfEven(-u, 512) \in Int /\ HalfEven(-u, 512) >= 0
          /\ HalfEven(v, 512) \in Int /\ HalfEven(v, 512) >= 0
        BY <1>1, <1>3, <1>6
    <2> QED
        BY <1>1, <1>6, <2>1 DEF Places, u, v
<1> QED
    BY <1>1, <1>4, <1>5, <1>6

\* The printed percentages of a margin and of a quartile are never in the opposite order of
\* the exact ratios.
OrderKept(m, w, q) ==
    /\ 10000 * m >= q * w => FormatPercent(m, w) >= FormatPercent(q, 10000)
    /\ 10000 * m <= q * w => FormatPercent(m, w) <= FormatPercent(q, 10000)
    /\ m < 0 /\ q >= 0 => 10000 * m < q * w
    /\ FormatPercent(m, w) \in Int /\ FormatPercent(q, 10000) \in Int /\ q * w \in Int

LEMMA PercentsKeepOrder ==
    ASSUME NEW m \in Int, NEW w \in Nat \ {0}, NEW q \in Int
    PROVE  OrderKept(m, w, q)
<1> DEFINE c == 100 * q
           x == q * w
           n == Percent(m, w)
<1>1. c \in Int /\ x \in Int /\ w * c = 100 * x
    BY SMT
<1>2. q >= 0 => x >= 0
    BY SMT
<1>3. Percent(q, 10000) = c
    BY PercentOfRatio, SMT
<1> HIDE DEF c, x
<1>4. /\ n \in Int
      /\ m * 1000000 >= w * c => n >= c
      /\ m * 1000000 <= w * c => n <= c
    BY <1>1, PercentSide, SMT
<1> HIDE DEF n
<1>5. /\ 10000 * m >= x => n >= c
      /\ 10000 * m <= x => n <= c
      /\ m < 0 /\ q >= 0 => 10000 * m < x
    BY <1>1, <1>2, <1>4, SMT
<1> DEFINE printed == Places(PercentageFloat(n))
           quartile == Places(PercentageFloat(c))
<1>6. printed \in Int /\ quartile \in Int
    BY <1>1, <1>4, PrintedKeepsOrder
<1>7. /\ n >= c => printed >= quartile
      /\ n <= c => printed <= quartile
    BY <1>1, <1>4, PrintedKeepsOrder
<1>8. FormatPercent(m, w) = printed /\ FormatPercent(q, 10000) = quartile
    BY <1>3 DEF FormatPercent, n
<1> HIDE DEF printed, quartile
<1> QED
    BY <1>1, <1>5, <1>6, <1>7, <1>8, SMT DEF x, OrderKept

\* A position that comparisons in one order decide, and figures that keep the order.
LEMMA PositionAgrees ==
    ASSUME NEW x \in Int, NEW y \in Int, NEW z \in Int, NEW m \in Int,
           NEW v \in Int, NEW lower \in Int, NEW upper \in Int, NEW q \in Int, NEW position,
           x < y => position = "BelowBenchmark",
           x >= y /\ x <= z => position = "AtBenchmark",
           x >= y /\ x > z => position = "AboveBenchmark",
           x >= y => v >= lower, x <= y => v <= lower,
           x >= z => v >= upper, x <= z => v <= upper,
           m < 0 /\ q >= 0 => x < y
    PROVE  /\ position = "BelowBenchmark" => v <= lower
           /\ position = "AtBenchmark" => lower <= v /\ v <= upper
           /\ position = "AboveBenchmark" => v >= upper
           /\ m < 0 /\ q >= 0 => position = "BelowBenchmark"
           /\ position \in {"BelowBenchmark", "AtBenchmark", "AboveBenchmark"}
<1>1. CASE x < y
    BY <1>1
<1>2. CASE x >= y /\ x <= z
    BY <1>2
<1>3. CASE x >= y /\ x > z
    BY <1>3
<1> QED
    BY <1>1, <1>2, <1>3

\* The only member of a sequence.
LEMMA FirstOfOne ==
    ASSUME NEW S, NEW s \in Seq(S), Len(s) = 1
    PROVE  s[1] \in S
OBVIOUS

\* The position against the IDX companies agrees with the percentages shown with it, for
\* all inputs and every table.
THEOREM IdxAlwaysAgrees ==
    ASSUME NEW in \in FinancialInputs, NEW rows \in Seq(IdxRow)
    PROVE  IdxAgrees(in, rows)
<1> SUFFICES ASSUME NEW b \in IdxBenchmarks(in, rows)
             PROVE  /\ b.value = Places(ApiResult(in).contribution_margin_pct)
                    /\ CASE b.status = "BelowBenchmark" -> b.value <= b.p25
                         [] b.status = "AtBenchmark" -> b.p25 <= b.value /\ b.value <= b.p75
                         [] b.status = "AboveBenchmark" -> b.value >= b.p75
                    /\ MarginPerOrder(in) < 0 /\ rows[1].p25 >= 0 => b.status = "BelowBenchmark"
    BY WarningsMean, Zenon DEF IdxAgrees
<1>1. /\ in.revenue > 0 /\ Len(rows) = 1 /\ Usable(rows[1])
      /\ b = [value |-> FormatPercent(MarginPerOrder(in), in.revenue),
              p25 |-> FormatPercent(rows[1].p25, 10000),
              p75 |-> FormatPercent(rows[1].p75, 10000),
              status |-> Position(in, rows[1])]
    BY SMT DEF IdxBenchmarks
<1>2. /\ b.value = FormatPercent(MarginPerOrder(in), in.revenue)
      /\ b.p25 = FormatPercent(rows[1].p25, 10000) /\ b.p75 = FormatPercent(rows[1].p75, 10000)
      /\ b.status = Position(in, rows[1])
    BY <1>1, SMT
<1>3. MarginPerOrder(in) \in Int /\ in.revenue \in Nat \ {0}
    BY <1>1, AmountsAreIntegers, SMT
<1>4. rows[1].p25 \in Int /\ rows[1].p75 \in Int
    <2>1. rows[1] \in IdxRow
        BY <1>1, FirstOfOne, SMT
    <2> QED
        BY <2>1, SMT DEF IdxRow
<1>5. b.value = Places(ApiResult(in).contribution_margin_pct)
    <2>1. ApiResult(in).contribution_margin_pct = PercentageFloat(MarginPercent(in))
        BY DEF ApiResult
    <2>2. MarginPercent(in) = Percent(MarginPerOrder(in), in.revenue)
        BY <1>1 DEF MarginPercent
    <2> QED
        BY <1>2, <2>1, <2>2 DEF FormatPercent
<1> DEFINE m == MarginPerOrder(in)
           w == in.revenue
           p25 == rows[1].p25
           p75 == rows[1].p75
           position == Position(in, rows[1])
<1>6. /\ b.value = FormatPercent(m, w) /\ b.p25 = FormatPercent(p25, 10000)
      /\ b.p75 = FormatPercent(p75, 10000) /\ b.status = position
    BY <1>2, SMT
<1>7. /\ 10000 * m < p25 * w => position = "BelowBenchmark"
      /\ ~(10000 * m < p25 * w) /\ 10000 * m <= p75 * w => position = "AtBenchmark"
      /\ ~(10000 * m < p25 * w) /\ ~(10000 * m <= p75 * w) => position = "AboveBenchmark"
    BY SMT DEF Position
<1>8. m \in Int /\ w \in Nat \ {0} /\ p25 \in Int /\ p75 \in Int
    BY <1>3, <1>4
<1> HIDE DEF m, w, p25, p75, position
<1>9. OrderKept(m, w, p25) /\ OrderKept(m, w, p75)
    BY <1>8, PercentsKeepOrder, Zenon
<1> DEFINE x == 10000 * m
           y == p25 * w
           z == p75 * w
           v == b.value
           lower == b.p25
           upper == b.p75
<1>10. /\ x \in Int /\ y \in Int /\ z \in Int
       /\ v \in Int /\ lower \in Int /\ upper \in Int
    BY <1>6, <1>8, <1>9, SMT DEF OrderKept
<1>11. /\ x >= y => v >= lower
       /\ x <= y => v <= lower
       /\ x >= z => v >= upper
       /\ x <= z => v <= upper
       /\ m < 0 /\ p25 >= 0 => x < y
    BY <1>6, <1>9, SMT DEF OrderKept
<1>12. /\ x < y => position = "BelowBenchmark"
       /\ ~(x < y) /\ x <= z => position = "AtBenchmark"
       /\ ~(x < y) /\ ~(x <= z) => position = "AboveBenchmark"
    BY <1>7
<1> HIDE DEF x, y, z
<1>13. /\ x >= y /\ x <= z => position = "AtBenchmark"
       /\ x >= y /\ x > z => position = "AboveBenchmark"
    BY <1>10, <1>12
<1> HIDE DEF v, lower, upper
<1>14. /\ position = "BelowBenchmark" => v <= lower
       /\ position = "AtBenchmark" => lower <= v /\ v <= upper
       /\ position = "AboveBenchmark" => v >= upper
       /\ m < 0 /\ p25 >= 0 => position = "BelowBenchmark"
       /\ position \in {"BelowBenchmark", "AtBenchmark", "AboveBenchmark"}
    BY <1>8, <1>10, <1>11, <1>12, <1>13, PositionAgrees, SMT
<1>15. /\ b.status = "BelowBenchmark" => b.value <= b.p25
       /\ b.status = "AtBenchmark" => b.p25 <= b.value /\ b.value <= b.p75
       /\ b.status = "AboveBenchmark" => b.value >= b.p75
       /\ MarginPerOrder(in) < 0 /\ rows[1].p25 >= 0 => b.status = "BelowBenchmark"
       /\ b.status \in {"BelowBenchmark", "AtBenchmark", "AboveBenchmark"}
    BY <1>6, <1>14 DEF m, p25, v, lower, upper
<1> QED
    BY <1>5, <1>15, Zenon

-----------------------------------------------------------------------------
(***************************************************************************)
(* The ranking.  An order that decides between any two members of a finite *)
(* set gives each of its places to exactly one of them.                    *)
(***************************************************************************)

\* An order that decides between any two members of s.
Orders(order, s) ==
    /\ \A x \in s : <<x, x>> \notin order
    /\ \A x, y, z \in s : <<x, y>> \in order /\ <<y, z>> \in order => <<x, z>> \in order
    /\ \A x, y \in s : x # y => <<x, y>> \in order \/ <<y, x>> \in order

\* Of two members, the earlier has fewer members before it.
LEMMA EarlierHasFewer ==
    ASSUME NEW s, IsFiniteSet(s), NEW order, Orders(order, s), NEW x \in s, NEW y \in s
    PROVE  /\ IsFiniteSet(Before(s, order, x))
           /\ Cardinality(Before(s, order, x)) \in 0 .. Cardinality(s) - 1
           /\ <<x, y>> \in order =>
                 Cardinality(Before(s, order, x)) < Cardinality(Before(s, order, y))
<1>1. Before(s, order, x) \in SUBSET (s \ {x}) /\ Before(s, order, y) \in SUBSET (s \ {y})
    BY DEF Before, Orders
<1>2. /\ IsFiniteSet(s \ {x}) /\ Cardinality(s \ {x}) = Cardinality(s) - 1
      /\ IsFiniteSet(s \ {y}) /\ Cardinality(s) \in Nat
    BY FS_RemoveElement, FS_CardinalityType
<1>3. /\ IsFiniteSet(Before(s, order, x)) /\ IsFiniteSet(Before(s, order, y))
      /\ Cardinality(Before(s, order, x)) <= Cardinality(s \ {x})
    BY <1>1, <1>2, FS_Subset
<1>4. Cardinality(Before(s, order, x)) \in Nat /\ Cardinality(Before(s, order, y)) \in Nat
    BY <1>3, FS_CardinalityType
<1>5. ASSUME <<x, y>> \in order
      PROVE  Cardinality(Before(s, order, x)) < Cardinality(Before(s, order, y))
    <2>1. Before(s, order, x) \in SUBSET Before(s, order, y)
        BY <1>5 DEF Before, Orders
    <2>2. x \in Before(s, order, y) /\ x \notin Before(s, order, x)
        BY <1>5 DEF Before, Orders
    <2>3. /\ Cardinality(Before(s, order, x)) <= Cardinality(Before(s, order, y))
          /\ Cardinality(Before(s, order, x)) # Cardinality(Before(s, order, y))
        BY <1>3, <2>1, <2>2, FS_Subset
    <2> QED
        BY <1>4, <2>3
<1> QED
    BY <1>2, <1>3, <1>4, <1>5

\* No two members have the same number of members before them.
LEMMA PlacesDiffer ==
    ASSUME NEW s, IsFiniteSet(s), NEW order, Orders(order, s), NEW x \in s, NEW y \in s,
           Cardinality(Before(s, order, x)) = Cardinality(Before(s, order, y))
    PROVE  x = y
<1> SUFFICES ASSUME x # y PROVE FALSE
    OBVIOUS
<1>1. CASE <<x, y>> \in order
    BY <1>1, EarlierHasFewer
<1>2. CASE <<y, x>> \in order
    BY <1>2, EarlierHasFewer
<1> QED
    BY <1>1, <1>2 DEF Orders

\* Every place is taken.
LEMMA PlacesAreTaken ==
    ASSUME NEW s, IsFiniteSet(s), NEW order, Orders(order, s), NEW k \in 1 .. Cardinality(s)
    PROVE  \E x \in s : Cardinality(Before(s, order, x)) = k - 1
<1> DEFINE place == [x \in s |-> Cardinality(Before(s, order, x))]
           P == 0 .. Cardinality(s) - 1
<1>1. Cardinality(s) \in Nat /\ k - 1 \in P
    BY FS_CardinalityType
<1>2. IsFiniteSet(P) /\ Cardinality(P) = Cardinality(s)
    BY <1>1, FS_Interval
<1>3. place \in [s -> P]
    BY EarlierHasFewer
<1>4. \A x, y \in s : place[x] = place[y] => x = y
    BY PlacesDiffer
<1> HIDE DEF P
<1>5. place \in Injection(s, P)
    BY <1>3, <1>4, Zenon DEF Injection, IsInjective
<1>6. place \in Surjection(s, P)
    BY <1>2, <1>5, FS_Injection
<1>7. PICK x \in s : place[x] = k - 1
    BY <1>1, <1>6 DEF Surjection
<1> QED
    BY <1>7

\* What InOrder lists: every member of a finite set, once, each after those before it.
Lists(o, s, order) ==
    /\ o \in Seq(s) /\ Len(o) = Cardinality(s) /\ DOMAIN o = 1 .. Cardinality(s)
    /\ \A k \in 1 .. Cardinality(s) :
          o[k] \in s /\ Cardinality(Before(s, order, o[k])) = k - 1
    /\ \A x \in s : \E k \in 1 .. Cardinality(s) : o[k] = x
    /\ \A a, b \in 1 .. Cardinality(s) : a < b <=> <<o[a], o[b]>> \in order

LEMMA InOrderLists ==
    ASSUME NEW s, IsFiniteSet(s), NEW order, Orders(order, s)
    PROVE  Cardinality(s) \in Nat /\ Lists(InOrder(s, order), s, order)
<1> DEFINE n == Cardinality(s)
           o == InOrder(s, order)
<1>1. n \in Nat
    BY FS_CardinalityType
<1>2. /\ o = [k \in 1 .. n |->
                 CHOOSE x \in s : Cardinality(Before(s, order, x)) = k - 1]
    BY DEF InOrder
<1> HIDE DEF n, o
<1>3. ASSUME NEW k \in 1 .. n
      PROVE  o[k] \in s /\ Cardinality(Before(s, order, o[k])) = k - 1
    <2>1. \E x \in s : Cardinality(Before(s, order, x)) = k - 1
        BY PlacesAreTaken DEF n
    <2> QED
        BY <1>2, <2>1
<1>4. DOMAIN o = 1 .. n
    BY <1>2
<1>5. o \in Seq(s) /\ Len(o) = n
    <2>1. o \in [1 .. n -> s]
        BY <1>2, <1>3
    <2> QED
        BY <1>1, <2>1
<1>6. ASSUME NEW x \in s PROVE \E k \in 1 .. n : o[k] = x
    <2> DEFINE c == Cardinality(Before(s, order, x))
    <2>1. c \in 0 .. n - 1
        BY EarlierHasFewer DEF n
    <2> HIDE DEF c
    <2>2. c + 1 \in 1 .. n /\ c = (c + 1) - 1
        BY <1>1, <2>1
    <2>3. o[c + 1] \in s /\ Cardinality(Before(s, order, o[c + 1])) = (c + 1) - 1
        BY <1>3, <2>2
    <2>4. Cardinality(Before(s, order, o[c + 1])) = c
        BY <2>2, <2>3
    <2>5. o[c + 1] = x
        BY <2>3, <2>4, PlacesDiffer DEF c
    <2> QED
        BY <2>2, <2>5
<1>7. ASSUME NEW a \in 1 .. n, NEW b \in 1 .. n
      PROVE  a < b <=> <<o[a], o[b]>> \in order
    <2>1. /\ o[a] \in s /\ Cardinality(Before(s, order, o[a])) = a - 1
          /\ o[b] \in s /\ Cardinality(Before(s, order, o[b])) = b - 1
        BY <1>3
    <2>2. <<o[a], o[b]>> \in order => a < b
        <3>1. <<o[a], o[b]>> \in order => a - 1 < b - 1
            BY <2>1, EarlierHasFewer
        <3> QED
            BY <1>1, <3>1
    <2>3. <<o[b], o[a]>> \in order => b < a
        <3>1. <<o[b], o[a]>> \in order => b - 1 < a - 1
            BY <2>1, EarlierHasFewer
        <3> QED
            BY <1>1, <3>1
    <2>4. o[a] = o[b] => a = b
        BY <1>1, <2>1
    <2>5. o[a] # o[b] => <<o[a], o[b]>> \in order \/ <<o[b], o[a]>> \in order
        BY <2>1 DEF Orders
    <2> QED
        BY <1>1, <2>2, <2>3, <2>4, <2>5
<1> QED
    BY <1>1, <1>3, <1>4, <1>5, <1>6, <1>7 DEF n, o, Lists

\* The rows a ranking is made of: the best first, each exactly once.
LEMMA RankedRows ==
    ASSUME NEW scores \in Seq(Int)
    PROVE  /\ Len(scores) \in Nat /\ DOMAIN scores = 1 .. Len(scores)
           /\ IsFiniteSet(DOMAIN scores) /\ Cardinality(DOMAIN scores) = Len(scores)
           /\ Ranked(scores) \in Seq(DOMAIN scores) /\ Len(Ranked(scores)) = Len(scores)
           /\ \A a \in DOMAIN scores :
                 /\ Ranked(scores)[a] \in DOMAIN scores
                 /\ Cardinality({j \in DOMAIN scores : Better(scores, j, Ranked(scores)[a])})
                       = a - 1
           /\ \A i \in DOMAIN scores : \E a \in DOMAIN scores : Ranked(scores)[a] = i
           /\ \A a, b \in DOMAIN scores :
                 a < b <=> Better(scores, Ranked(scores)[a], Ranked(scores)[b])
<1> DEFINE s == DOMAIN scores
           r == BestFirst(scores)
           n == Len(scores)
<1>1. n \in Nat /\ s = 1 .. n
    OBVIOUS
<1>2. IsFiniteSet(s) /\ Cardinality(s) = n
    BY <1>1, FS_Interval
<1>3. \A i, j \in s : <<i, j>> \in r <=> Better(scores, i, j)
    BY DEF BestFirst
<1>4. Orders(r, s)
    <2>1. \A i \in s : scores[i] \in Int /\ i \in Int
        OBVIOUS
    <2> HIDE DEF r, s
    <2>2. \A i \in s : ~Better(scores, i, i)
        BY <2>1 DEF Better
    <2>3. \A i, j, k \in s : Better(scores, i, j) /\ Better(scores, j, k) => Better(scores, i, k)
        BY <2>1 DEF Better
    <2>4. \A i, j \in s : i # j => Better(scores, i, j) \/ Better(scores, j, i)
        BY <2>1 DEF Better
    <2> QED
        BY <1>3, <2>2, <2>3, <2>4, Zenon DEF Orders
<1>5. \A i \in s : Before(s, r, i) = {j \in s : Better(scores, j, i)}
    BY <1>3 DEF Before
<1>6. Ranked(scores) = InOrder(s, r)
    BY DEF Ranked
<1> HIDE DEF s, r, n
<1> DEFINE o == InOrder(s, r)
<1> HIDE DEF o
<1>7. Lists(o, s, r)
    BY <1>2, <1>4, InOrderLists, Zenon DEF o
<1>8. /\ o \in Seq(s) /\ Len(o) = n
      /\ \A k \in s : o[k] \in s /\ Cardinality(Before(s, r, o[k])) = k - 1
      /\ \A x \in s : \E k \in s : o[k] = x
      /\ \A a, b \in s : a < b <=> <<o[a], o[b]>> \in r
    BY <1>1, <1>2, <1>7, Zenon DEF Lists
<1>9. \A k \in s : Cardinality({j \in s : Better(scores, j, o[k])}) = k - 1
    BY <1>5, <1>8
<1>10. \A a, b \in s : a < b <=> Better(scores, o[a], o[b])
    BY <1>3, <1>8
<1> QED
    BY <1>1, <1>2, <1>6, <1>8, <1>9, <1>10 DEF s, n, o

Corpus == Seq(Int) \ {<<>>}

\* A corpus gives at least one row, and no more than it has or than are asked for.
LEMMA WithinBounds ==
    ASSUME NEW scores \in Corpus, NEW topK \in Nat \ {0}
    PROVE  /\ scores \in Seq(Int) /\ Len(scores) \in Nat \ {0}
           /\ Within(topK, scores) \in 1 .. Len(scores) /\ Within(topK, scores) <= topK
           /\ topK <= Len(scores) => Within(topK, scores) = topK
           /\ topK > Len(scores) => Within(topK, scores) = Len(scores)
<1>1. scores \in Seq(Int) /\ Len(scores) \in Nat \ {0}
    BY DEF Corpus
<1> QED
    BY <1>1 DEF Within

\* The first k rows of the ranking.
LEMMA FirstRows ==
    ASSUME NEW scores \in Seq(Int), NEW k \in 1 .. Len(scores)
    PROVE  /\ RankIndices(scores, k) \in Seq(DOMAIN scores)
           /\ Len(RankIndices(scores, k)) = k /\ DOMAIN RankIndices(scores, k) = 1 .. k
           /\ \A a \in 1 .. k : RankIndices(scores, k)[a] = Ranked(scores)[a]
<1> DEFINE o == Ranked(scores)
           n == Len(scores)
           s == DOMAIN scores
<1>1. o \in Seq(s) /\ Len(o) = n /\ n \in Nat
    BY RankedRows
<1>2. RankIndices(scores, k) = SubSeq(o, 1, IF k < Len(o) THEN k ELSE Len(o))
    BY DEF RankIndices, FirstOf
<1> HIDE DEF o, n, s
<1>3. k \in 1 .. n
    BY DEF n
<1>4. RankIndices(scores, k) = SubSeq(o, 1, k)
    BY <1>1, <1>2, <1>3
<1>5. /\ SubSeq(o, 1, k) \in Seq(s) /\ Len(SubSeq(o, 1, k)) = k
      /\ DOMAIN SubSeq(o, 1, k) = 1 .. k
      /\ \A a \in 1 .. k : SubSeq(o, 1, k)[a] = o[a]
    BY <1>1, <1>3
<1> QED
    BY <1>4, <1>5 DEF o, s

\* The row of place a reaches the thresholds that the best row of the corpus sets.
Reached(scores, a) == Reaches(scores, Ranked(scores), Ranked(scores)[a])

\* The places whose rows are kept, and the rows that are returned for them.
LEMMA KeptPlaces ==
    ASSUME NEW scores \in Seq(Int), NEW k \in 1 .. Len(scores),
           NEW places, places = Kept(scores, RankIndices(scores, k))
    PROVE  /\ places = {a \in 1 .. k : Reached(scores, a)}
           /\ IsFiniteSet(places) /\ Cardinality(places) \in Nat
           /\ Orders(Ascending(places), places)
           /\ Lists(InOrder(places, Ascending(places)), places, Ascending(places))
           /\ DOMAIN FilterRankedIndices(scores, k) = 1 .. Cardinality(places)
           /\ FilterRankedIndices(scores, k) \in Seq(DOMAIN scores)
           /\ Len(FilterRankedIndices(scores, k)) = Cardinality(places)
           /\ \A b \in 1 .. Cardinality(places) :
                 FilterRankedIndices(scores, k)[b]
                     = Ranked(scores)[InOrder(places, Ascending(places))[b]]
<1> DEFINE r == RankIndices(scores, k)
           o == Ranked(scores)
           s == DOMAIN scores
           p == InOrder(places, Ascending(places))
           c == Cardinality(places)
           found == FilterRankedIndices(scores, k)
<1>1. /\ r \in Seq(s) /\ DOMAIN r = 1 .. k
      /\ \A a \in 1 .. k : r[a] = o[a]
    BY FirstRows
<1>2. places = {a \in 1 .. k : Reached(scores, a)}
    <2>1. 1 \in 1 .. k /\ r[1] = o[1]
        BY <1>1
    <2> HIDE DEF r, o
    <2>2. places = {a \in 1 .. k : Reaches(scores, r, r[a])}
        BY <1>1 DEF Kept, r
    <2>3. \A a \in 1 .. k : Reaches(scores, r, r[a]) <=> Reached(scores, a)
        BY <1>1, <2>1 DEF Reached, Reaches, o
    <2> QED
        BY <2>2, <2>3
<1>3. places \in SUBSET (1 .. k)
    BY <1>2
<1>4. IsFiniteSet(places)
    <2>1. k \in Int /\ 1 \in Int
        OBVIOUS
    <2>2. IsFiniteSet(1 .. k)
        BY <2>1, FS_Interval
    <2> QED
        BY <1>3, <2>2, FS_Subset
<1>5. Orders(Ascending(places), places)
    <2>1. \A a, b \in places : <<a, b>> \in Ascending(places) <=> a < b
        BY DEF Ascending
    <2>2. \A a \in places : a \in Int
        BY <1>3
    <2> QED
        BY <2>1, <2>2 DEF Orders
<1>6. Lists(p, places, Ascending(places)) /\ c \in Nat
    BY <1>4, <1>5, InOrderLists, Zenon
<1>7. found = [b \in DOMAIN p |-> r[p[b]]]
    BY Zenon DEF FilterRankedIndices
<1>8. /\ p \in Seq(places) /\ DOMAIN p = 1 .. c
      /\ \A b \in 1 .. c : p[b] \in places
    BY <1>6, Zenon DEF Lists
<1> HIDE DEF r, o, s, p, c, found
<1>9. \A b \in 1 .. c : found[b] = o[p[b]] /\ found[b] \in s
    <2> TAKE b \in 1 .. c
    <2>1. p[b] \in 1 .. k
        BY <1>3, <1>8
    <2>2. r[p[b]] = o[p[b]] /\ r[p[b]] \in s
        BY <1>1, <2>1
    <2> QED
        BY <1>7, <1>8, <2>2
<1>10. DOMAIN found = 1 .. c /\ found \in Seq(s) /\ Len(found) = c
    <2>1. found \in [1 .. c -> s]
        BY <1>7, <1>8, <1>9
    <2> QED
        BY <1>6, <2>1
<1> QED
    BY <1>2, <1>4, <1>5, <1>6, <1>9, <1>10 DEF r, o, s, p, c, found

\* What the best row has to do with a row that is kept: no row is better than the first, so a
\* row reaches its threshold exactly if it reaches those of all rows.
LEMMA ReachedIsReferred ==
    ASSUME NEW scores \in Corpus, NEW a \in 1 .. Len(scores)
    PROVE  /\ Reached(scores, a) <=>
                 LET i == Ranked(scores)[a]
                 IN  /\ scores[i] >= AbsoluteMin
                     /\ \A j \in DOMAIN scores : 100 * scores[i] >= RelativeToBest * scores[j]
           /\ \A b \in 1 .. a : Reached(scores, a) => Reached(scores, b)
<1> DEFINE o == Ranked(scores)
           s == DOMAIN scores
           n == Len(scores)
<1>1. scores \in Seq(Int) /\ n \in Nat \ {0}
    BY DEF Corpus
<1>2. /\ s = 1 .. n
      /\ \A b \in s : o[b] \in s
      /\ \A i \in s : \E b \in s : o[b] = i
      /\ \A b, c \in s : b < c <=> Better(scores, o[b], o[c])
    BY <1>1, RankedRows
<1>3. \A i \in s : scores[i] \in Int
    BY <1>1
<1>4. a \in s
    BY <1>2
<1> HIDE DEF o, s, n
<1>5. \A b, c \in s : b <= c => scores[o[b]] >= scores[o[c]]
    <2> SUFFICES ASSUME NEW b \in s, NEW c \in s, b <= c PROVE scores[o[b]] >= scores[o[c]]
        OBVIOUS
    <2>1. CASE b = c
        BY <1>2, <1>3, <2>1
    <2>2. CASE b # c
        <3>1. b < c
            BY <1>1, <1>2, <2>2
        <3>2. Better(scores, o[b], o[c])
            BY <1>2, <3>1
        <3>3. scores[o[b]] \in Int /\ scores[o[c]] \in Int
            BY <1>2, <1>3
        <3>4. scores[o[b]] > scores[o[c]] \/ scores[o[b]] = scores[o[c]]
            BY <3>2, Zenon DEF Better
        <3> QED
            BY <3>3, <3>4
    <2> QED
        BY <2>1, <2>2
<1>6. 1 \in s /\ \A b \in s : 1 <= b
    BY <1>1, <1>2
<1>7. \A j \in s : scores[o[1]] >= scores[j]
    BY <1>2, <1>5, <1>6
<1>8. ASSUME NEW b \in s
      PROVE  /\ Reached(scores, b) <=>
                   /\ scores[o[b]] >= AbsoluteMin
                   /\ 100 * scores[o[b]] >= RelativeToBest * scores[o[1]]
             /\ scores[o[b]] \in Int /\ scores[o[1]] \in Int
    BY <1>2, <1>3, <1>6 DEF Reached, Reaches, o
<1>9. Reached(scores, a) <=>
         /\ scores[o[a]] >= AbsoluteMin
         /\ \A j \in s : 100 * scores[o[a]] >= RelativeToBest * scores[j]
    <2> DEFINE u == scores[o[a]]
               best == scores[o[1]]
    <2>1. u \in Int /\ best \in Int
        BY <1>4, <1>8
    <2>2. (100 * u >= RelativeToBest * best) <=> \A j \in s : 100 * u >= RelativeToBest * scores[j]
        <3>1. o[1] \in s
            BY <1>2, <1>6
        <3>2. ASSUME 100 * u >= RelativeToBest * best, NEW j \in s
              PROVE  100 * u >= RelativeToBest * scores[j]
            <4>1. best >= scores[j] /\ scores[j] \in Int
                BY <1>3, <1>7
            <4> HIDE DEF u, best
            <4> QED
                BY <2>1, <3>2, <4>1 DEF RelativeToBest
        <3> QED
            BY <3>1, <3>2
    <2> QED
        BY <1>4, <1>8, <2>2, Zenon
<1>10. ASSUME NEW b \in 1 .. a, Reached(scores, a) PROVE Reached(scores, b)
    <2> DEFINE u == scores[o[a]]
               w == scores[o[b]]
               best == scores[o[1]]
    <2>1. b \in s /\ b <= a
        BY <1>1, <1>2, <1>4
    <2>2. w >= u /\ w \in Int /\ u \in Int /\ best \in Int
        BY <1>4, <1>5, <1>8, <2>1
    <2>3. u >= AbsoluteMin /\ 100 * u >= RelativeToBest * best
        BY <1>4, <1>8, <1>10
    <2>4. Reached(scores, b) <=> w >= AbsoluteMin /\ 100 * w >= RelativeToBest * best
        BY <1>8, <2>1
    <2> HIDE DEF u, w, best
    <2> QED
        BY <2>2, <2>3, <2>4 DEF AbsoluteMin, RelativeToBest
<1> QED
    BY <1>9, <1>10 DEF o, s

\* Cutting the ranking at top_k before the thresholds are applied loses no row and lets none
\* in, for every corpus and every top_k.
THEOREM CutIsHarmless ==
    ASSUME NEW scores \in Corpus, NEW topK \in Nat \ {0}
    PROVE  CutBeforeFilter(scores, topK)
<1> DEFINE k == Within(topK, scores)
           n == Len(scores)
           s == DOMAIN scores
           o == Ranked(scores)
           places == Kept(scores, RankIndices(scores, k))
           p == InOrder(places, Ascending(places))
           c == Cardinality(places)
           found == FilterRankedIndices(scores, k)
           ref == Reference(scores, topK)
           ahead(i) == Cardinality({j \in s : Better(scores, j, i)})
<1>1. /\ scores \in Seq(Int) /\ n \in Nat \ {0} /\ k \in 1 .. n /\ k <= topK
      /\ topK <= n => k = topK
      /\ topK > n => k = n
    BY WithinBounds
<1>2. /\ s = 1 .. n
      /\ \A a \in s : o[a] \in s /\ ahead(o[a]) = a - 1
      /\ \A i \in s : \E a \in s : o[a] = i
    BY <1>1, RankedRows
<1> HIDE DEF k, n, s, o, p, c, places, found, ref, ahead
<1>3. /\ places = {a \in 1 .. k : Reached(scores, a)}
      /\ IsFiniteSet(places) /\ c \in Nat
      /\ Lists(p, places, Ascending(places))
      /\ DOMAIN found = 1 .. c /\ Len(found) = c
      /\ \A b \in 1 .. c : found[b] = o[p[b]]
    <2>1. scores \in Seq(Int) /\ k \in 1 .. Len(scores)
        BY <1>1 DEF n
    <2> QED
        BY <2>1, KeptPlaces, Zenon DEF places, c, p, found, o
<1>4. ASSUME NEW a \in s
      PROVE  o[a] \in ref <=> a \in places
    <2>1. Reached(scores, a) <=>
             /\ scores[o[a]] >= AbsoluteMin
             /\ \A j \in s : 100 * scores[o[a]] >= RelativeToBest * scores[j]
        <3>1. a \in 1 .. Len(scores)
            BY <1>2 DEF n
        <3> QED
            BY <3>1, ReachedIsReferred, Zenon DEF o, s
    <2>2. o[a] \in ref <=> Reached(scores, a) /\ ahead(o[a]) < topK
        BY <1>2, <2>1, Zenon DEF ref, Reference, s, ahead
    <2>3. ahead(o[a]) < topK <=> a \in 1 .. k
        <3>1. ahead(o[a]) = a - 1 /\ a \in 1 .. n
            BY <1>2
        <3> QED
            BY <1>1, <3>1
    <2> QED
        BY <1>3, <2>2, <2>3
<1>5. places \in SUBSET s /\ ref \in SUBSET s
    BY <1>1, <1>2, <1>3 DEF ref, Reference, s
<1>6. {found[b] : b \in DOMAIN found} = ref
    <2>1. /\ \A b \in 1 .. c : p[b] \in places
          /\ \A a \in places : \E b \in 1 .. c : p[b] = a
        BY <1>3, Zenon DEF Lists, c
    <2>2. ASSUME NEW b \in 1 .. c PROVE found[b] \in ref
        BY <1>3, <1>4, <1>5, <2>1
    <2>3. ASSUME NEW i \in ref PROVE \E b \in 1 .. c : found[b] = i
        <3>1. PICK a \in s : o[a] = i
            BY <1>2, <1>5
        <3>2. PICK b \in 1 .. c : p[b] = a
            BY <1>4, <2>1, <3>1
        <3> QED
            BY <1>3, <3>1, <3>2
    <2> QED
        BY <1>3, <2>2, <2>3
<1>7. Cardinality(ref) = c
    <2> DEFINE f == [a \in places |-> o[a]]
    <2>1. f \in [places -> ref]
        BY <1>4, <1>5
    <2>2. \A a, b \in places : f[a] = f[b] => a = b
        <3>1. \A a, b \in s : o[a] = o[b] => a = b
            <4> SUFFICES ASSUME NEW a \in s, NEW b \in s, o[a] = o[b] PROVE a = b
                OBVIOUS
            <4>1. a - 1 = b - 1
                BY <1>2
            <4> QED
                BY <1>1, <1>2, <4>1
        <3> QED
            BY <1>5, <3>1
    <2>3. \A i \in ref : \E a \in places : f[a] = i
        <3> TAKE i \in ref
        <3>1. PICK a \in s : o[a] = i
            BY <1>2, <1>5
        <3> QED
            BY <1>4, <3>1
    <2> HIDE DEF f
    <2>4. f \in Injection(places, ref)
        BY <2>1, <2>2, Zenon DEF Injection, IsInjective
    <2>5. f \in Surjection(places, ref)
        BY <2>1, <2>3, Zenon DEF Surjection
    <2> QED
        BY <1>3, <2>4, <2>5, FS_Surjection DEF c
<1>8. HistoricalFailures(scores, topK) = found
    BY Zenon DEF HistoricalFailures, found, k
<1> QED
    BY <1>3, <1>6, <1>7, <1>8, Zenon DEF CutBeforeFilter, ref

\* A larger top_k extends the rows that are returned and changes none of their ranks, for
\* every corpus.
THEOREM MoreOnlyExtends ==
    ASSUME NEW scores \in Corpus, NEW topK \in Nat \ {0}
    PROVE  LargerTopKExtends(scores, topK)
<1> DEFINE k1 == Within(topK, scores)
           k2 == Within(topK + 1, scores)
           n == Len(scores)
           o == Ranked(scores)
           K1 == Kept(scores, RankIndices(scores, k1))
           K2 == Kept(scores, RankIndices(scores, k2))
           p1 == InOrder(K1, Ascending(K1))
           p2 == InOrder(K2, Ascending(K2))
           c1 == Cardinality(K1)
           c2 == Cardinality(K2)
           fewer == FilterRankedIndices(scores, k1)
           more == FilterRankedIndices(scores, k2)
<1>1. /\ scores \in Seq(Int) /\ n \in Nat \ {0}
      /\ k1 \in 1 .. n /\ k2 \in 1 .. n /\ k1 <= k2
    <2>1. topK + 1 \in Nat \ {0}
        OBVIOUS
    <2>2. /\ scores \in Seq(Int) /\ n \in Nat \ {0} /\ k1 \in 1 .. n
          /\ topK <= n => k1 = topK
          /\ topK > n => k1 = n
        BY WithinBounds
    <2>3. /\ k2 \in 1 .. n
          /\ topK + 1 <= n => k2 = topK + 1
          /\ topK + 1 > n => k2 = n
        BY <2>1, WithinBounds
    <2> HIDE DEF k1, k2, n
    <2> QED
        BY <2>2, <2>3
<1> HIDE DEF k1, k2, n, o, K1, K2, p1, p2, c1, c2, fewer, more
<1>2. /\ K1 = {a \in 1 .. k1 : Reached(scores, a)}
      /\ IsFiniteSet(K1) /\ c1 \in Nat
      /\ Lists(p1, K1, Ascending(K1))
      /\ DOMAIN fewer = 1 .. c1 /\ Len(fewer) = c1 /\ fewer \in Seq(DOMAIN scores)
      /\ \A b \in 1 .. c1 : fewer[b] = o[p1[b]]
    <2>1. scores \in Seq(Int) /\ k1 \in 1 .. Len(scores)
        BY <1>1 DEF n
    <2> QED
        BY <2>1, KeptPlaces, Zenon DEF K1, c1, p1, fewer, o
<1>3. /\ K2 = {a \in 1 .. k2 : Reached(scores, a)}
      /\ IsFiniteSet(K2) /\ c2 \in Nat
      /\ Orders(Ascending(K2), K2)
      /\ Lists(p2, K2, Ascending(K2))
      /\ DOMAIN more = 1 .. c2 /\ Len(more) = c2 /\ more \in Seq(DOMAIN scores)
      /\ \A b \in 1 .. c2 : more[b] = o[p2[b]]
    <2>1. scores \in Seq(Int) /\ k2 \in 1 .. Len(scores)
        BY <1>1 DEF n
    <2> QED
        BY <2>1, KeptPlaces, Zenon DEF K2, c2, p2, more, o
<1>4. K1 \in SUBSET K2 /\ \A a \in K1, b \in K2 : b < a => b \in K1
    BY <1>1, <1>2, <1>3
<1>5. c1 <= c2
    BY <1>3, <1>4, FS_Subset DEF c1, c2
<1>6. ASSUME NEW b \in 1 .. c1 PROVE p2[b] = p1[b]
    <2>1. p1[b] \in K1 /\ Cardinality(Before(K1, Ascending(K1), p1[b])) = b - 1
        BY <1>2, Zenon DEF Lists, c1
    <2>2. p2[b] \in K2 /\ Cardinality(Before(K2, Ascending(K2), p2[b])) = b - 1
        <3>1. b \in 1 .. c2
            BY <1>2, <1>3, <1>5
        <3> QED
            BY <1>3, <3>1, Zenon DEF Lists, c2
    <2>3. Before(K2, Ascending(K2), p1[b]) = Before(K1, Ascending(K1), p1[b])
        BY <1>4, <2>1 DEF Before, Ascending
    <2>4. p1[b] \in K2
        BY <1>4, <2>1
    <2> QED
        BY <1>3, <2>1, <2>2, <2>3, <2>4, PlacesDiffer
<1>7. \A b \in 1 .. c1 : more[b] = fewer[b]
    <2> TAKE b \in 1 .. c1
    <2>1. b \in 1 .. c2
        BY <1>2, <1>3, <1>5
    <2> QED
        BY <1>2, <1>3, <1>6, <2>1
<1>8. FirstOf(more, c1) = fewer
    <2>1. FirstOf(more, c1) = SubSeq(more, 1, c1)
        BY <1>2, <1>3, <1>5 DEF FirstOf
    <2>2. /\ Len(SubSeq(more, 1, c1)) = c1
          /\ \A b \in 1 .. c1 : SubSeq(more, 1, c1)[b] = more[b]
          /\ SubSeq(more, 1, c1) \in Seq(DOMAIN scores)
        BY <1>2, <1>3, <1>5
    <2> QED
        BY <1>2, <1>7, <2>1, <2>2
<1>9. /\ HistoricalFailures(scores, topK) = fewer
      /\ HistoricalFailures(scores, topK + 1) = more
    BY Zenon DEF HistoricalFailures, fewer, more, k1, k2
<1> QED
    BY <1>2, <1>8, <1>9, Zenon DEF LargerTopKExtends

\* The analogues are the best rows, best first, for every corpus and every top_k.
THEOREM AnaloguesAreBest ==
    ASSUME NEW scores \in Corpus, NEW topK \in Nat \ {0}
    PROVE  BestAnalogues(scores, topK)
<1> DEFINE k == Within(topK, scores)
           n == Len(scores)
           s == DOMAIN scores
           o == Ranked(scores)
           found == RankIndices(scores, k)
<1>1. scores \in Seq(Int) /\ n \in Nat \ {0} /\ k \in 1 .. n
    BY WithinBounds
<1>2. /\ s = 1 .. n
      /\ \A i \in s : \E b \in s : o[b] = i
      /\ \A b, c \in s : b < c <=> Better(scores, o[b], o[c])
    BY <1>1, RankedRows
<1>3. Len(found) = k /\ DOMAIN found = 1 .. k /\ \A a \in 1 .. k : found[a] = o[a]
    BY <1>1, FirstRows
<1>4. CompanyAnalogues(scores, topK) = found
    BY Zenon DEF CompanyAnalogues
<1> HIDE DEF k, n, s, o, found
<1>5. ASSUME NEW a \in DOMAIN found, NEW i \in s, Better(scores, i, found[a])
      PROVE  \E b \in 1 .. a - 1 : found[b] = i
    <2>1. a \in 1 .. k /\ a \in s /\ found[a] = o[a]
        <3>1. a \in 1 .. k
            BY <1>3, Zenon
        <3>2. a \in 1 .. n
            BY <1>1, <3>1
        <3> QED
            BY <1>2, <1>3, <3>1, <3>2, Zenon
    <2>2. PICK b \in s : o[b] = i
        BY <1>2, <1>5
    <2>3. b < a
        BY <1>2, <1>5, <2>1, <2>2
    <2>4. b \in 1 .. k /\ b \in 1 .. a - 1
        <3>1. b \in 1 .. n
            BY <1>2, Zenon
        <3> QED
            BY <1>1, <2>1, <2>3, <3>1
    <2> QED
        BY <1>3, <2>2, <2>4
<1> QED
    BY <1>3, <1>4, <1>5, Zenon DEF BestAnalogues, k, s
-----------------------------------------------------------------------------
(***************************************************************************)
(* The specification.                                                      *)
(***************************************************************************)

\* What the figures are computed from.
IInv ==
    /\ breakdown \in Breakdowns
    /\ inputs \in FinancialInputs
    /\ similarities \in Corpus

\* Before the first step.
LEMMA InitiallyTyped == Init => IInv
<1> SUFFICES ASSUME Init PROVE IInv
    OBVIOUS
<1> USE ReportFiguresAssumption DEF ReportFiguresAssumption
<1>1. breakdown \in Breakdowns
    <2>1. \A k \in Components : 0 <= Limit(k)
        BY DEF Components, Limit
    <2> QED
        BY <2>1 DEF Init, Breakdowns
<1>2. NoInputs \in FinancialInputs
    BY DEF NoInputs, FinancialInputs
<1>3. inputs \in FinancialInputs
    BY <1>2 DEF Init
<1>4. NoMatch \in Corpus
    BY DEF NoMatch, Corpus
<1>5. similarities \in Corpus
    BY <1>4 DEF Init, Corpus
<1> QED
    BY <1>1, <1>3, <1>5 DEF IInv

\* A component is never given more points than it may have.
LEMMA StaysTyped == IInv /\ [Next]_vars => IInv'
<1> SUFFICES ASSUME IInv, [Next]_vars PROVE IInv'
    OBVIOUS
<1> USE DEF IInv
<1>1. ASSUME NEW k \in Components, MoreEvidence(k) PROVE IInv'
    <2>1. PICK x \in Steps[k] : breakdown' = [breakdown EXCEPT ![k] = x]
        BY <1>1 DEF MoreEvidence
    <2>2. x \in 0 .. Limit(k)
        BY <2>1, ReportFiguresAssumption DEF ReportFiguresAssumption
    <2>3. Limit(k) \in 0 .. 200
        BY DEF Components, Limit
    <2>4. breakdown' \in Breakdowns
        BY <2>1, <2>2, <2>3 DEF Breakdowns
    <2> QED
        BY <1>1, <2>4 DEF MoreEvidence
<1>2. CASE UNCHANGED vars
    BY <1>2 DEF vars
<1> QED
    BY <1>1, <1>2 DEF Next

\* The points of an assumption stay within the limits of the score
\* (EvidenceStrengthBreakdownLLM), and the figures are computed from inputs the schema admits.
THEOREM InputsAreAdmitted == Spec => []IInv
BY InitiallyTyped, StaysTyped, PTL DEF Spec

\* More evidence never makes the assessment of a supported assumption worse, in no step of
\* a behaviour (_assessment_from_evidence_score).
THEOREM SupportAlwaysGrows == Spec => SupportGrows
<1>1. IInv /\ IInv' /\ [Next]_vars => [MoreEvidenceNeverHurts(breakdown', breakdown)]_vars
    BY EvidenceIsMonotone DEF IInv
<1> QED
    BY <1>1, InitiallyTyped, StaysTyped, PTL DEF Spec, SupportGrows

\* Rounding lowers no assessment that the exact points warrant, and lifts one over a
\* threshold by 0.05 points at most (_calculate_evidence_strength_score).
THEOREM RoundingAlwaysStaysLocal == Spec => []RoundingStaysLocal
<1>1. IInv => RoundingStaysLocal
    BY RoundingIsHarmless DEF IInv, RoundingStaysLocal
<1> QED
    BY <1>1, InputsAreAdmitted, PTL

\* The break-even volume is the least one without a loss (calculate_stress_test).
THEOREM BreakEvenAlwaysCorrect == Spec => []BreakEvenCorrect
<1>1. IInv => BreakEvenCorrect
    BY BreakEvenIsAlwaysLeast DEF IInv, BreakEvenCorrect
<1> QED
    BY <1>1, InputsAreAdmitted, PTL

\* The warnings of a loss and of a short runway agree with the exact figures
\* (_build_warnings).
THEOREM WarningsAlwaysCorrect == Spec => []WarningsCorrect
<1>1. IInv => WarningsCorrect
    BY LossesAlwaysAgree, LowRunwayIsAlwaysExact, ReportFiguresAssumption
    DEF IInv, WarningsCorrect, ReportFiguresAssumption
<1> QED
    BY <1>1, InputsAreAdmitted, PTL

\* Figures that are rounded one by one, to cents and to doubles, do not contradict each
\* other beyond that rounding (_money_to_float, _finite_float).
THEOREM MoneyAlwaysCorrect == Spec => []MoneyCorrect
<1>1. IInv => MoneyCorrect
    BY MoneyAlwaysAgrees, ReportFiguresAssumption
    DEF IInv, MoneyCorrect, ReportFiguresAssumption
<1> QED
    BY <1>1, InputsAreAdmitted, PTL

\* The position against the IDX companies agrees with the percentages printed with it
\* (benchmark_against_idx, _format_percent).
THEOREM IdxAlwaysCorrect == Spec => []IdxCorrect
<1>1. IInv => IdxCorrect
    BY IdxAlwaysAgrees, ReportFiguresAssumption
    DEF IInv, IdxCorrect, ReportFiguresAssumption
<1> QED
    BY <1>1, InputsAreAdmitted, PTL

\* Failures and analogues are the best rows of the corpus, for every number of them
\* (historical_failures, company_analogues).
THEOREM RankingAlwaysCorrect == Spec => []RankingCorrect
<1>1. ASSUME IInv, NEW topK \in 1 .. MaxTopK
      PROVE  /\ CutBeforeFilter(similarities, topK)
             /\ LargerTopKExtends(similarities, topK)
             /\ BestAnalogues(similarities, topK)
    <2>1. topK \in Nat \ {0} /\ similarities \in Corpus
        BY <1>1, ReportFiguresAssumption DEF IInv, ReportFiguresAssumption
    <2> QED
        BY <2>1, CutIsHarmless, MoreOnlyExtends, AnaloguesAreBest, Zenon
<1>2. IInv => RankingCorrect
    BY <1>1, Zenon DEF RankingCorrect
<1> QED
    BY <1>2, InputsAreAdmitted, PTL
=============================================================================
