-------------------------------- MODULE Doubles --------------------------------
(***************************************************************************)
(* float(...) of a decimal, rounded to the nearest double, and ties to the *)
(* even one.  A decimal is given as a multiple of a fraction of its last   *)
(* place, so that the doubles around it are integers too: "unit" is the    *)
(* least spacing of doubles that exceeds the last place.                   *)
(*                                                                         *)
(* Where doubles are closer than the last place, each decimal has one of   *)
(* its own, and the figure printed for it is the decimal again.            *)
(***************************************************************************)
EXTENDS Integers

CONSTANTS
    Significand, \* the least significand of a double, 2^52
    Spacings     \* the powers of two, as far as they are needed

ASSUME DoublesAssumption ==
    /\ Significand \in Nat \ {0}
    /\ Spacings \subseteq Nat \ {0} /\ 1 \in Spacings
    /\ \A g, h \in Spacings : g <= h => h % g = 0

Abs(x) == IF x < 0 THEN -x ELSE x

\* a / b rounded to an integer, halves to the even one, for b > 0.
HalfEven(a, b) ==
    LET q == a \div b
        r == a % b
    IN  IF 2 * r > b \/ (2 * r = b /\ q % 2 = 1) THEN q + 1 ELSE q

\* Below this no figure changes.
ExactBelow(unit) == unit * Significand

\* How far doubles are apart at x, in units.
Spacing(x, unit) ==
    CHOOSE g \in Spacings :
        /\ ExactBelow(unit) * g <= x
        /\ \A h \in Spacings : h > g => x < ExactBelow(unit) * h

Magnitude(x, unit) ==
    IF x < ExactBelow(unit) THEN x
    ELSE LET step == unit * Spacing(x, unit) IN step * HalfEven(x, step)

Double(x, unit) == IF x < 0 THEN -Magnitude(-x, unit) ELSE Magnitude(x, unit)

\* The figure as far as it may be off.
Inexact(figure, unit) == IF Abs(figure) < ExactBelow(unit) THEN 0 ELSE Abs(figure)
=============================================================================
