------------------------- MODULE FinancialStressTest -------------------------
(***************************************************************************)
(* The financial stress test.  Money is in units of 0.0001, the precision  *)
(* the request schema admits, so the Decimal arithmetic is exact in the    *)
(* integers; quotients are rounded where the code rounds them.  Figures    *)
(* leave the program as doubles: of money in sixteenths of a cent, where   *)
(* the first spacing above a cent is 25 (2^-6), of percentages and months  *)
(* in 512ths of 0.0001, where it is 625 (2^-13).                           *)
(***************************************************************************)
EXTENDS Doubles, Sequences

Null == -1

\* FinancialInputs: the schema admits no negative number.  Below its upper bounds the 50
\* digits of the Decimal context are more than an amount has, so they round no amount.
FinancialInputs ==
    [orders : Nat, revenue : Nat, variable : Nat, promo : Nat, delivery : Nat,
     fixed : Nat, driver : Nat, cash : Nat]

\* a / b rounded to an integer with ROUND_HALF_UP, for a >= 0 and b > 0.
HalfUp(a, b) == (a + (b \div 2)) \div b

\* Slip: the quotient is rounded down.
FloorOf(a, b) == a \div b

\* Slip: halves go up, not away from zero.
HalfCeiling(a, b) == (a + (b \div 2)) \div b

\* ROUND_HALF_UP for every a: halves go away from zero.
Rounded(a, b) == IF a < 0 THEN -HalfUp(-a, b) ELSE HalfUp(a, b)

Ceiling(a, b) == IF a % b = 0 THEN a \div b ELSE (a \div b) + 1

NetRevenue(in) == in.revenue - in.promo
MarginPerOrder(in) == in.revenue - in.variable - in.promo - in.delivery
Fixed(in) == in.fixed + in.driver
OperatingProfit(in) == MarginPerOrder(in) * in.orders - Fixed(in)
MonthlyBurn(in) == IF OperatingProfit(in) < 0 THEN -OperatingProfit(in) ELSE 0

BreakEvenOrders(in) ==
    IF MarginPerOrder(in) > 0 THEN Ceiling(Fixed(in), MarginPerOrder(in)) ELSE Null

\* The runway, in units of 0.0001 months.
RunwayMonths(in) ==
    IF MonthlyBurn(in) > 0 THEN HalfUp(in.cash * 10000, MonthlyBurn(in)) ELSE Null

\* An amount in cents, and as it is reported (_money_to_float).
Cents(amount) == Rounded(amount, 100)
MoneyFloat(amount) == Double(16 * Cents(amount), 25)

\* A number of 0.0001s as it is reported (_percentage_to_float).
PercentageFloat(n) == Double(512 * n, 625)

\* A percentage, in units of 0.0001 percent: part * 10^6 / whole, divided in two
\* steps because the integers of TLC have 32 bits.
Percent(part, whole) ==
    LET magnitude(a) ==
            ((a * 1000) \div whole) * 1000 + HalfUp(((a * 1000) % whole) * 1000, whole)
    IN  IF part < 0 THEN -magnitude(-part) ELSE magnitude(part)

MarginPercent(in) == IF in.revenue > 0 THEN Percent(MarginPerOrder(in), in.revenue) ELSE 0

ApiResult(in) ==
    [contribution_margin |-> MoneyFloat(MarginPerOrder(in) * in.orders),
     contribution_margin_pct |-> PercentageFloat(MarginPercent(in)),
     operating_profit |-> MoneyFloat(OperatingProfit(in)),
     monthly_burn |-> MoneyFloat(MonthlyBurn(in)),
     runway_months |->
        IF RunwayMonths(in) = Null THEN Null ELSE PercentageFloat(RunwayMonths(in)),
     break_even_orders |-> BreakEvenOrders(in)]

\* Slip: the rounded runway is compared.
LowRunwayRounded(in, low) ==
    MonthlyBurn(in) > 0 /\ RunwayMonths(in) < low * 10000

\* cash_balance / monthly_burn < low_runway_months, before any rounding.
LowRunway(in, low) == MonthlyBurn(in) > 0 /\ in.cash < low * MonthlyBurn(in)

NegativeProfit(in) == OperatingProfit(in) < 0

Warnings(in, low) ==
    {w \in {"NON_POSITIVE_NET_REVENUE", "NEGATIVE_CONTRIBUTION_MARGIN",
            "NEGATIVE_OPERATING_PROFIT", "LOW_RUNWAY", "BREAK_EVEN_UNREACHABLE"} :
        \/ w = "NON_POSITIVE_NET_REVENUE" /\ NetRevenue(in) <= 0
        \/ w = "NEGATIVE_CONTRIBUTION_MARGIN" /\ MarginPerOrder(in) < 0
        \/ w = "NEGATIVE_OPERATING_PROFIT" /\ NegativeProfit(in)
        \/ w = "LOW_RUNWAY" /\ LowRunway(in, low)
        \/ w = "BREAK_EVEN_UNREACHABLE" /\ BreakEvenOrders(in) = Null}

-----------------------------------------------------------------------------
\* A row of the IDX table has its quartiles in units of 0.0001 and the size of its sample;
\* "finite" says whether the four texts are numbers.
IdxRow == [finite : BOOLEAN, p25 : Int, median : Int, p75 : Int, count : Int]

Usable(row) ==
    row.finite /\ row.count > 0 /\ row.p25 <= row.median /\ row.median <= row.p75

\* Slip: the margin is compared as a share of the net revenue.
PositionInNetRevenue(in, row) ==
    IF 10000 * MarginPerOrder(in) < row.p25 * NetRevenue(in) THEN "BelowBenchmark"
    ELSE IF 10000 * MarginPerOrder(in) <= row.p75 * NetRevenue(in) THEN "AtBenchmark"
    ELSE "AboveBenchmark"

\* The exact ratio decides, not the reported percentage.
Position(in, row) ==
    IF 10000 * MarginPerOrder(in) < row.p25 * in.revenue THEN "BelowBenchmark"
    ELSE IF 10000 * MarginPerOrder(in) <= row.p75 * in.revenue THEN "AtBenchmark"
    ELSE "AboveBenchmark"

\* The four places printed of a percentage (_format_percent), in units of 0.0001.
Places(figure) == IF figure < 0 THEN -HalfEven(-figure, 512) ELSE HalfEven(figure, 512)
FormatPercent(part, whole) == Places(PercentageFloat(Percent(part, whole)))

\* benchmark_against_idx, with the rows of the table whose ratio is gross_margin.
IdxBenchmarks(in, rows) ==
    IF in.revenue > 0 /\ Len(rows) = 1 /\ Usable(rows[1])
    THEN {[value |-> FormatPercent(MarginPerOrder(in), in.revenue),
           p25 |-> FormatPercent(rows[1].p25, 10000),
           p75 |-> FormatPercent(rows[1].p75, 10000),
           status |-> Position(in, rows[1])]}
    ELSE {}
-----------------------------------------------------------------------------
\* The reported break-even volume is the least number of orders that covers the fixed and
\* the driver cost: one order less makes a loss, so does every volume if there is none.
BreakEvenIsLeast(in) ==
    LET k == BreakEvenOrders(in)
        profit(orders) == OperatingProfit([in EXCEPT !.orders = orders])
    IN  IF k = Null
        THEN \A orders \in 0 .. in.orders : profit(orders) <= 0
        ELSE profit(k) >= 0 /\ (k > 0 => profit(k - 1) < 0)

\* The two warnings agree with the reported volumes: a loss is reported exactly below the
\* break-even volume, or with a volume that cannot break even although costs arise.
LossesAgree(in, low) ==
    "NEGATIVE_OPERATING_PROFIT" \in Warnings(in, low) <=>
        IF "BREAK_EVEN_UNREACHABLE" \in Warnings(in, low)
        THEN Fixed(in) > 0 \/ MarginPerOrder(in) * in.orders < 0
        ELSE in.orders < BreakEvenOrders(in)

\* LOW_RUNWAY is given exactly when the cash does not last for the threshold at the monthly
\* burn, also where the reported runway is rounded up to the threshold.
LowRunwayIsExact(in, low) ==
    "LOW_RUNWAY" \in Warnings(in, low) <=>
        in.cash + low * (OperatingProfit(in)) < 0

\* The reported figures agree although each is rounded to cents and to a double on its own:
\* the burn is the reported loss, a loss that is reported as 0.00 is below half a cent, a
\* runway comes with every loss, and the margin is never reported below the profit.  They
\* differ by the costs up to a cent, and up to the rounding of two doubles beyond that where
\* cents are no longer exact (from 2^46 on).
MoneyAgrees(in, low) ==
    LET api == ApiResult(in)
        loss == "NEGATIVE_OPERATING_PROFIT" \in Warnings(in, low)
        gap == api.contribution_margin - api.operating_profit - 16 * Cents(Fixed(in))
    IN  /\ api.monthly_burn = IF api.operating_profit < 0 THEN -api.operating_profit ELSE 0
        /\ loss /\ api.monthly_burn = 0 => MonthlyBurn(in) < 50
        /\ loss <=> api.runway_months # Null
        /\ api.contribution_margin >= api.operating_profit
        /\ 2 * Significand * (Abs(gap) - 16) <=
              Inexact(api.contribution_margin, 25) + Inexact(api.operating_profit, 25)

\* The position is decided on the exact ratio; the percentages printed beside it, of which
\* the value is that of the figures, never tell the opposite, and a margin below zero is
\* below every quartile that is not.
IdxAgrees(in, rows) ==
    \A b \in IdxBenchmarks(in, rows) :
        /\ b.value = Places(ApiResult(in).contribution_margin_pct)
        /\ CASE b.status = "BelowBenchmark" -> b.value <= b.p25
             [] b.status = "AtBenchmark" -> b.p25 <= b.value /\ b.value <= b.p75
             [] b.status = "AboveBenchmark" -> b.value >= b.p75
        /\ "NEGATIVE_CONTRIBUTION_MARGIN" \in Warnings(in, 0) /\ rows[1].p25 >= 0 =>
               b.status = "BelowBenchmark"
=============================================================================
