------------------------------- MODULE ResultsMC -------------------------------
(***************************************************************************)
(* Small instances for TLC of what a client reads: the figures of a report *)
(* and the pages of the history.  They do not depend on each other, so a   *)
(* behaviour varies one of them and keeps the other.                       *)
(*                                                                         *)
(* The grids of the figures: the values are chosen around the thresholds (4.95 and   *)
(* 7.95 points, 1.5 points), around a runway of six months, exact and      *)
(* rounded, and around 0.38 and 0.7 of the best similarity, with ties.     *)
(* Doubles of 17 bits stop telling cents apart at 1024.00, and 0.0001      *)
(* percent at 8 percent.                                                   *)
(***************************************************************************)
EXTENDS ReportFigures, History

GridSteps ==
    [k \in Components |->
        CASE k = "directness" -> {100, 195, 200}
          [] k \in {"decision_specificity", "observed_evidence"} -> {149, 150, 200}
          [] k = "comparability" -> {150}
          [] k = "coverage" -> {145, 150}
          [] k = "source_quality" -> {95, 100}]

\* A cash balance is given with no burn below 0.03 only: a longer runway exceeds the
\* integers of TLC.
GridInputs == {in \in
    [orders : {0, 1, 3, 1000}, revenue : {0, 30000, 30001}, variable : {0, 30000},
     promo : {0, 10000, 30001}, delivery : {0, 9999}, fixed : {0, 20000, 50000},
     driver : {0, 1, 50}, cash : {0, 119999, 120000}] :
    in.cash = 0 \/ MonthlyBurn(in) \notin 1 .. 299}

\* Tables of the IDX ratios: without a row, with two, with rows that are not used, and with
\* quartiles at a ratio of the grid, at its rounding, at zero and below.
Row(p25, median, p75, count) ==
    [finite |-> TRUE, p25 |-> p25, median |-> median, p75 |-> p75, count |-> count]
GridTables ==
    {<<>>, <<Row(0, 0, 0, 1), Row(0, 0, 0, 1)>>,
     <<[Row(0, 0, 0, 1) EXCEPT !.finite = FALSE]>>, <<Row(0, 0, 0, 0)>>, <<Row(2, 1, 3, 1)>>,
     <<Row(-3333, 0, 3334, 7)>>, <<Row(3334, 6666, 6667, 7)>>, <<Row(0, 0, 0, 7)>>,
     <<Row(6667, 7000, 10000, 7)>>}

\* 0.7 * 0.80 is 0.56; 0.7 * 0.38 is below 0.38.
GridCorpora == [1 .. 4 -> {-60, 0, 37, 38, 55, 56, 80}]

\* Database sessions west of UTC, at UTC and east of it.
SessionZones == {-1, 0, 1}
-----------------------------------------------------------------------------
NoFigures ==
    /\ breakdown = [k \in Components |-> 0]
    /\ inputs = NoInputs /\ similarities = NoMatch

NoHistory == now = 0 /\ Rows = {} /\ pages = 0

ResultsInit ==
    /\ Init /\ HistoryInit
    /\ zone # 0 => NoFigures

ResultsNext ==
    \/ Next /\ NoHistory /\ zone = 0 /\ UNCHANGED historyVars
    \/ HistoryNext /\ NoFigures /\ UNCHANGED vars

ResultsSpec == ResultsInit /\ [][ResultsNext]_<<vars, historyVars>>
=============================================================================
