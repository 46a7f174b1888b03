----------------------------- MODULE MCAggregation -----------------------------
(***************************************************************************)
(* Aggregation for TLC: days of five hours and weeks of two days, one hour *)
(* behind UTC.  On the second day the clocks leave out the third hour, on  *)
(* the fourth they go through the second hour twice.  The cadences are     *)
(* those of pipeline.json: 0 0 * * 1, 0 1 * * * and 0 2 * * 1.             *)
(***************************************************************************)
EXTENDS Aggregation, TLC

MCOffset == [t \in Time |-> IF t \in 8..16 THEN 0 ELSE -1]

MCCron ==
    "week"   :> [hour |-> {0}, dom |-> Star, dow |-> {0}] @@
    "day"    :> [hour |-> {1}, dom |-> Star, dow |-> Star] @@
    "report" :> [hour |-> {2}, dom |-> Star, dow |-> {0}]

\* They keep up with the days and weeks of UTC, also where the clocks change.
ASSUME CadencesKeepUp == SumsKeepUp /\ ReportKeepsUp

\* The first and the last hour of a day, which is also that of a week, and the
\* first of the next.
MCEnds == {5, 9, 10}

\* Properties are invariants: sweepers are alike, and runs.
MCSymmetry == Permutations(Sweepers) \cup Permutations(Runs)
===============================================================================
