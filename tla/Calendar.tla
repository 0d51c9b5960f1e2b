------------------------------ MODULE Calendar ------------------------------
(***************************************************************************)
(* Days, and the periods an analysis cuts them into (analytics/periods.py), *)
(* with the reading of a date cell (ingestion/base.py).                    *)
(*                                                                         *)
(* A day is an integer, day 0 being Monday 1 January 2024; the calendar    *)
(* runs from January 2022 to December 2024.  A date cell is a token:       *)
(*   [form |-> "iso",   day |-> d]           an ISO date, read as it stands *)
(*   [form |-> "slash", first, second]       a slash date of 2024           *)
(*   [form |-> "none"]                       an empty or unreadable cell    *)
(* The instant of an order is kept as its UTC day: the windows are cut at   *)
(* midnight, so the hour never decides.                                    *)
(***************************************************************************)
EXTENDS Integers, Sequences, FiniteSets, SequencesExt, FiniteSetsExt, Functions

DAY_FIRST == "day_first"
MONTH_FIRST == "month_first"
REJECT_SLASH_DATES == "reject_slash_dates"

\* The first day of each month of 2022, 2023 and 2024, and of January 2025.
MonthStarts ==
    << -730, -699, -671, -640, -610, -579, -549, -518, -487, -457, -426, -396,
       -365, -334, -306, -275, -245, -214, -184, -153, -122, -92, -61, -31,
       0, 31, 60, 91, 121, 152, 182, 213, 244, 274, 305, 335, 366 >>

MonthOf(day) == CHOOSE m \in 1..36 : MonthStarts[m] <= day /\ day < MonthStarts[m + 1]

\* Has the month m of 2024 a day d, and which day is it: datetime() raises otherwise.
IsDate(d, m) == m \in 1..12 /\ d \in 1..(MonthStarts[m + 25] - MonthStarts[m + 24])
DayOf(d, m) == MonthStarts[m + 24] + d - 1

-----------------------------------------------------------------------------
(* The cells of one date column.                                           *)

\* What one cell says of the order of day and month.
SlashDateOrder(cell) ==
    CASE cell.form # "slash" -> "silent"
      [] cell.form = "slash" /\ cell.first > 12 /\ cell.second > 12 -> "invalid"
      [] cell.form = "slash" /\ cell.first > 12 /\ cell.second <= 12 -> DAY_FIRST
      [] cell.form = "slash" /\ cell.first <= 12 /\ cell.second > 12 -> MONTH_FIRST
      [] OTHER -> "ambiguous"

\* Mutant: the first discriminating cell settles the column, whatever the others say.
DetectDateOrderFaulty(column) ==
    LET said == { SlashDateOrder(column[i]) : i \in DOMAIN column }
    IN  IF DAY_FIRST \in said THEN DAY_FIRST
        ELSE IF MONTH_FIRST \in said THEN MONTH_FIRST ELSE "none"

\* One convention per file: what its discriminating cells say, when they agree.
DetectDateOrder(column) ==
    LET said == { SlashDateOrder(column[i]) : i \in DOMAIN column }
    IN  CASE {DAY_FIRST, MONTH_FIRST} \subseteq said -> REJECT_SLASH_DATES
          [] DAY_FIRST \in said /\ MONTH_FIRST \notin said -> DAY_FIRST
          [] MONTH_FIRST \in said /\ DAY_FIRST \notin said -> MONTH_FIRST
          [] OTHER -> "none"

\* What resolve_date_order() leaves in the quality report.
DateOrderIssues(column) ==
    LET said == { SlashDateOrder(column[i]) : i \in DOMAIN column }
        order == DetectDateOrder(column)
    IN  CASE order = REJECT_SLASH_DATES -> {"date_order_conflict"}
          [] order = "none" /\ "ambiguous" \in said -> {"ambiguous_date_order"}
          [] order \in {DAY_FIRST, MONTH_FIRST} /\ "ambiguous" \in said -> {"date_order_inferred"}
          [] OTHER -> {}

\* The days a cell may stand for under a convention: none, or one.  A slash date
\* that says its own order must not contradict the convention of its file.
ReadDate(cell, order) ==
    LET own == SlashDateOrder(cell)
        used == IF own = "ambiguous" THEN order ELSE own
        d == IF used = DAY_FIRST THEN cell.first ELSE cell.second
        m == IF used = DAY_FIRST THEN cell.second ELSE cell.first
    IN  IF cell.form = "iso" THEN {cell.day}
        ELSE IF /\ cell.form = "slash"
                /\ order # REJECT_SLASH_DATES
                /\ used \in {DAY_FIRST, MONTH_FIRST}
                /\ own \in {"ambiguous", order} \/ order = "none"
                /\ IsDate(d, m)
             THEN {DayOf(d, m)}
             ELSE {}

-----------------------------------------------------------------------------
(* Periods: [start, end), end excluded.                                    *)

MakePeriod(day, grain) ==
    IF grain = "week"
    THEN [grain |-> grain, start |-> day - (day % 7), end |-> day - (day % 7) + 7]
    ELSE [grain |-> grain, start |-> MonthStarts[MonthOf(day)], end |-> MonthStarts[MonthOf(day) + 1]]

PreviousPeriod(period) == MakePeriod(period.start - 1, period.grain)

\* The last period of the data that is over, seen from the reference day (the last
\* day of the data when none is given).
LastCompletePeriod(latest, reference, grain) ==
    LET candidate == MakePeriod(latest, grain)
    IN  IF candidate.end - 1 > reference \/ candidate.end - 1 > latest
        THEN PreviousPeriod(candidate) ELSE candidate

YearOverYearPeriod(period) ==
    IF period.grain = "week"
    THEN MakePeriod(period.start - 364, "week")
    ELSE MakePeriod(MonthStarts[MonthOf(period.start) - 12], "month")

\* count consecutive periods, the latest last.
PeriodSeries(latest, count) ==
    LET back[k \in 0..(count - 1)] == IF k = 0 THEN latest ELSE PreviousPeriod(back[k - 1])
    IN  [ i \in 1..count |-> back[count - i] ]

\* Mutant: a period keeps the first instant of the next one.
InPeriodFaulty(day, period) == period.start <= day /\ day <= period.end

\* Dataset.window(): what falls within a period.
InPeriod(day, period) == period.start <= day /\ day < period.end
=============================================================================
