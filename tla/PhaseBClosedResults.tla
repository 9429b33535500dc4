------------------------ MODULE PhaseBClosedResults -------------------------
(***************************************************************************)
(* What a closed position does to the stored risk state:                   *)
(* record_closed_result and record_closed_result_once of                   *)
(* backend/app/h11_auto/runtime_safety.py.  A result is its loss, 0 for a  *)
(* win.                                                                    *)
(***************************************************************************)
EXTENDS PhaseBRiskRules

\* Every loss within the bound of one trade counts, a win ends the streak.
BookLoss(s, loss) ==
    IF loss > 0
    THEN [s EXCEPT !.daily = @ + loss, !.monthly = @ + loss, !.losses = @ + 1]
    ELSE [s EXCEPT !.losses = 0]

\* The limits in the order in which they are looked at.
StopAtPastLimit(s) ==
    IF s.losses > MaxConsecutiveLosses THEN "STOPPED_CONSECUTIVE_LOSSES"
    ELSE IF s.monthly > MonthlyLossLimit THEN "STOPPED_MONTHLY_BUDGET"
    ELSE IF s.daily > DailyLossLimit THEN "STOPPED_DAILY_BUDGET" ELSE s.stop
StopAtLimit(s) ==
    IF s.losses >= MaxConsecutiveLosses THEN "STOPPED_CONSECUTIVE_LOSSES"
    ELSE IF s.monthly >= MonthlyLossLimit THEN "STOPPED_MONTHLY_BUDGET"
    ELSE IF s.daily >= DailyLossLimit THEN "STOPPED_DAILY_BUDGET" ELSE s.stop

\* existing_stop is read before the calendar is rolled: a daily stop that the
\* roll lifts still keeps this result from latching a new stop.
RecordClosed(s, d, loss) ==
    LET rolled == RollCalendar(s, d)
        booked == BookLoss(rolled, loss)
    IN  IF loss > PerTradeLossBound THEN [rolled EXCEPT !.stop = "KILLED"]
        ELSE IF s.stop # "ACTIVE" THEN booked
        ELSE [booked EXCEPT !.stop = StopAtLimit(booked)]

=============================================================================
