--------------------------- MODULE PhaseBRiskRules --------------------------
(***************************************************************************)
(* The persistent risk gate of backend/app/h11_auto/runtime_safety.py as   *)
(* functions on the stored PhaseBRiskState.  A JST day is a number and a   *)
(* month is DaysPerMonth consecutive days; None is the day and month of a  *)
(* state that was never rolled.  Amounts are units of loss.                *)
(***************************************************************************)
EXTENDS Integers, FiniteSets

CONSTANTS
    PerTradeLossBound, DailyLossLimit, MonthlyLossLimit,
    MaxConsecutiveLosses, MaxEntriesPerDay,
    DaysPerMonth

\* PhaseBRiskPolicy.__post_init__ refuses every other policy.
ASSUME RiskPolicyAssumption ==
    /\ {PerTradeLossBound, DailyLossLimit, MonthlyLossLimit, MaxConsecutiveLosses,
        MaxEntriesPerDay, DaysPerMonth} \subseteq Nat \ {0}
    /\ PerTradeLossBound <= DailyLossLimit
    /\ DailyLossLimit <= MonthlyLossLimit
    /\ MaxEntriesPerDay <= 30

None == -1

StopState == {"ACTIVE", "STOPPED_DAILY_BUDGET", "STOPPED_MONTHLY_BUDGET",
              "STOPPED_CONSECUTIVE_LOSSES", "KILLED"}

RiskState ==
    [stop : StopState, day : Nat \cup {None}, month : Nat \cup {None},
     daily : Nat, monthly : Nat, losses : Nat, entries : Nat]

InitialRisk ==
    [stop |-> "ACTIVE", day |-> None, month |-> None,
     daily |-> 0, monthly |-> 0, losses |-> 0, entries |-> 0]

Month(d) == d \div DaysPerMonth

\* The new day clears the day's counters and a daily stop; the new month
\* clears the month's losses unless another stop is latched.
RollDayLifts(s, d) ==
    IF s.day = d THEN s
    ELSE [s EXCEPT !.day = d, !.daily = 0, !.entries = 0,
                   !.stop = IF @ # "KILLED" THEN "ACTIVE" ELSE @]
RollDay(s, d) ==
    IF s.day = d THEN s
    ELSE [s EXCEPT !.day = d, !.daily = 0, !.entries = 0,
                   !.stop = IF @ = "STOPPED_DAILY_BUDGET" THEN "ACTIVE" ELSE @]

RollMonth(s, d) ==
    IF s.month = Month(d) THEN s
    ELSE [s EXCEPT !.month = Month(d),
                   !.monthly = IF s.stop = "ACTIVE" THEN 0 ELSE @]

RollCalendar(s, d) == RollMonth(RollDay(s, d), d)

\* evaluate_risk_before_entry on a state that is already rolled.
GateAllowsByCount(s) == s.stop # "KILLED" /\ s.entries < MaxEntriesPerDay
GateAllows(s) ==
    /\ s.stop = "ACTIVE"
    /\ s.entries < MaxEntriesPerDay
    /\ s.daily < DailyLossLimit
    /\ s.monthly < MonthlyLossLimit
    /\ s.losses < MaxConsecutiveLosses

\* record_risk_entry_attempt
RecordEntry(s, d) == [RollCalendar(s, d) EXCEPT !.entries = @ + 1]

=============================================================================
