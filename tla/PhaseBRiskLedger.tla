-------------------------- MODULE PhaseBRiskLedger --------------------------
(***************************************************************************)
(* The life of one risk file (backend/app/h11_auto/runtime_safety.py) under *)
(* its callers: an entry passes the gate and is counted, one position at a *)
(* time is closed on the same or a later day, its result is applied once   *)
(* per cycle however often it is offered, and the operator may kill the    *)
(* system at any time.  JST days pass; the calendar in the file is rolled  *)
(* only when the file is used.                                             *)
(***************************************************************************)
EXTENDS PhaseBClosedResults

CONSTANTS
    Trade,      \* the cycles, by their references
    NoTrade,    \* no position is open
    MaxDay      \* bound on the days

ASSUME LedgerAssumption == NoTrade \notin Trade /\ MaxDay \in Nat

VARIABLES
    risk,       \* the stored PhaseBRiskState
    closed,     \* its closed_result_cycle_refs
    open,       \* the cycle whose position is open
    today,      \* the JST day
    lost,       \* history: what was really lost today, in trades within bound
    entered     \* history: entries really made today

ledgerVars == <<risk, closed, open, today, lost, entered>>

LedgerInit ==
    /\ risk = InitialRisk
    /\ closed = {}
    /\ open = NoTrade
    /\ today = 0
    /\ lost = 0
    /\ entered = 0

\* evaluate_risk_before_entry, record_risk_entry_attempt, save.
Enter(t) ==
    /\ open = NoTrade
    /\ t \notin closed
    /\ GateAllows(RollCalendar(risk, today))
    /\ risk' = RecordEntry(risk, today)
    /\ open' = t
    /\ entered' = entered + 1
    /\ UNCHANGED <<closed, today, lost>>

\* load, record_closed_result_once, save.  The result may be offered again
\* after it was applied, by a caller that does not know whether it was.
ApplyAgain(t, loss) == RecordClosed(risk, today, loss)
ApplyOnce(t, loss) == IF t \in closed THEN risk ELSE RecordClosed(risk, today, loss)

Close(t, loss) ==
    /\ t \in closed \cup {open}
    /\ risk' = ApplyOnce(t, loss)
    /\ closed' = closed \cup {t}
    /\ open' = IF t = open THEN NoTrade ELSE open
    /\ lost' = IF t = open /\ loss <= PerTradeLossBound THEN lost + loss ELSE lost
    /\ UNCHANGED <<today, entered>>

\* engage_risk_kill
Kill ==
    /\ risk' = [risk EXCEPT !.stop = "KILLED"]
    /\ UNCHANGED <<closed, open, today, lost, entered>>

NextDay ==
    /\ today < MaxDay
    /\ today' = today + 1
    /\ lost' = 0
    /\ entered' = 0
    /\ UNCHANGED <<risk, closed, open>>

LedgerNext ==
    \/ \E t \in Trade : Enter(t)
    \/ \E t \in Trade, loss \in 0..(PerTradeLossBound + 1) : Close(t, loss)
    \/ Kill
    \/ NextDay

LedgerSpec == LedgerInit /\ [][LedgerNext]_ledgerVars

(***************************************************************************)
(* What is promised.                                                       *)
(***************************************************************************)

\* The type of every variable.
LedgerTypeOK ==
    /\ risk \in RiskState
    /\ closed \subseteq Trade
    /\ open \in Trade \cup {NoTrade}
    /\ today \in Nat
    /\ lost \in Nat
    /\ entered \in Nat

\* A limit that is reached is latched as a stop by the result that reaches
\* it: with one position at a time the stop read before the calendar roll is
\* never a daily stop that the roll lifts, so no result is let through
\* (record_closed_result returns early under an existing stop).
LimitLatchesStop ==
    risk.stop = "ACTIVE" =>
        /\ risk.losses < MaxConsecutiveLosses
        /\ risk.monthly < MonthlyLossLimit
        /\ risk.daily < DailyLossLimit

\* A day's losses never pass its limit by more than the bound of one trade,
\* and neither do a month's: whatever is offered twice, whichever day a
\* position is closed on.
LossesBounded ==
    /\ risk.daily < DailyLossLimit + PerTradeLossBound
    /\ risk.monthly < MonthlyLossLimit + PerTradeLossBound

\* The counters of the file, once rolled to today, are today's real losses
\* and entries: no result is booked twice or on two days.
BooksAreReal ==
    /\ risk.day = today => risk.daily = lost /\ risk.entries = entered
    /\ risk.day # today => lost = 0 /\ entered = 0

\* Only a daily stop ends by itself; the other stops and a kill are final,
\* through every roll of the day and of the month.
StopIsFinal ==
    [][risk.stop \notin {"ACTIVE", "STOPPED_DAILY_BUDGET"}
          => risk'.stop \notin {"ACTIVE", "STOPPED_DAILY_BUDGET"}]_ledgerVars

=============================================================================
