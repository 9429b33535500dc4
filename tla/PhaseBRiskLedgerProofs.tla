----------------------- MODULE PhaseBRiskLedgerProofs -----------------------
(***************************************************************************)
(* The life of a risk file keeps its promises for every policy that        *)
(* PhaseBRiskPolicy accepts, any number of cycles and any run of days.     *)
(*                                                                         *)
(* None of the promises is inductive alone.  LedgerInv adds what a result  *)
(* rests on: the position it closes passed the gate, so its limits were    *)
(* open then and nothing but a kill can have touched the stop since        *)
(* (OpenPassedGate); and the file's day is never ahead of the calendar.    *)
(***************************************************************************)
EXTENDS PhaseBRiskLedger, PhaseBRiskRulesProofs

OpenPassedGate ==
    open # NoTrade =>
        /\ open \notin closed
        /\ risk.stop \in {"ACTIVE", "KILLED"}
        /\ risk.daily < DailyLossLimit
        /\ risk.monthly < MonthlyLossLimit
        /\ risk.losses < MaxConsecutiveLosses

LedgerInv ==
    /\ LedgerTypeOK
    /\ LimitLatchesStop
    /\ LossesBounded
    /\ BooksAreReal
    /\ OpenPassedGate
    /\ risk.day <= today

(***************************************************************************)
(* Every step keeps the invariant.                                         *)
(***************************************************************************)

LEMMA InitKeepsLedger ==
    LedgerInit => LedgerInv
<1> SUFFICES ASSUME LedgerInit PROVE LedgerInv
  OBVIOUS
<1>1. LedgerTypeOK
  BY DEF LedgerInit, LedgerTypeOK, InitialRisk, RiskState, StopState, None
<1>2. /\ LimitLatchesStop /\ LossesBounded /\ BooksAreReal /\ OpenPassedGate
      /\ risk.day <= today
  BY PolicyFacts DEF LedgerInit, LimitLatchesStop, LossesBounded, BooksAreReal,
     OpenPassedGate, InitialRisk, None
<1>3. QED
  BY <1>1, <1>2 DEF LedgerInv

\* An entry passes the gate on the rolled state, which is what it stores.
LEMMA EnterKeepsLedger ==
    ASSUME LedgerInv, NEW t \in Trade, Enter(t)
    PROVE  LedgerInv'
<1> DEFINE r == RollCalendar(risk, today)
<1>1. risk \in RiskState /\ today \in Nat /\ lost \in Nat /\ entered \in Nat
  BY DEF LedgerInv, LedgerTypeOK
<1>2. /\ r \in RiskState
      /\ r.day = today
      /\ r.daily = IF risk.day = today THEN risk.daily ELSE 0
      /\ r.entries = IF risk.day = today THEN risk.entries ELSE 0
  BY <1>1, RollFacts
<1>3. GateAllows(r) /\ risk' = [r EXCEPT !.entries = @ + 1]
  BY DEF Enter, RecordEntry
<1> HIDE DEF r
<1>4. /\ risk' \in RiskState
      /\ risk'.day = today
      /\ risk'.daily = r.daily
      /\ risk'.monthly = r.monthly
      /\ risk'.losses = r.losses
      /\ risk'.stop = "ACTIVE"
      /\ risk'.entries = r.entries + 1
      /\ risk'.losses < MaxConsecutiveLosses
      /\ risk'.monthly < MonthlyLossLimit
      /\ risk'.daily < DailyLossLimit
      /\ risk'.daily \in Nat /\ risk'.monthly \in Nat
  BY <1>2, <1>3, PolicyFacts DEF GateAllows, RiskState
<1>5. /\ open' = t /\ t \notin closed /\ closed' = closed /\ today' = today
      /\ lost' = lost /\ entered' = entered + 1
  BY DEF Enter
<1>6. LedgerTypeOK'
  BY <1>1, <1>4, <1>5 DEF LedgerInv, LedgerTypeOK
<1>7. LimitLatchesStop' /\ OpenPassedGate'
  BY <1>4, <1>5 DEF LimitLatchesStop, OpenPassedGate
<1>8. LossesBounded'
  BY <1>4, PolicyFacts DEF LossesBounded
<1>9. BooksAreReal'
  BY <1>1, <1>2, <1>4, <1>5 DEF LedgerInv, BooksAreReal
<1>10. QED
  BY <1>1, <1>4, <1>5, <1>6, <1>7, <1>8, <1>9 DEF LedgerInv

\* The first result of a cycle closes a position that passed the gate; the
\* same result again changes nothing.
LEMMA CloseKeepsLedger ==
    ASSUME LedgerInv, NEW t \in Trade, NEW loss \in Nat, Close(t, loss)
    PROVE  LedgerInv'
<1>1. /\ risk \in RiskState /\ today \in Nat /\ lost \in Nat /\ entered \in Nat
      /\ closed \subseteq Trade /\ open \in Trade \cup {NoTrade}
      /\ NoTrade \notin Trade
  BY LedgerAssumption DEF LedgerInv, LedgerTypeOK
<1>2. /\ risk' = ApplyOnce(t, loss)
      /\ closed' = closed \cup {t}
      /\ open' = IF t = open THEN NoTrade ELSE open
      /\ lost' = IF t = open /\ loss <= PerTradeLossBound THEN lost + loss ELSE lost
      /\ today' = today /\ entered' = entered
  BY DEF Close
<1>3. CASE t \in closed
  <2>1. risk' = risk /\ closed' = closed
    BY <1>1, <1>2, <1>3 DEF ApplyOnce
  <2>2. t # open
    BY <1>1, <1>3 DEF LedgerInv, OpenPassedGate
  <2>3. open' = open /\ lost' = lost
    BY <1>2, <2>2
  <2>4. QED
    BY <1>2, <2>1, <2>3 DEF LedgerInv, LedgerTypeOK, LimitLatchesStop, LossesBounded,
       BooksAreReal, OpenPassedGate
<1>4. CASE t \notin closed
  <2>1. t = open /\ open # NoTrade
    BY <1>1, <1>4 DEF Close
  <2>2. risk' = RecordClosed(risk, today, loss)
    BY <1>2, <1>4 DEF ApplyOnce
  <2>3. /\ risk.stop \in {"ACTIVE", "KILLED"}
        /\ risk.daily < DailyLossLimit
        /\ risk.monthly < MonthlyLossLimit
        /\ risk.losses < MaxConsecutiveLosses
    BY <2>1 DEF LedgerInv, OpenPassedGate
  <2>4. /\ risk' \in RiskState
        /\ risk'.day = today
        /\ risk'.daily = (IF loss <= PerTradeLossBound
                          THEN (IF risk.day = today THEN risk.daily ELSE 0) + loss
                          ELSE (IF risk.day = today THEN risk.daily ELSE 0))
        /\ risk'.entries = (IF risk.day = today THEN risk.entries ELSE 0)
        /\ risk'.daily < DailyLossLimit + PerTradeLossBound
        /\ risk'.monthly < MonthlyLossLimit + PerTradeLossBound
        /\ risk'.stop = "ACTIVE" => /\ risk'.losses < MaxConsecutiveLosses
                                    /\ risk'.monthly < MonthlyLossLimit
                                    /\ risk'.daily < DailyLossLimit
    BY <1>1, <2>2, <2>3, RecordClosedFacts
  <2>5. LedgerTypeOK'
    BY <1>1, <1>2, <2>4, PolicyFacts DEF LedgerTypeOK
  <2>6. LimitLatchesStop' /\ LossesBounded' /\ OpenPassedGate'
    BY <1>2, <2>1, <2>4 DEF LimitLatchesStop, LossesBounded, OpenPassedGate
  <2>7. BooksAreReal'
    BY <1>1, <1>2, <2>1, <2>4 DEF LedgerInv, BooksAreReal
  <2>8. QED
    BY <1>1, <1>2, <2>4, <2>5, <2>6, <2>7 DEF LedgerInv
<1>5. QED
  BY <1>3, <1>4

LEMMA KillKeepsLedger ==
    ASSUME LedgerInv, Kill
    PROVE  LedgerInv'
<1>1. risk \in RiskState
  BY DEF LedgerInv, LedgerTypeOK
<1>2. /\ risk' = [risk EXCEPT !.stop = "KILLED"]
      /\ UNCHANGED <<closed, open, today, lost, entered>>
  BY DEF Kill
<1>3. /\ risk' \in RiskState
      /\ risk'.stop = "KILLED"
      /\ risk'.day = risk.day /\ risk'.daily = risk.daily /\ risk'.monthly = risk.monthly
      /\ risk'.losses = risk.losses /\ risk'.entries = risk.entries
  BY <1>1, <1>2 DEF RiskState, StopState
<1>4. LedgerTypeOK'
  BY <1>2, <1>3 DEF LedgerInv, LedgerTypeOK
<1>5. QED
  BY <1>2, <1>3, <1>4 DEF LedgerInv, LimitLatchesStop, LossesBounded, BooksAreReal,
     OpenPassedGate

LEMMA NextDayKeepsLedger ==
    ASSUME LedgerInv, NextDay
    PROVE  LedgerInv'
<1>1. /\ risk.day \in Nat \cup {None} /\ today \in Nat /\ risk.day <= today
  BY DEF LedgerInv, LedgerTypeOK, RiskState
<1>2. /\ today' = today + 1 /\ lost' = 0 /\ entered' = 0
      /\ UNCHANGED <<risk, closed, open>>
  BY DEF NextDay
<1>3. risk'.day # today' /\ risk'.day <= today' /\ today' \in Nat
  BY <1>1, <1>2 DEF None
<1>4. LedgerTypeOK'
  BY <1>2, <1>3 DEF LedgerInv, LedgerTypeOK
<1>5. QED
  BY <1>2, <1>3, <1>4 DEF LedgerInv, LimitLatchesStop, LossesBounded, BooksAreReal,
     OpenPassedGate

\* A stop that is no daily stop survives every step: an entry needs an open
\* gate, and a result meets it only as a kill.
LEMMA StepKeepsStop ==
    ASSUME LedgerInv, [LedgerNext]_ledgerVars,
           risk.stop \notin {"ACTIVE", "STOPPED_DAILY_BUDGET"}
    PROVE  risk'.stop \notin {"ACTIVE", "STOPPED_DAILY_BUDGET"}
<1>1. risk \in RiskState /\ today \in Nat
  BY DEF LedgerInv, LedgerTypeOK
<1>2. ~ \E t \in Trade : Enter(t)
  <2>1. RollCalendar(risk, today).stop = risk.stop
    BY <1>1, RollFacts
  <2>2. QED
    BY <2>1 DEF Enter, GateAllows
<1>3. ASSUME NEW t \in Trade, NEW loss \in Nat, Close(t, loss)
      PROVE  risk'.stop \notin {"ACTIVE", "STOPPED_DAILY_BUDGET"}
  <2>1. CASE t \in closed
    BY <1>3, <2>1 DEF Close, ApplyOnce
  <2>2. CASE t \notin closed
    <3>1. t = open /\ open # NoTrade
      BY <1>3, <2>2, LedgerAssumption DEF Close
    <3>2. /\ risk.stop = "KILLED"
          /\ risk.daily < DailyLossLimit
          /\ risk.monthly < MonthlyLossLimit
          /\ risk.losses < MaxConsecutiveLosses
      BY <3>1 DEF LedgerInv, OpenPassedGate
    <3>3. RecordClosed(risk, today, loss).stop = "KILLED"
      BY <1>1, <3>2, RecordClosedFacts
    <3>4. QED
      BY <1>3, <2>2, <3>3 DEF Close, ApplyOnce
  <2>3. QED
    BY <2>1, <2>2
<1>4. CASE Kill
  BY <1>1, <1>4 DEF Kill, RiskState
<1>5. CASE UNCHANGED risk
  BY <1>5
<1>6. 0..(PerTradeLossBound + 1) \subseteq Nat
  BY PolicyFacts
<1>7. QED
  BY <1>2, <1>3, <1>4, <1>5, <1>6 DEF LedgerNext, NextDay, ledgerVars

(***************************************************************************)
(* The theorems.                                                           *)
(***************************************************************************)

\* Every reachable file is within the invariant.
LEMMA LedgerInvariant ==
    LedgerSpec => []LedgerInv
<1>1. LedgerInit => LedgerInv
  BY InitKeepsLedger
<1>2. LedgerInv /\ [LedgerNext]_ledgerVars => LedgerInv'
  <2> SUFFICES ASSUME LedgerInv, [LedgerNext]_ledgerVars PROVE LedgerInv'
    OBVIOUS
  <2>1. ASSUME NEW t \in Trade, Enter(t) PROVE LedgerInv'
    BY <2>1, EnterKeepsLedger
  <2>2. ASSUME NEW t \in Trade, NEW loss \in 0..(PerTradeLossBound + 1), Close(t, loss)
        PROVE  LedgerInv'
    <3>1. loss \in Nat
      BY <2>2, PolicyFacts
    <3>2. QED
      BY <2>2, <3>1, CloseKeepsLedger
  <2>3. CASE Kill
    BY <2>3, KillKeepsLedger
  <2>4. CASE NextDay
    BY <2>4, NextDayKeepsLedger
  <2>5. CASE UNCHANGED ledgerVars
    BY <2>5 DEF ledgerVars, LedgerInv, LedgerTypeOK, LimitLatchesStop, LossesBounded,
       BooksAreReal, OpenPassedGate
  <2>6. QED
    BY <2>1, <2>2, <2>3, <2>4, <2>5 DEF LedgerNext
<1>3. QED
  BY <1>1, <1>2, PTL DEF LedgerSpec

\* The risk file keeps its type under every policy.
THEOREM RiskFileTyped ==
    LedgerSpec => []LedgerTypeOK
<1>1. LedgerInv => LedgerTypeOK
  BY DEF LedgerInv
<1>2. QED
  BY <1>1, LedgerInvariant, PTL

\* A limit that is reached latches its stop, although record_closed_result
\* returns early under a stop read before the calendar is rolled.
THEOREM LimitsLatch ==
    LedgerSpec => []LimitLatchesStop
<1>1. LedgerInv => LimitLatchesStop
  BY DEF LedgerInv
<1>2. QED
  BY <1>1, LedgerInvariant, PTL

\* A day's and a month's losses stay within one trade of their limits.
THEOREM LossesStayBounded ==
    LedgerSpec => []LossesBounded
<1>1. LedgerInv => LossesBounded
  BY DEF LedgerInv
<1>2. QED
  BY <1>1, LedgerInvariant, PTL

\* The file's counters are the day's real losses and entries, however often a
\* result is offered to record_closed_result_once.
THEOREM BooksStayReal ==
    LedgerSpec => []BooksAreReal
<1>1. LedgerInv => BooksAreReal
  BY DEF LedgerInv
<1>2. QED
  BY <1>1, LedgerInvariant, PTL

\* A monthly, a consecutive-loss stop and a kill are final.
THEOREM StopsAreFinal ==
    LedgerSpec => StopIsFinal
<1>1. LedgerInv /\ [LedgerNext]_ledgerVars
        => [risk.stop \notin {"ACTIVE", "STOPPED_DAILY_BUDGET"}
              => risk'.stop \notin {"ACTIVE", "STOPPED_DAILY_BUDGET"}]_ledgerVars
  BY StepKeepsStop
<1>2. QED
  BY <1>1, LedgerInvariant, PTL DEF LedgerSpec, StopIsFinal

=============================================================================
