------------------------ MODULE PhaseBRiskRulesProofs -----------------------
(***************************************************************************)
(* What the operations of the risk file return, for every stored state,    *)
(* day and loss, under every policy that PhaseBRiskPolicy accepts.         *)
(***************************************************************************)
EXTENDS PhaseBClosedResults, TLAPS

\* The limits are positive.
LEMMA PolicyFacts ==
    /\ PerTradeLossBound \in Nat \ {0}
    /\ DailyLossLimit \in Nat \ {0}
    /\ MonthlyLossLimit \in Nat \ {0}
    /\ MaxConsecutiveLosses \in Nat \ {0}
    /\ MaxEntriesPerDay \in Nat \ {0}
    /\ DaysPerMonth \in Nat \ {0}
  BY RiskPolicyAssumption

\* A roll of the calendar: the day's counters restart on a new day, the
\* month's loss is kept or cleared, and only a daily stop is lifted.
LEMMA RollFacts ==
    ASSUME NEW s \in RiskState, NEW d \in Nat
    PROVE  /\ RollCalendar(s, d) \in RiskState
           /\ RollCalendar(s, d).day = d
           /\ RollCalendar(s, d).daily = IF s.day = d THEN s.daily ELSE 0
           /\ RollCalendar(s, d).entries = IF s.day = d THEN s.entries ELSE 0
           /\ RollCalendar(s, d).losses = s.losses
           /\ RollCalendar(s, d).monthly \in {s.monthly, 0}
           /\ RollCalendar(s, d).stop \in
                  IF s.stop = "STOPPED_DAILY_BUDGET" THEN {s.stop, "ACTIVE"} ELSE {s.stop}
<1> DEFINE r == RollDay(s, d)
<1>1. /\ r \in RiskState
      /\ r.day = d
      /\ r.daily = IF s.day = d THEN s.daily ELSE 0
      /\ r.entries = IF s.day = d THEN s.entries ELSE 0
      /\ r.losses = s.losses
      /\ r.monthly = s.monthly
      /\ r.stop \in IF s.stop = "STOPPED_DAILY_BUDGET" THEN {s.stop, "ACTIVE"} ELSE {s.stop}
  BY DEF RollDay, RiskState, StopState
<1>2. Month(d) \in Nat
  BY PolicyFacts DEF Month
<1>3. RollCalendar(s, d) = RollMonth(r, d)
  BY DEF RollCalendar
<1> HIDE DEF r
<1> DEFINE m == RollMonth(r, d)
<1>4. /\ m \in RiskState
      /\ m.day = r.day /\ m.daily = r.daily /\ m.entries = r.entries
      /\ m.losses = r.losses /\ m.stop = r.stop
      /\ m.monthly \in {r.monthly, 0}
  BY <1>1, <1>2 DEF RollMonth, RiskState
<1> HIDE DEF m
<1>5. QED
  BY <1>1, <1>3, <1>4 DEF m

\* A booked loss adds to the day and the month, a win to neither.
LEMMA BookLossFacts ==
    ASSUME NEW r \in RiskState, NEW loss \in Nat
    PROVE  /\ BookLoss(r, loss) \in RiskState
           /\ BookLoss(r, loss).day = r.day
           /\ BookLoss(r, loss).daily = r.daily + loss
           /\ BookLoss(r, loss).monthly = r.monthly + loss
           /\ BookLoss(r, loss).entries = r.entries
           /\ BookLoss(r, loss).stop = r.stop
<1>1. CASE loss > 0
  <2>1. r = [stop |-> r.stop, day |-> r.day, month |-> r.month, daily |-> r.daily,
             monthly |-> r.monthly, losses |-> r.losses, entries |-> r.entries]
    BY DEF RiskState
  <2>2. /\ r.daily + loss \in Nat
        /\ r.monthly + loss \in Nat
        /\ r.losses + 1 \in Nat
    BY DEF RiskState
  <2>3. BookLoss(r, loss) =
            [stop |-> r.stop, day |-> r.day, month |-> r.month, daily |-> r.daily + loss,
             monthly |-> r.monthly + loss, losses |-> r.losses + 1, entries |-> r.entries]
    BY <1>1, <2>1 DEF BookLoss
  <2>4. QED
    BY <2>2, <2>3 DEF RiskState
<1>2. CASE loss = 0
  BY <1>2 DEF BookLoss, RiskState
<1>3. QED
  BY <1>1, <1>2

\* What a result does to a file whose position passed the gate.
LEMMA RecordClosedFacts ==
    ASSUME NEW s \in RiskState, NEW d \in Nat, NEW loss \in Nat,
           s.stop \in {"ACTIVE", "KILLED"},
           s.daily < DailyLossLimit, s.monthly < MonthlyLossLimit,
           s.losses < MaxConsecutiveLosses
    PROVE  LET t == RecordClosed(s, d, loss)
               before == IF s.day = d THEN s.daily ELSE 0
           IN  /\ t \in RiskState
               /\ t.day = d
               /\ t.daily = IF loss <= PerTradeLossBound THEN before + loss ELSE before
               /\ t.entries = IF s.day = d THEN s.entries ELSE 0
               /\ t.daily < DailyLossLimit + PerTradeLossBound
               /\ t.monthly < MonthlyLossLimit + PerTradeLossBound
               /\ s.stop = "KILLED" => t.stop = "KILLED"
               /\ t.stop = "ACTIVE" => /\ t.losses < MaxConsecutiveLosses
                                       /\ t.monthly < MonthlyLossLimit
                                       /\ t.daily < DailyLossLimit
<1> DEFINE r == RollCalendar(s, d)
           b == BookLoss(r, loss)
<1>1. /\ r \in RiskState
      /\ r.day = d
      /\ r.daily = IF s.day = d THEN s.daily ELSE 0
      /\ r.entries = IF s.day = d THEN s.entries ELSE 0
      /\ r.monthly \in {s.monthly, 0}
      /\ r.losses = s.losses
      /\ r.stop = s.stop
  BY RollFacts
<1>2. /\ r.daily \in Nat /\ r.monthly \in Nat
      /\ r.daily < DailyLossLimit
      /\ r.monthly < MonthlyLossLimit
  BY <1>1, PolicyFacts DEF RiskState
<1>3. RecordClosed(s, d, loss) =
          IF loss > PerTradeLossBound THEN [r EXCEPT !.stop = "KILLED"]
          ELSE IF s.stop # "ACTIVE" THEN b
          ELSE [b EXCEPT !.stop = StopAtLimit(b)]
  BY DEF RecordClosed
<1> HIDE DEF r
<1>4. CASE loss > PerTradeLossBound
  BY <1>1, <1>2, <1>3, <1>4, PolicyFacts DEF RiskState, StopState
<1>5. CASE ~(loss > PerTradeLossBound)
  <2>1. /\ b \in RiskState
        /\ b.day = d
        /\ b.daily = r.daily + loss
        /\ b.monthly = r.monthly + loss
        /\ b.entries = r.entries
        /\ b.stop = s.stop
    BY <1>1, BookLossFacts
  <2> HIDE DEF b
  <2>2. CASE s.stop # "ACTIVE"
    BY <1>1, <1>2, <1>3, <1>5, <2>1, <2>2, PolicyFacts
  <2>3. CASE s.stop = "ACTIVE"
    <3>1. /\ StopAtLimit(b) \in StopState
          /\ StopAtLimit(b) = "ACTIVE" => /\ b.losses < MaxConsecutiveLosses
                                          /\ b.monthly < MonthlyLossLimit
                                          /\ b.daily < DailyLossLimit
      BY <2>1, PolicyFacts DEF StopAtLimit, StopState, RiskState
    <3>2. RecordClosed(s, d, loss) = [b EXCEPT !.stop = StopAtLimit(b)]
      BY <1>3, <1>5, <2>3
    <3>3. QED
      BY <1>1, <1>2, <1>5, <2>1, <2>3, <3>1, <3>2, PolicyFacts DEF RiskState
  <2>4. QED
    BY <2>2, <2>3
<1>6. QED
  BY <1>4, <1>5

\* An entry is counted on the day it is charged to.
LEMMA RecordEntryFacts ==
    ASSUME NEW s \in RiskState, NEW d \in Nat
    PROVE  /\ RecordEntry(s, d) \in RiskState
           /\ RecordEntry(s, d).day = d
           /\ RecordEntry(s, d).entries > 0
<1> DEFINE r == RollCalendar(s, d)
<1>1. r \in RiskState /\ r.day = d
  BY RollFacts
<1>2. RecordEntry(s, d) = [r EXCEPT !.entries = @ + 1]
  BY DEF RecordEntry
<1> HIDE DEF r
<1>3. QED
  BY <1>1, <1>2 DEF RiskState

\* A result keeps the entries of the day it is booked on.
LEMMA RecordClosedKeepsEntries ==
    ASSUME NEW s \in RiskState, NEW d \in Nat, NEW loss \in Nat
    PROVE  /\ RecordClosed(s, d, loss) \in RiskState
           /\ RecordClosed(s, d, loss).day = d
           /\ s.day = d => RecordClosed(s, d, loss).entries = s.entries
<1> DEFINE r == RollCalendar(s, d)
           b == BookLoss(r, loss)
<1>1. /\ r \in RiskState /\ r.day = d
      /\ s.day = d => r.entries = s.entries
  BY RollFacts
<1>2. RecordClosed(s, d, loss) =
          IF loss > PerTradeLossBound THEN [r EXCEPT !.stop = "KILLED"]
          ELSE IF s.stop # "ACTIVE" THEN b
          ELSE [b EXCEPT !.stop = StopAtLimit(b)]
  BY DEF RecordClosed
<1> HIDE DEF r
<1>3. /\ b \in RiskState
      /\ b.day = r.day
      /\ b.entries = r.entries
  BY <1>1, BookLossFacts
<1> HIDE DEF b
<1>4. StopAtLimit(b) \in StopState
  BY <1>3 DEF StopAtLimit, StopState, RiskState
<1>5. [b EXCEPT !.stop = StopAtLimit(b)] \in RiskState
  BY <1>3, <1>4 DEF RiskState
<1>6. [r EXCEPT !.stop = "KILLED"] \in RiskState
  BY <1>1 DEF RiskState, StopState
<1>7. QED
  BY <1>1, <1>2, <1>3, <1>5, <1>6 DEF RiskState

=============================================================================
