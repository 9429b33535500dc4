SPECIFICATION PathSpec
CONSTANTS
    Signal = {s1,s2}
    NoSignal = NoSignal
    Proc = {p1,p2}
    NoProc = NoProc
    RequestedSize = 2
    ProtectionWindow = 0
    EvidenceWindow = 0
    HoldTime = 1
    FreshWindow = 0
    DayLength = 1
    MaxTime = 1
    Faults = {"console","crash","slow","reply","operator"}
    PerTradeLossBound = 1
    DailyLossLimit = 2
    MonthlyLossLimit = 3
    MaxConsecutiveLosses = 2
    MaxEntriesPerDay = 2
    DaysPerMonth = 2
SYMMETRY Symmetry
INVARIANTS
    OnePositionAtATime
    ConfirmedIsAll
