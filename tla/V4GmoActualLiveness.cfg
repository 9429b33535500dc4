SPECIFICATION ActualLiveSpec
CONSTANTS
    Signal = {s1, s2}
    NoSignal = NoSignal
    Proc = {p1}
    NoProc = NoProc
    RequestedSize = 2
    ProtectionWindow = 0
    EvidenceWindow = 0
    HoldTime = 2
    FreshWindow = 1
    DayLength = 2
    MaxTime = 4
    Faults = {"reply", "read", "gate"}
    PerTradeLossBound = 1
    DailyLossLimit = 2
    MonthlyLossLimit = 3
    MaxConsecutiveLosses = 2
    MaxEntriesPerDay = 2
    DaysPerMonth = 2
PROPERTIES
    ExitConcludes
    NoEntryIsForgotten
