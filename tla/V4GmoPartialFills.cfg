SPECIFICATION Spec
CONSTANTS
    Cycle = {c1}
    Side <- MCSide
    Lot = 2
    OcoMax = 3
    Proc = {p1, p2}
    NoCycle = NoCycle
    ReadMode = "settled"
    MaxUnprotected = 0
    DayLength = 1
    MaxTime = 1
    ClockMayStepBack = TRUE
    PerTradeLossBound = 1
    DailyLossLimit = 1
    MonthlyLossLimit = 1
    MaxConsecutiveLosses = 1
    MaxEntriesPerDay = 1
    DaysPerMonth = 2
SYMMETRY Symmetry
INVARIANTS
    TypeOK
    AtMostOneSend
    NoExitOverLiveProtection
    StoreNeverRefuses
    ProcessNeverStuck
PROPERTIES
    RiskCalendarNeverMovesBack
    NothingSentWhileHalted
