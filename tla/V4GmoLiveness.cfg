SPECIFICATION LiveSpec
CONSTANTS
    Cycle = {c1}
    Side <- MCSide
    Lot = 1
    OcoMax = 2
    Proc = {p1}
    NoCycle = NoCycle
    ReadMode = "settled"
    MaxUnprotected = 0
    DayLength = 1
    MaxTime = 1
    ClockMayStepBack = FALSE
    PerTradeLossBound = 1
    DailyLossLimit = 1
    MonthlyLossLimit = 1
    MaxConsecutiveLosses = 1
    MaxEntriesPerDay = 1
    DaysPerMonth = 2
PROPERTIES
    CycleSettles
    LostProtectionIsNoticed
    HaltedCycleIsReleased
    GlobalHaltIsReleased
    ImplementsTransport
