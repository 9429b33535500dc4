SPECIFICATION LedgerSpec
CONSTANTS
    Trade = {t1, t2, t3, t4, t5}
    NoTrade = NoTrade
    MaxDay = 5
    PerTradeLossBound = 2
    DailyLossLimit = 3
    MonthlyLossLimit = 5
    MaxConsecutiveLosses = 3
    MaxEntriesPerDay = 3
    DaysPerMonth = 2
SYMMETRY Symmetry
INVARIANTS
    LimitLatchesStop
    LossesBounded
    BooksAreReal
PROPERTIES
    StopIsFinal
