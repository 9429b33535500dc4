SPECIFICATION OverlapSpec
CONSTANTS
    Client = {c1,c2}
    Loop = {r1}
    NoThread = NoThread
    Order = {o1}
    MaxPositions = 1
    MaxDailyLosses = 3
    MaxConsecutive = 2
    MaxFailures = 0
    Faults = {"reply","read"}
INVARIANTS ClosesStopAfterTwo
