SPECIFICATION OverlapSpec
CONSTANTS
    Client = {c1}
    Loop = {r1}
    NoThread = NoThread
    Order = {o1,o2}
    MaxPositions = 1
    MaxDailyLosses = 3
    MaxConsecutive = 2
    MaxFailures = 2
    Faults = {}

INVARIANTS LossesCountedOnce
