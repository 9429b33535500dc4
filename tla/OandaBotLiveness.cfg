SPECIFICATION LiveBotSpec
CONSTANTS
    Client = {c1}
    Loop = {r1,r2}
    NoThread = NoThread
    Order = {o1}
    MaxPositions = 1
    MaxDailyLosses = 3
    MaxConsecutive = 2
    MaxFailures = 1
    Faults = {"byhand","crash","reply","read"}
INVARIANTS BookedIsClosed NothingSentUnasked
PROPERTIES TradeIsBooked
