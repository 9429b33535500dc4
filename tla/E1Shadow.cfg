SPECIFICATION Spec
CONSTANTS
    Units = 2
    MaxEntriesPerDay = 1
    MaxConsecutiveLosses = 1
    Faults = {"disk", "inject", "expire", "crash"}
    MaxIntents = 4
    MaxDay = 1
INVARIANTS
    TradingKnowsTheVenue
PROPERTIES
    EntryWithinLimits
    KillIsFinal
    ImplementsTransport
