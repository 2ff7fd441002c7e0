SPECIFICATION FairSpec
CONSTANTS
    a1 = a1
    a2 = a2
    a3 = a3
    Account = {a1, a2, a3}
    None = None
    Rank <- ThreeRanks
    Poll = 2
    Exhausted = 4
    Gap = 1
    Edge = 1
    Unknown = 2
    Never = 9
    Readings <- SomeReadings
    Settings = {"off", "reset-soonest", "least-used"}
    MaxChanges = 1
PROPERTIES NeverReturns NeverRotatesToExcluded EventuallyWellPlaced
