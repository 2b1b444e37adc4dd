CONSTANTS
    NULL = NULL
    PoolSize = 3
    OrderIds = {1, 2, 3, 4, 5}
    Prices = {2, 3, 4, 5, 6}
    MaxPrice = 6
    Sizes = {500, 1000}
    MaxSize = 1000
    CancelsFilled = TRUE
    Iterations = 5
    Modulus = 16
    Tick = 2
    MinPrice = 2
    StartPrice = 3
    MaxOffset = 1
    WidePrices = {2, 3}
    MaxLast = 3
    Lots = {1}
    Fractions = {2}
    MaxId = 6
SPECIFICATION MainSpec
INVARIANTS
    MainTypeOK
    TrackedAreResting
    PoolSuffices
    QueuedByAge
PROPERTIES
    CancelsOnlyResting
    MainTerminates
