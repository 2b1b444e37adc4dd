CONSTANTS
    NULL = NULL
    PoolSize = 3
    OrderIds = {1}
    Prices = {1, 2}
    MaxPrice = 2
    Sizes = {0, 1, 2}
    MaxSize = 2
    CancelsFilled = FALSE
SPECIFICATION Spec
INVARIANTS
    TypeOK
    NotCrossed
    BookIntact
    NoOrderLost
PROPERTIES
    PoolDiscipline
    ImplementsMatchingEngine
    CallReturns
