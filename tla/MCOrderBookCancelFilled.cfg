CONSTANTS
    NULL = NULL
    PoolSize = 3
    OrderIds = {1}
    Prices = {1, 2}
    MaxPrice = 2
    Sizes = {1, 2}
    MaxSize = 2
    CancelsFilled = TRUE
SPECIFICATION Spec
PROPERTY CancelRemovesOnlyItsOrder
