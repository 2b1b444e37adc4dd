CONSTANTS
    NULL = NULL
    PoolSize = 3
    OrderIds = {1}
    Prices = {1, 2}
    MaxPrice = 2
    Sizes = {1, 3}
    MaxSize = 3
    CancelsFilled = FALSE
    SizeRange = 4
SPECIFICATION Spec
INVARIANT ReportExact
