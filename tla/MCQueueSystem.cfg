CONSTANTS
    NULL = NULL
    Items = {x1, x2, x3, x4}
    Queues = {k1, k2}
SPECIFICATION Spec
INVARIANTS
    TypeOK
    QueuesIntact
PROPERTY PopTakesOldest
