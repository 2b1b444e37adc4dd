\* Four elements: the free list takes every order of every subset.
CONSTANTS
    NumElems = 4
    Words = {1, 7}
    Objects = {0, 1}
    ZeroObject = 0
SPECIFICATION Spec
INVARIANTS
    TypeOK
    FreeListExact
    ExhaustedIffFull
PROPERTY ImplementsObjectPool
