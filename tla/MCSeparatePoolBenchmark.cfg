CONSTANTS
    NULL = NULL
    NumElems = 4
    N = 4
    Addresses = {10, 11, 12, 13, 14, 15}
    Words = {0, 1, 2, 3}
    Objects = {0}
    ZeroObject = 0
    ColdSamples = 3
SPECIFICATION BenchSpec
INVARIANT HeldBlocksIntact
PROPERTY ComparesLikeWithLike
