CONSTANTS
    N = 5
    ColdSamples = 3
SPECIFICATION Spec
INVARIANTS
    ContainersAgree
    FindsItsKey
