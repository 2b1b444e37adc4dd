\* Three blocks: the list takes every order of every subset, and the links
\* that live blocks keep can form cycles.
CONSTANTS
    NumElems = 3
    Words = {1, 7}
    Objects = {0, 1}
    ZeroObject = 0
SPECIFICATION Spec
INVARIANTS
    TypeOK
    NextIsNotLive
PROPERTY ImplementsMemPool
