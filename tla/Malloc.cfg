SPECIFICATION Spec

CONSTANTS
    t1 = t1
    t2 = t2
    d1 = d1
    d2 = d2
    Thread <- TwoThreads
    NULL = NULL
    FreePages = 5
    UserLimit = 2
    Desc <- TwoDescs
    blocks_per_arena <- TwoAndTwo
    MaxPages = 2

SYMMETRY Symmetry

INVARIANTS
    PagesAccounted
    ArenasRight
    NullMeansFull
    NobodyStuck
