SPECIFICATION Spec

CONSTANTS
    mainT = mainT
    idleT = idleT
    a = a
    b = b
    d = d
    tidL = tidL
    lk = lk
    cv = cv
    cw = cw
    started = started
    sm = sm
    Thread <- ThreePages
    Main = mainT
    Idle = idleT
    NULL = NULL
    TIME_SLICE = 1
    Sema <- OnlyBoot
    IdleStarted = started
    IntrSema <- None
    Lock <- TwoLocks
    TidLock = tidL
    Cond <- None
    LockOf <- NoCondLock
    MaxValue = 1
    MaxTid = 6

SYMMETRY Symmetry

INVARIANTS
    NoDanglingThread
    UniqueTid
