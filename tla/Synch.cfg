SPECIFICATION Spec

CONSTANTS
    mainT = mainT
    idleT = idleT
    a = a
    b = b
    d = d
    tidL = tidL
    lk = lk
    cv = cv
    cw = cw
    started = started
    sm = sm
    Thread <- TwoPages
    Main = mainT
    Idle = idleT
    NULL = NULL
    TIME_SLICE = 1
    Sema <- BootAndOne
    IdleStarted = started
    IntrSema <- One
    Lock <- TwoLocks
    TidLock = tidL
    Cond <- OneCond
    LockOf <- OneCondLock
    MaxValue = 2
    MaxTid = 5

SYMMETRY Symmetry

INVARIANTS
    TypeOK
    ElemOnOneList
    MutualExclusion
    HolderIsRight
    NoWakeupLost

PROPERTIES
    ImplementsMonitor
