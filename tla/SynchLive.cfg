SPECIFICATION LiveSpec

CONSTANTS
    mainT = mainT
    idleT = idleT
    a = a
    b = b
    d = d
    tidL = tidL
    lk = lk
    cv = cv
    cw = cw
    started = started
    sm = sm
    Thread <- OnePage
    Main = mainT
    Idle = idleT
    NULL = NULL
    TIME_SLICE = 2
    Sema <- BootAndOne
    IdleStarted = started
    IntrSema <- One
    Lock <- TwoLocks
    TidLock = tidL
    Cond <- TwoConds
    LockOf <- TwoCondsLock
    MaxValue = 1
    MaxTid = 4

PROPERTIES
    ReadyThreadRuns
    SleepersLeave
