SPECIFICATION FairSpec

CONSTANTS
    t1 = t1
    t2 = t2
    s1 = s1
    s2 = s2
    x = x
    y = y
    Thread <- TwoThreads
    Sector <- TwoSectors
    Data <- TwoData
    NULL = NULL
    MaxSpurious = 2


    

PROPERTIES
    
    LockedCallReturns

CHECK_DEADLOCK FALSE
