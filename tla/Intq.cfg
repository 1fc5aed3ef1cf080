SPECIFICATION Spec

CONSTANTS
    r1 = r1
    r2 = r2
    r3 = r3
    x = x
    y = y
    Thread <- ThreeThreads
    Byte <- TwoBytes
    NULL = NULL
    INTQ_BUFSIZE = 3

SYMMETRY Symmetry

INVARIANTS
    IntqTypeOK
    WaiterIsRight
    OneWaits

PROPERTY
    ImplementsFifo

CHECK_DEADLOCK FALSE
