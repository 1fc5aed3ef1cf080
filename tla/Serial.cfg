SPECIFICATION FairSpec

CONSTANTS
    x = x
    y = y
    Byte <- TwoBytes
    NULL = NULL
    INTQ_BUFSIZE = 3
    MaxOut = 3
    MaxIn = 3

INVARIANTS
    SentInOrder
    BothEndsTold

PROPERTIES
    EverythingSent
    ByteIsFetched

CHECK_DEADLOCK FALSE
