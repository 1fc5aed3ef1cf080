SPECIFICATION FairSpec
CONSTANTS
    NULL = NULL
    ch_num = 3
    file_size = 7
    MaxLosses = 2
    MaxInterrupts = 2

    
PROPERTIES
    NothingLost
    
CHECK_DEADLOCK FALSE
