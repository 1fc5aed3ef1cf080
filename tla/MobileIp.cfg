SPECIFICATION FairSpec
CONSTANTS
    h = h
    f = f
    n1 = n1
    n2 = n2
    AP = {h, f}
    Node = {n1, n2}
    NULL = NULL
    Pool <- MCPool
    MaxQueue = 1
    MaxMoves = 2
    MaxPings = 1
INVARIANTS
    AddressesAccounted

    
    
