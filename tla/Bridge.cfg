SPECIFICATION FairBridgeSpec

CONSTANTS
    Bridge = {1, 2, 3}
    Lan = {1, 2}
    Ports <- Line
    MAX_AGE = 3
    MAX_WAIT = 1
    MayCrash = {2}
    MaxCrashes = 1

INVARIANT
    BridgeSound

PROPERTIES
    
    ClaimIsAnswered

CHECK_DEADLOCK FALSE
