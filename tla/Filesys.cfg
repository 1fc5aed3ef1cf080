SPECIFICATION Spec

CONSTANTS
    a = a
    b = b
    f = f
    g = g
    x = x
    ZERO = ZERO
    NULL = NULL
    Name <- TwoNames
    Handle <- TwoHandles
    Data <- TwoData
    Sectors = 4
    Slots = 2
    MaxSize = 2
    MaxFailures = 1

SYMMETRY Symmetry

INVARIANTS
    FilesAreSound
    CountsRight

PROPERTIES
    OthersUntouched
    ImplementsFileStore

