SPECIFICATION FairSpec
CONSTANTS
    r1 = r1
    r2 = r2
    a = a
    b = b
    NoRoot = NoRoot
    Root = {r1, r2}
    Blob = {a, b}
    Reach <- MCReach
    Structure = {b}
    Foreign = {}
    Size <- MCSize
    MaxBytes = 1
    PinName = {}
    Durability = "commit"
    PowerFails = FALSE
    Tears = FALSE
    Collects = TRUE
    Recommits = FALSE
    Witness = FALSE
    MaxCalls = 2
    MaxTrouble = 1
PROPERTIES
    EverythingConfirmed
    SyncEnds
CHECK_DEADLOCK FALSE
