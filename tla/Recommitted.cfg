SPECIFICATION SyncSpec
CONSTANTS
    r1 = r1
    r2 = r2
    a = a
    b = b
    NoRoot = NoRoot
    Root = {r1, r2}
    Blob = {a, b}
    Reach <- MCReach
    Structure = {b}
    Foreign = {}
    Size <- MCSize
    MaxBytes = 1
    PinName = {}
    Durability = "commit"
    PowerFails = FALSE
    Tears = FALSE
    Collects = TRUE
    Recommits = TRUE
    Witness = FALSE
    MaxCalls = 5
    MaxTrouble = 0
INVARIANTS
    ConfirmedIsTrue
CHECK_DEADLOCK FALSE
