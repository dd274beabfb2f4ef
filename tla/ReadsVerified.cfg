SPECIFICATION Spec
CONSTANTS
    r1 = r1
    r2 = r2
    r3 = r3
    a = a
    b = b
    c = c
    NoRoot = NoRoot
    Root = {r1, r2}
    Blob = {a, b}
    Reach <- MCReachPins
    Structure = {b}
    Foreign = {}
    Size <- MCUnitSize
    MaxBytes = 1
    PinName = {}
    Durability = "commit"
    PowerFails = TRUE
    Tears = TRUE
    Collects = FALSE
INVARIANTS
    ReadsAreVerified
