SPECIFICATION Spec
CONSTANTS
    r1 = r1
    r2 = r2
    r3 = r3
    a = a
    b = b
    c = c
    NoRoot = NoRoot
    Root = {r1, r2}
    Blob = {a, b}
    Reach <- MCReachPins
    Structure = {b}
    Foreign = {}
    Size <- MCUnitSize
    MaxBytes = 1
    PinName = {"working-set"}
    Durability = "commit"
    PowerFails = FALSE
    Tears = FALSE
    Collects = TRUE
INVARIANTS
    TypeOK
    NoLoss
    ConfirmedTreeOnSwarm
    LineageEnds
PROPERTIES
    PinsHold
    RungsClimb
