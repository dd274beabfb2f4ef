SPECIFICATION Spec
CONSTANTS
    w1 = w1
    w2 = w2
    r1 = r1
    a = a
    b = b
    c = c
    none = none
    NoRoot = none
    Writer <- OneWriter
    Reader <- OneReader
    Root <- TwoRoots
    Modes = {TRUE}
    Faults = {"collides"}
    MaxCommits = 2
    MaxTime = 1
SYMMETRY RootSymmetry
INVARIANT LoopServesListener
CHECK_DEADLOCK FALSE
