SPECIFICATION Spec
CONSTANTS
    x = x
    y = y
    v = v
    w = w
    new = new
    newOther = newOther
    t1 = t1
    t2 = t2
    NoFile = NoFile
    Nothing = Nothing
    Path = {x}
    Value = {v, w}
    Pseudo = {}
    Base <- MCBase
    Task = {t1, t2}
    Lists = FALSE
    Removes = TRUE
    Fails = FALSE
    Transacts = FALSE
    MaxCalls = 4
INVARIANTS
    RemovalsApply
CHECK_DEADLOCK FALSE
