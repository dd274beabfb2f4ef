SPECIFICATION Spec
CONSTANTS
    x = x
    y = y
    v = v
    w = w
    new = new
    newOther = newOther
    t1 = t1
    t2 = t2
    NoFile = NoFile
    Nothing = Nothing
    Path = {x, y}
    Value = {v, w}
    Pseudo = {new}
    Base = {}
    Task = {t1}
    Lists = TRUE
    Removes = TRUE
    Fails = TRUE
    Transacts = TRUE
    MaxCalls = 6
INVARIANTS
    NothingStagedIsLost
    RemovalsApply
    ListingsFresh
CHECK_DEADLOCK FALSE
