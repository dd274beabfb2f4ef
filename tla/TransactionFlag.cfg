SPECIFICATION Spec
CONSTANTS
    x = x
    y = y
    v = v
    w = w
    new = new
    newOther = newOther
    t1 = t1
    t2 = t2
    NoFile = NoFile
    Nothing = Nothing
    Path = {x}
    Value = {v, w}
    Pseudo = {new}
    Base = {}
    Task = {t1}
    Lists = FALSE
    Removes = FALSE
    Fails = TRUE
    Transacts = TRUE
    MaxCalls = 4
INVARIANTS
    TransactionsEnd
CHECK_DEADLOCK FALSE
