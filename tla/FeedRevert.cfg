SPECIFICATION FairSpec
CONSTANTS
    w1 = w1
    w2 = w2
    r1 = r1
    a = a
    b = b
    c = c
    none = none
    NoRoot = none
    Writer <- OneWriter
    Reader <- OneReader
    Root <- TwoRoots
    Modes = {FALSE}
    Faults = {"reverts", "restarts"}
    MaxCommits = 3
    MaxTime = 1
PROPERTY FollowsFeed
CHECK_DEADLOCK FALSE
