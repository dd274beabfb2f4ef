SPECIFICATION FairSpec
CONSTANTS
    w1 = w1
    w2 = w2
    r1 = r1
    a = a
    b = b
    c = c
    none = none
    NoRoot = none
    Writer <- OneWriter
    Reader <- OneReader
    Root <- TwoRoots
    Modes = {TRUE, FALSE}
    Faults = {"fails", "restarts"}
    MaxCommits = 2
    MaxTime = 1
INVARIANTS FeedTypeOK ServedOnly AtInForce
PROPERTIES IndicesFresh NeverRolledBack FollowsFeed
CHECK_DEADLOCK FALSE
