SPECIFICATION Spec
CONSTANTS
    b1 = b1
    c1 = c1
    c2 = c2
    none = none
    NoBatch = none
    Batch <- OneBatch
    Caller <- OneCaller
    PayloadSize = 2
    Branches = 4
    SpanBase = 1000
    Tables <- SmallTables
    Replicas <- SmallReplicas
    MaxSize = 26
    MaxAddresses = 5
    BlockSecs = 2
    BucketDepth = 0
    MinDepth = 1
    MinTtl = 2
    MinBlocks = 1
    PadBlocks = 1
    Prices = {2, 3}
    Targets = {1, 5}
    Budgets = {10}
    Depths = {1, 2}
    Funds = 24
    Faults = {"expires"}
    MaxBlocks = 3
    MaxTx = 3
INVARIANT AnswersTrue
CHECK_DEADLOCK FALSE
