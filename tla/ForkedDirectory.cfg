SPECIFICATION Spec
CONSTANTS
    Path <- Forked
    Removable <- Forked
    Slash <- MCSlash
    Reserved <- MCReserved
    IndexName <- MCIndexName
    PrefixMax = 3
    Versions = 1
    MaxBatch = 2
    Adopts = FALSE
INVARIANT
    StatsAgree
CHECK_DEADLOCK FALSE
