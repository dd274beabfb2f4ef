SPECIFICATION Spec
CONSTANTS
    Path <- Siblings
    Removable <- Siblings
    Slash <- MCSlash
    Reserved <- MCReserved
    IndexName <- MCIndexName
    PrefixMax = 3
    Versions = 1
    MaxBatch = 2
    Adopts = FALSE
INVARIANT
    FilesAsAsked
CHECK_DEADLOCK FALSE
