SPECIFICATION Spec
CONSTANTS
    Path <- Dotted
    Removable <- Dotted
    Slash <- MCSlash
    Reserved <- MCReserved
    IndexName <- MCIndexName
    PrefixMax = 3
    Versions = 1
    MaxBatch = 2
    Adopts = FALSE
INVARIANT
    FilesAsAsked
CHECK_DEADLOCK FALSE
