SPECIFICATION Spec
CONSTANTS
    Path <- MCPath
    Removable <- MCRemovable
    Slash <- MCSlash
    Reserved <- MCReserved
    IndexName <- MCIndexName
    PrefixMax = 3
    Versions = 2
    MaxBatch = 2
    Adopts = FALSE
INVARIANTS
    TrieOK
    FilesAsAsked
    IndexAndTrieAgree
    ListingsAgree
    NothingOwed
CHECK_DEADLOCK FALSE
