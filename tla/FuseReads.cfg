SPECIFICATION Spec
CONSTANTS
    top = top
    d1 = d1
    d2 = d2
    n1 = n1
    h1 = h1
    h2 = h2
    x = x
    nothing = nothing
    removed = removed
    Top = top
    Nothing = nothing
    Removed = removed
    Folder <- TwoFolders
    Name <- OneName
    Path <- FolderPaths
    Handle <- TwoHandles
    Data <- OneDatum
    Faults = {}
    MaxLength = 1
SYMMETRY MountSymmetry
INVARIANT ReadsAnswer
