SPECIFICATION Spec
SYMMETRY Symmetry
CONSTANTS
    Procs = {p1, p2}
    Names = {a, b}
    ValidNames = {a}
    Size = 7
    MaxLength = 2
    Entries = 1
    MaxFd = 1
    Inodes = {i1, i2}
    ExitsAlone = TRUE
    None = None
INVARIANTS
    CacheCoherent
    
    CountsReferences
    NewFileIsZero

    
