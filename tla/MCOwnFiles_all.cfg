CONSTANTS
    p1 = p1
    p2 = p2
    Procs <- const_Procs
    None = None
    Other = Other
    MaxGen = 2
    MaxEvents = 3
    Keys <- const_Keys
    Values <- const_Values
    Default = "default"
    Starts <- const_Starts
    MaxLines = 2
    MaxFiles = 2
    MaxEdits = 2
SPECIFICATION FilesSpec
SYMMETRY Symmetry
INVARIANTS
    CopiesAreAuthentic
    StatusTells
    LoadIsAllOrNothing
