SPECIFICATION Spec
CONSTANTS
    p1 = p1
    p2 = p2
    Procs = {p1, p2}
    NoProc = NoProc
    MaxSnap = 5
    MaxEvents = 3
    MaxGen = 3
    Retention = 1
    OrderedMetadata = TRUE
INVARIANTS
    IInv
    PredecessorKept
    AckedSurvives
    ErrorMeansNotCommitted
    SnapshotsIntact
PROPERTIES
    ImplementsRegister
    NoLostUpdate
    PreservedBeforeReplaced
SYMMETRY ProcSymmetry
