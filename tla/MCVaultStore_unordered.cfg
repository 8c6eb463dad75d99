SPECIFICATION Spec
CONSTANTS
    p1 = p1
    Procs = {p1}
    NoProc = NoProc
    MaxSnap = 3
    MaxEvents = 2
    MaxGen = 2
    Retention = 1
    OrderedMetadata = FALSE
INVARIANTS
    PredecessorKept
