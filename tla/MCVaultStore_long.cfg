SPECIFICATION FairSpec
CONSTANTS
    p1 = p1
    Procs = {p1}
    NoProc = NoProc
    MaxSnap = 5
    MaxEvents = 4
    MaxGen = 5
    Retention = 2
    OrderedMetadata = TRUE
INVARIANTS
    PredecessorKept
    CollisionNeedsBranch
PROPERTIES
    RetentionFloor
    LockReleased
