SPECIFICATION FairSpec
CONSTANTS
    Chunks = 2
    PipeCap = 1
    MaxEvents = 2
INVARIANTS
    TypeOK
    OkMeansDelivered
    NoOrphan
    NoStaleSignal
PROPERTIES
    EverybodyEnds
CHECK_DEADLOCK FALSE
