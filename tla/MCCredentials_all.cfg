SPECIFICATION Spec
CONSTANTS
    p1 = p1
    p2 = p2
    Procs = {p1, p2}
    NoProc = NoProc
    x1 = x1
    x2 = x2
    Paths = {x1, x2}
    MaxSnap = 4
    MaxCreds = 4
    MaxEvents = 3
CONSTRAINT Scope
INVARIANTS
    CanOpen
    RecoveryKeyKept
    ReplacedStaysReplaced
PROPERTIES
    UsesRegister
CHECK_DEADLOCK FALSE
SYMMETRY Symmetry
