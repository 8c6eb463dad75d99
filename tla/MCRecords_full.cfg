SPECIFICATION Spec
CONSTANTS
    Capacity = 38
    Align = 4
    SlotSize = 4
    ItemSize = 4
    InitialSlots = 1
    MaxText = 2
    MaxItems = 1
    MaxPlain = 11
    RecordBytes = 2
    MaxRev = 3
    MaxRecords = 2
    MaxSessions = 4
INVARIANTS
    SavedVaultOpens
