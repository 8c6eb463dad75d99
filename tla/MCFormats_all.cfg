CONSTANTS
    Capacity = 46
    Align = 4
    SlotSize = 4
    ItemSize = 4
    InitialSlots = 2
    MaxText = 2
    MaxItems = 1
    MaxPlain = 10
    RecordBytes = 2
    MaxRev = 3
    MaxRecords = 3
    MaxSessions = 4
    Vaults <- const_Vaults
    IdLen = 2
    TextBytes = 4
    ListItems = 2
    VaultRecords = 3
    MaxPlaintext = 150
    Damage <- const_Damage
    Keys <- const_Keys
    KeyLen = 1
    VaultIds <- const_VaultIds
    Checksum <- const_Checksum
    Group = 3
    MaxSymbols = 5
    Alphabet <- const_Alphabet
    MaxLen = 4
SPECIFICATION FormatsSpec
INVARIANTS
    TypesOK
    SavedIsSound
    CborExact
    KeyExact
    TextShownSafely
PROPERTIES
    HistoryKept
