CONSTANTS
    t1 = t1
    t2 = t2
    t3 = t3
    Tokens <- const_Tokens
    NRecords = 3
    Room = 1
    MaxEvents = 2
    Items <- const_Items
    MaxItems = 4
SPECIFICATION SessionSpec
INVARIANTS
    TypesOK
    SignalsOwnChild
    SelectedWasPicked
    NothingLeftBehind
PROPERTIES
    SessionsEnd
