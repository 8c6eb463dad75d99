CONSTANTS
    t1 = t1
    t2 = t2
    t3 = t3
    Tokens <- const_Tokens
    NRecords = 2
    Room = 1
    MaxEvents = 0
    Items <- const_Items
    MaxItems = 2
SPECIFICATION SessionSpec
PROPERTIES
    IdleLocks
