SPECIFICATION PickSpec
CONSTANTS
    NSig = 2
    Max = 1
    NTexts = 2
    MaxLines = 2
    MaxSignals = 2
    MaxEvents = 1
    Chars <- const_Chars
    Fold <- const_Fold
    RecordTexts <- const_Texts
    MaxQuery = 2
    MaxKeys = 3
INVARIANTS
    EchoSafe
    UserAnswered
    SignalsReraised
    TerminalAsFound
PROPERTIES
    SignalEndsWait
