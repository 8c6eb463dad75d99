SPECIFICATION Spec
CONSTANTS
    p1 = p1
    Procs = {p1}
    NoProc = NoProc
    MaxSnap = 2
    MaxEvents = 0
    MaxGen = 2
    Retention = 1
    OrderedMetadata = TRUE
PROPERTIES
    DocumentedWriterOrder
