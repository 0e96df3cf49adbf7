SPECIFICATION FairSpec
CONSTANTS
    c1 = c1
    c2 = c2
    Callers <- TwoCallers
    Sizes <- AroundLimit
    Capacity = 1
    CbufSize = 1
    Programs <- TwoPrograms
INVARIANTS
    BlockedOnlyBySize
PROPERTIES
    ImplementsCalls
    CallsReturn
CHECK_DEADLOCK FALSE
