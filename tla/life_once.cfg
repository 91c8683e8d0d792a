CONSTANTS
    Signals <- AllSignals
    NumBooks = 3
    MaxLogons = 2
    MaxCauses = 1
SPECIFICATION Spec
INVARIANTS
    TypeOK
    MemorySafe
    ExitDeletesBooks
    QuietWhileDeleting
PROPERTIES
    MainEnds
CHECK_DEADLOCK FALSE
