CONSTANTS
    Signals <- AllSignals
    NumBooks = 2
    MaxLogons = 1
    MaxCauses = 2
SPECIFICATION Spec
INVARIANTS
    DeletedOnce
CHECK_DEADLOCK FALSE
