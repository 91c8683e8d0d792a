CONSTANTS
    Lines <- SomeLines
    Settings <- Keeping
    MaxLogons = 2
    MaxSaid = 0
SPECIFICATION Spec
INVARIANTS
    SubscribedOnce
CHECK_DEADLOCK FALSE
