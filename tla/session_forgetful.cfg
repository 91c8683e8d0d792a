CONSTANTS
    Lines <- SomeLines
    Settings <- Forgetful
    MaxLogons = 3
    MaxSaid = 1
SPECIFICATION Spec
INVARIANTS
    TypeOK
    SubscribedOnce
PROPERTIES
    Subscribes
CHECK_DEADLOCK FALSE
