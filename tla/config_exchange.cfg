CONSTANTS
    c1 = c1
    c2 = c2
    Collectors <- TwoCollectors
    MicOf <- TwoMics
    Operator = Operator
    Files <- SomeFiles
    NoFile = NoFile
    Broken = Broken
    NoAnswer = NoAnswer
    MaxEdits = 1
    MaxRefreshes = 1
    MaxCrashes = 1
SPECIFICATION Spec
INVARIANTS
    TypeOK
    ServedWhole
    FreshAfterRefresh
PROPERTIES
    CollectorReturns
CHECK_DEADLOCK FALSE
